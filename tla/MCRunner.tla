------------------------------ MODULE MCRunner ------------------------------
(***************************************************************************)
(* Scenario files for TLC: at most one setup step and two judged ones, from*)
(* a menu in which each check of the linter has something to find and each *)
(* executor something to run.                                              *)
(***************************************************************************)
EXTENDS Runner, TLC

V == "x"
W == "y"
Ok == Scalar("ok", {})
Uses(v) == Scalar("ok", {v})
Bad == Scalar("bad", {})
Capturing(name, field, text) ==
  Mapping([f \in {"name", field} |-> IF f = "name" THEN Scalar(name, {}) ELSE Scalar(text, {})])
Judged(type, body) == type :> Mapping(body) @@ ("expect" :> Ok) @@ ("description" :> Ok)
With(fields, more) == Mapping(fields @@ more)

Get == Judged("request", [method |-> Ok, path |-> Uses(V)])
Cmd == Judged("exec", [command |-> Ok, timeout |-> Ok])

\* Steps that bind a name, or two.
Binding == {
  With(Cmd, "capture" :> List(<<Capturing(V, "source", "stdout")>>)),
  With(Cmd, "capture" :> List(<<Capturing(V, "jsonpath", "ok"), Capturing(W, "source", "stdout")>>)
            @@ "retry" :> Mapping([attempts |-> Ok, timeout |-> Ok]))}

\* Steps that use names, with and without captures of their own.
Using == {
  Mapping(Get),
  With(Get, "capture" :> List(<<Capturing(V, "jsonpath", "ok")>>)),
  Mapping(Judged("request", [method |-> Ok, path |-> Ok, body |-> Mapping([k |-> Uses(W)])])),
  Mapping(Judged("browser", [action |-> Scalar("fill", {}), selector |-> Uses(V), value |-> Uses(W)])),
  Mapping(Judged("grpc", [service |-> Ok, method |-> Ok,
                          stream |-> Mapping([messages |-> List(<<Uses(W)>>)])])),
  Mapping(Judged("ws", [url |-> Uses(V), send |-> Ok])),
  Mapping(Judged("tui", [command |-> Ok, wait_for |-> Uses(V)]))}

\* Steps that something is wrong with, or that are the least there is.
Odd == {
  Scalar("ok", {}),
  Mapping("expect" :> Ok),
  Mapping("request" :> Mapping([method |-> Ok, path |-> Uses(W)])
          @@ "exec" :> Mapping([command |-> Ok, timeout |-> Bad])),
  With(Cmd, "delay" :> Bad),
  With(Cmd, "retry" :> Mapping([interval |-> Bad])),
  With(Cmd, "retry" :> Mapping([attempts |-> Scalar("zero", {})])),
  With(Get, "retry" :> Mapping([attempts |-> Ok, timeout |-> Ok])),
  With(Cmd, "capture" :> List(<<Capturing(V, "name", "ok")>>)),
  With(Cmd, "capture" :> List(<<Capturing(V, "source", "bad")>>)),
  With(Cmd, "capture" :> List(<<Capturing(V, "jsonpath", "bad")>>)),
  Mapping(Judged("exec", [command |-> Ok, timeout |-> Bad])),
  Mapping(Judged("exec", [command |-> Ok, files |-> Mapping([relative |-> Uses(V)])])),
  Mapping(Judged("browser", [action |-> Scalar("click", {}), selector |-> Ok, value |-> Uses(W)])),
  Mapping(Judged("browser", [action |-> Scalar("fill", {}), selector |-> Ok])),
  Mapping(Judged("browser", [action |-> Scalar("assert", {}), selector |-> Ok, timeout |-> Bad])),
  Mapping(Judged("grpc", [service |-> Ok, timeout |-> Bad])),
  Mapping(Judged("grpc", [method |-> Uses(W), stream |-> Mapping([id |-> Uses(V), receive |-> Mapping([count |-> Ok])])])),
  Mapping(Judged("grpc", [stream |-> Mapping([receive |-> Mapping([timeout |-> Bad])])])),
  Mapping(Judged("ws", [send |-> Ok, receive |-> Mapping([count |-> Scalar("zero", {})])])),
  Mapping(Judged("tui", [timeout |-> Bad])),
  Mapping(Judged("tui", [send_key |-> Ok, timeout |-> Bad]))}

\* Steps that the linter finds no error in and that fail for what stands in them.
Raw(v) == Scalar("raw", {v})
Null0 == Scalar("null", {})
Key == Mapping(Judged("tui", [send_key |-> Ok]))
Write == Mapping(Judged("ws", [send |-> Ok]))
Collect(id) == Mapping(Judged("grpc", [stream |-> Mapping([id |-> Scalar(id, {})])]))
Call(more) == Mapping(Judged("grpc", more @@ [service |-> Ok, method |-> Ok]))
Hidden == {
  Key, Write, Collect("0"), Collect("s"),
  Mapping(Judged("tui", [command |-> Ok, send_key |-> Bad])),
  Mapping(Judged("browser", [action |-> Scalar("navigate", {}), url |-> Null0])),
  Mapping(Judged("browser", [action |-> Scalar("click", {}), selector |-> Raw(V)])),
  Mapping(Judged("request", [method |-> Ok, path |-> Raw(V)])),
  Mapping(Judged("request", [method |-> Ok, path |-> Ok, headers |-> Mapping([illegal |-> Ok])])),
  Mapping(Judged("exec", [command |-> Ok, files |-> Mapping([directory |-> Ok])])),
  Call([body |-> Bad]), Call([body |-> Raw(V)]),
  Call([stream |-> Mapping([messages |-> List(<<Ok, Null0>>)])])}

\* What may come before them: a process, a connection, a background stream, and what only
\* looks like one.
Background(more) ==
  [stream |-> With([receive |-> Mapping([background |-> Scalar("true", {})])], more)]
Opening == {
  Mapping(Judged("tui", [command |-> Ok, send_key |-> Bad])),
  Mapping(Judged("tui", [command |-> Ok, timeout |-> Bad])),
  Mapping(Judged("ws", [url |-> Ok])), Mapping(Judged("ws", [url |-> Ok, id |-> Ok])),
  Mapping(Judged("ws", [url |-> Ok, id |-> Uses(V)])),
  With(Judged("ws", [url |-> Ok]), "retry" :> Mapping([attempts |-> Ok, timeout |-> Ok])),
  Call(Background(<<>>)), Call(Background("id" :> Scalar("s", {}))),
  Call(Background(<<>>) @@ [body |-> Bad])}
Dependent == {Key, Write, Collect("0"), Collect("s")}

Menu == Binding \cup Using \cup Odd
Setups == {<<>>} \cup {<<s>> : s \in Binding \cup Using}
Sequences2 == {<<s>> : s \in Menu} \cup {<<s, t>> : s \in Binding \cup Using, t \in Menu}
Named == "id" :> Ok

MCNames == {V, W}
MCAutoIds == <<"0", "1">>
MCFiles ==
  {Mapping(Named @@ "setup" :> List(setup) @@ "steps" :> List(steps)) :
     setup \in Setups, steps \in Sequences2}
  \cup {Mapping(Named @@ "setup" :> List(<<s>>) @@ "steps" :> List(<<Mapping(Get)>>)) : s \in Odd \cup Hidden}
  \cup {Mapping(Named @@ "setup" :> List(setup) @@ "steps" :> List(<<s>>)) :
          setup \in {<<>>} \cup {<<b>> : b \in Binding}, s \in Hidden}
  \cup {Mapping(Named @@ "steps" :> List(<<b, s>>)) : b \in Binding, s \in Hidden}
  \cup {Mapping(Named @@ "setup" :> List(<<s>>) @@ "steps" :> List(<<t>>)) :
          s \in Opening, t \in Dependent}
  \cup {Mapping(Named @@ "steps" :> List(<<s, t>>)) : s \in Opening, t \in Dependent}
  \cup {Mapping(head @@ "steps" :> List(<<Mapping(Cmd)>>)) :
          head \in {"id" :> Scalar("", {}), Named @@ "weight" :> Bad, Named @@ "tier" :> Scalar("zero", {}),
                    Named @@ "type" :> Bad}}
  \cup {Mapping(Named), Mapping(Named @@ "setup" :> Ok @@ "steps" :> List(<<Mapping(Cmd)>>))}
=============================================================================
