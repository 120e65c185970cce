----------------------------- MODULE Components -----------------------------
(***************************************************************************)
(* What happens to a gene's component list before code is generated from   *)
(* it.  gene.Validate accepts or rejects the list whenever a gene is saved *)
(* or loaded (internal/gene/gene.go); topoSort orders an accepted list for *)
(* composed convergence (internal/attractor/toposort.go).                  *)
(*                                                                         *)
(* The two compare names differently: Validate lowercases them and         *)
(* collapses their blanks, topoSort takes them as they are.  Names stands  *)
(* for the spellings that occur and Norm for normalizeName.                *)
(*                                                                         *)
(* Both walks are sequential.  The only choice is the order in which the   *)
(* DFS takes its roots: detectComponentCycles ranges over a Go map.        *)
(***************************************************************************)
EXTENDS Integers, Sequences, FiniteSets

CONSTANTS
  Names,   \* the spellings of component names
  Norm,    \* Norm[name]: normalizeName(name), itself a spelling
  Blank,   \* the normalized form of a blank name
  Genes    \* the component lists considered

ASSUME NamesAssumption ==
  /\ Norm \in [Names -> Names]
  /\ \A n \in Names : Norm[Norm[n]] = Norm[n]

ASSUME GenesAssumption ==
  \A g \in Genes :
    /\ g \in Seq([name : Names, deps : Seq(Names)])
    /\ g # <<>>

VARIABLES
  components,  \* the gene's list, never changed
  stage,       \* "validate", "cycles", "graph", "sort" or "done"
  verdict,     \* "none", or how the list fared
  visited,     \* names the DFS has finished
  stack,       \* names the DFS is in, each with the dependencies it has left
  inDegree, queue, sorted  \* as in kahnSort

dfsVars == <<visited, stack>>
sortVars == <<inDegree, queue, sorted>>
geneVars == <<components, stage, verdict, visited, stack, inDegree, queue, sorted>>

-----------------------------------------------------------------------------
(* The list.                                                               *)

Positions == DOMAIN components
NameOf(i) == components[i].name
Deps(i) == components[i].deps
ListNames == {NameOf(i) : i \in Positions}
NormNames == {Norm[n] : n \in ListNames}

\* The entry of a name: an accepted list has one (buildTopoGraph's byName).
EntryOf(n) == CHOOSE i \in Positions : NameOf(i) = n

\* adj of detectComponentCycles: the normalized dependencies of a normalized name.
Adjacent(key) ==
  LET i == CHOOSE j \in Positions : Norm[NameOf(j)] = key
  IN  [k \in DOMAIN Deps(i) |-> Norm[Deps(i)[k]]]

Blanks == {i \in Positions : Norm[NameOf(i)] = Blank}
Duplicates == {i \in Positions : \E j \in 1..(i - 1) : Norm[NameOf(j)] = Norm[NameOf(i)]}
Missing == {i \in Positions : \E k \in DOMAIN Deps(i) : Norm[Deps(i)[k]] \notin NormNames}

\* Seeded fault: topoSort does not look the dependencies up.
UnknownIgnored == {}

Unknown == {i \in Positions : \E k \in DOMAIN Deps(i) : Deps(i)[k] \notin ListNames}

\* How often n stands in dependents[dep]: once for each mention.
Mentions(n, dep) == Cardinality({k \in DOMAIN Deps(EntryOf(n)) : Deps(EntryOf(n))[k] = dep})

InDegrees == [n \in ListNames |-> Len(Deps(EntryOf(n)))]

\* A set of names arranged as in the list: of distinct names, one sequence.
InListOrder(S) ==
  {s \in [1..Cardinality(S) -> S] :
     /\ \A n \in S : \E i \in DOMAIN s : s[i] = n
     /\ \A i, j \in DOMAIN s : i < j => EntryOf(s[i]) < EntryOf(s[j])}

-----------------------------------------------------------------------------
(* validateComponents.                                                     *)

GeneInit ==
  /\ components \in Genes
  /\ stage = "validate" /\ verdict = "none"
  /\ visited = {} /\ stack = <<>>
  /\ inDegree = [n \in {} |-> 0] /\ queue = <<>> /\ sorted = <<>>

Finish(v) == stage' = "done" /\ verdict' = v

\* An empty or repeated name, or a dependency on a name not in the list.
Reject ==
  /\ stage = "validate" /\ Blanks \cup Duplicates \cup Missing # {}
  /\ Finish("invalid")
  /\ UNCHANGED <<components, dfsVars, sortVars>>

StartCycleCheck ==
  /\ stage = "validate" /\ Blanks \cup Duplicates \cup Missing = {}
  /\ stage' = "cycles"
  /\ UNCHANGED <<components, verdict, dfsVars, sortVars>>

\* Seeded fault: a finished node counts as one the DFS is in.
InStackForever == visited \cup {stack[d].key : d \in DOMAIN stack}

\* Seeded fault: only a component that depends on itself is in the way.
InStackTop == {stack[Len(stack)].key}

InStack == {stack[d].key : d \in DOMAIN stack}

Frame(key) == [key |-> key, rest |-> Adjacent(key)]

\* detectComponentCycles calls dfsComponentCycle on an unvisited name.
DfsRoot ==
  /\ stage = "cycles" /\ stack = <<>>
  /\ \E key \in NormNames \ visited : stack' = <<Frame(key)>>
  /\ UNCHANGED <<components, stage, verdict, visited, sortVars>>

\* The next dependency: a cycle, a finished name, or one to descend into.
DfsDependency ==
  /\ stage = "cycles" /\ stack # <<>>
  /\ LET depth == Len(stack)
         top == stack[depth]
     IN  /\ top.rest # <<>>
         /\ LET dep == Head(top.rest)
                popped == [stack EXCEPT ![depth].rest = Tail(top.rest)]
            IN  \/ /\ dep \in InStack
                   /\ Finish("loop") /\ UNCHANGED stack
                \/ /\ dep \notin InStack
                   /\ stack' = IF dep \in visited THEN popped ELSE Append(popped, Frame(dep))
                   /\ UNCHANGED <<stage, verdict>>
  /\ UNCHANGED <<components, visited, sortVars>>

DfsReturn ==
  /\ stage = "cycles" /\ stack # <<>> /\ stack[Len(stack)].rest = <<>>
  /\ visited' = visited \cup {stack[Len(stack)].key}
  /\ stack' = SubSeq(stack, 1, Len(stack) - 1)
  /\ UNCHANGED <<components, stage, verdict, sortVars>>

\* The gene is accepted; tryComposed hands its list to topoSort.
AcceptGene ==
  /\ stage = "cycles" /\ stack = <<>> /\ NormNames \subseteq visited
  /\ stage' = "graph"
  /\ UNCHANGED <<components, verdict, dfsVars, sortVars>>

-----------------------------------------------------------------------------
(* topoSort.                                                               *)

\* buildTopoGraph: a dependency must be spelled as the component is.
UnknownDependency ==
  /\ stage = "graph" /\ Unknown # {}
  /\ Finish("unknown")
  /\ UNCHANGED <<components, dfsVars, sortVars>>

BuildGraph ==
  /\ stage = "graph" /\ Unknown = {}
  /\ inDegree' = InDegrees
  /\ queue' \in InListOrder({n \in ListNames : InDegrees[n] = 0})
  /\ stage' = "sort"
  /\ UNCHANGED <<components, verdict, dfsVars, sorted>>

\* Seeded fault: a dependent is queued one dependency too early.
PopEarly ==
  /\ stage = "sort" /\ queue # <<>>
  /\ LET name == Head(queue)
     IN  /\ inDegree' = [n \in ListNames |-> inDegree[n] - Mentions(n, name)]
         /\ \E freed \in InListOrder({n \in ListNames : inDegree[n] > 1 /\ inDegree'[n] <= 1}) :
              queue' = Tail(queue) \o freed
         /\ sorted' = Append(sorted, name)
  /\ UNCHANGED <<components, stage, verdict, dfsVars>>

\* The head of the queue is sorted; its dependents lose an in-degree for each
\* mention, and those left without any are queued.
Pop ==
  /\ stage = "sort" /\ queue # <<>>
  /\ LET name == Head(queue)
     IN  /\ inDegree' = [n \in ListNames |-> inDegree[n] - Mentions(n, name)]
         /\ \E freed \in InListOrder({n \in ListNames : inDegree[n] > 0 /\ inDegree'[n] = 0}) :
              queue' = Tail(queue) \o freed
         /\ sorted' = Append(sorted, name)
  /\ UNCHANGED <<components, stage, verdict, dfsVars>>

SortEnds ==
  /\ stage = "sort" /\ queue = <<>>
  /\ Finish(IF Len(sorted) = Len(components) THEN "sorted" ELSE "cycle")
  /\ UNCHANGED <<components, dfsVars, sortVars>>

GeneTerminating == stage = "done" /\ UNCHANGED geneVars

ValidateGene == Reject \/ StartCycleCheck \/ DfsRoot \/ DfsDependency \/ DfsReturn \/ AcceptGene
TopoSort == UnknownDependency \/ BuildGraph \/ Pop \/ SortEnds

GeneNext == ValidateGene \/ TopoSort \/ GeneTerminating

\* One goroutine, no external call.
GeneSpec == GeneInit /\ [][GeneNext]_geneVars /\ WF_geneVars(GeneNext)

-----------------------------------------------------------------------------
(* Properties.                                                             *)

\* Every variable holds a value of its kind: no in-degree falls below zero,
\* whatever a list mentions twice (kahnSort's counters are plain ints).
GeneTypeOK ==
  /\ components \in Genes
  /\ stage \in {"validate", "cycles", "graph", "sort", "done"}
  /\ verdict \in {"none", "invalid", "loop", "unknown", "cycle", "sorted"}
  /\ visited \subseteq NormNames
  /\ stack \in Seq([key : NormNames, rest : Seq(NormNames)])
  /\ inDegree \in [DOMAIN inDegree -> Nat] /\ DOMAIN inDegree \subseteq ListNames
  /\ queue \in Seq(ListNames) /\ sorted \in Seq(ListNames)

\* Every variable has its type, and at every moment of the sort no component stands before one it depends on,
\* and none stands twice: convergeComponent finds the interfaces and the files
\* of every dependency in place (runComposed's depInterfaces).
DependenciesFirst ==
  /\ GeneTypeOK
  /\ \A p \in DOMAIN sorted :
       /\ \A q \in 1..(p - 1) : sorted[q] # sorted[p]
       /\ \A k \in DOMAIN Deps(EntryOf(sorted[p])) :
            \E q \in 1..(p - 1) : sorted[q] = Deps(EntryOf(sorted[p]))[k]

\* A set of components each of which depends on one of the set: a cycle.
HasCycle ==
  \E S \in (SUBSET NormNames) \ {{}} :
    \A key \in S : \E k \in DOMAIN Adjacent(key) : Adjacent(key)[k] \in S

\* The DFS reports a cycle exactly when there is one, in whatever order it
\* takes its roots: a diamond is not one, a component on itself is
\* (dfsComponentCycle's visited and inStack).
LoopMeansCycle ==
  stage \in {"graph", "sort", "done"} /\ verdict # "invalid" =>
    (verdict = "loop" <=> HasCycle)

\* Once the gene is accepted, Kahn's algorithm sorts it whole: the two cycle
\* checks, written apart and over different keys, agree (errTopoSortCycle,
\* errDependencyCycle).
ChecksAgree == verdict # "cycle"

\* The stages in their order, and how much is left of the name the search is in.
Stage == [validate |-> 1, cycles |-> 2, graph |-> 3, sort |-> 4, done |-> 5]
Remaining == IF stack = <<>> THEN 0 ELSE Len(stack[Len(stack)].rest)

\* What a step of the search or the sort uses up: it finishes a name, descends to one
\* more, passes a dependency by, or sorts a name.  No more names are descended to, or
\* sorted, than the list has.
ListMoves ==
  /\ Len(stack') <= Len(components) /\ Len(sorted') <= Len(components)
  /\ \/ Stage[stage'] > Stage[stage]
     \/ /\ stage' = stage /\ stage = "cycles"
        /\ \/ visited \subseteq visited' /\ visited' # visited
           \/ visited' = visited /\ Len(stack') > Len(stack)
           \/ visited' = visited /\ Len(stack') = Len(stack) /\ Remaining' < Remaining
     \/ stage' = stage /\ stage = "sort" /\ Len(sorted') > Len(sorted)

\* Why every list is judged, whatever depends on what: neither walk goes round in a cycle
\* it has not noticed, and none goes over a part of the list again (dfsComponentCycle,
\* kahnSort).
ListMovesOn == [][ListMoves]_geneVars

-----------------------------------------------------------------------------
(* What the documentation says and the code does not do.                   *)

\* "All entries in depends_on must reference a component that exists in the
\* array (also case-insensitive and whitespace-normalized)": a list accepted
\* under that rule can be sorted (topoSort on a validated gene).
AcceptedIsSorted == stage = "done" => verdict \in {"invalid", "loop", "sorted"}
=============================================================================
