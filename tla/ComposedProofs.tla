--------------------------- MODULE ComposedProofs ---------------------------
(***************************************************************************)
(* Proofs about the component list and the composed attempt that converges *)
(* it: first module Components, for every set of spellings, every          *)
(* normalization of them and lists of any length, then module Composed, for*)
(* every set of options, scores and costs.                                 *)
(*                                                                         *)
(* GeneInv says what an accepted list looks like, DfsInv what the          *)
(* depth-first search has established, KahnInv what the queue and the      *)
(* in-degrees count; the agreement of the two cycle checks needs all three.*)
(***************************************************************************)
EXTENDS Composed, FiniteSetTheorems, SequenceTheorems, TLAPS

-----------------------------------------------------------------------------
(* The list's validation and sort.                                         *)

\* The dependencies of a name, and the normalized dependency relation.
DepsOf == [n \in ListNames |-> Deps(EntryOf(n))]
Edges == {e \in NormNames \X NormNames : \E k \in DOMAIN Adjacent(e[1]) : Adjacent(e[1])[k] = e[2]}

Clean == Blanks = {} /\ Duplicates = {} /\ Missing = {}

\* A list gets past the first checks only without blank, repeated or missing
\* names, and the verdict is given at the end.
GeneInv ==
  /\ components \in Genes
  /\ stage \in {"validate", "cycles", "graph", "sort", "done"}
  /\ verdict \in {"none", "invalid", "loop", "unknown", "cycle", "sorted"}
  /\ (verdict = "none") <=> (stage # "done")
  /\ stage # "validate" /\ verdict # "invalid" => Clean

\* The list has passed validateComponents.
Accepted == stage \in {"graph", "sort"} \/ verdict \in {"unknown", "cycle", "sorted"}

\* The names from which kahnSort has nothing left to wait for, in queue order.
Line == sorted \o queue
Waiting(n) == {k \in DOMAIN DepsOf[n] : \A p \in DOMAIN sorted : sorted[p] # DepsOf[n][k]}

Sorting == stage = "sort" \/ verdict \in {"cycle", "sorted"}

\* An in-degree counts the mentions of names not yet sorted; the names with
\* none left are those sorted or queued, each once.
KahnInv ==
  /\ queue \in Seq(ListNames) /\ sorted \in Seq(ListNames)
  /\ ~Sorting => inDegree = [n \in {} |-> 0] /\ queue = <<>> /\ sorted = <<>>
  /\ Sorting =>
       /\ Unknown = {}
       /\ inDegree \in [ListNames -> Nat]
       /\ \A n \in ListNames : inDegree[n] = Cardinality(Waiting(n))
       /\ \A i, j \in DOMAIN Line : Line[i] = Line[j] => i = j
       /\ \A i \in DOMAIN Line : inDegree[Line[i]] = 0
       /\ \A n \in ListNames : inDegree[n] = 0 => \E i \in DOMAIN Line : Line[i] = n
       /\ \A p \in DOMAIN sorted : \A k \in DOMAIN DepsOf[sorted[p]] :
            \E q \in 1..(p - 1) : sorted[q] = DepsOf[sorted[p]][k]

\* The finished names are closed under dependencies and free of cycles.
Finished ==
  /\ visited \subseteq NormNames
  /\ \A e \in Edges : e[1] \in visited => e[2] \in visited
  /\ \A S \in SUBSET visited : S # {} => \E key \in S : \A dep \in S : <<key, dep>> \notin Edges

\* How deep the search is, and what the last name has left.
Depth == Len(stack)
Left == stack[Depth].rest

\* The names the search is in form a path.
Path ==
  /\ stack \in Seq([key : NormNames, rest : Seq(NormNames)])
  /\ \A d \in DOMAIN stack : stack[d].key \notin visited
  /\ \A d, c \in DOMAIN stack : stack[d].key = stack[c].key => d = c
  /\ \A d \in DOMAIN stack : d < Len(stack) => <<stack[d].key, stack[d + 1].key>> \in Edges

\* What is left of a name's dependencies: all of them but those finished and
\* the one the search is in.
Rest ==
  /\ \A d \in DOMAIN stack : \A r \in DOMAIN stack[d].rest : <<stack[d].key, stack[d].rest[r]>> \in Edges
  /\ \A d \in DOMAIN stack : \A e \in Edges : e[1] = stack[d].key =>
       \/ e[2] \in visited
       \/ \E r \in DOMAIN stack[d].rest : stack[d].rest[r] = e[2]
       \/ d < Len(stack) /\ e[2] = stack[d + 1].key

DfsInv ==
  /\ Finished /\ Path /\ Rest
  /\ stage = "validate" => visited = {} /\ stack = <<>>

\* What the search concludes.
LoopInv ==
  /\ verdict = "loop" => HasCycle
  /\ Accepted => ~HasCycle

-----------------------------------------------------------------------------
(* The component list.                                                     *)

\* The fields of a list have their types.
LEMMA GeneTyped ==
  ASSUME components \in Genes
  PROVE  /\ Positions = 1..Len(components) /\ Len(components) \in Nat
         /\ \A i \in Positions : NameOf(i) \in Names /\ Deps(i) \in Seq(Names)
<1> DEFINE Entry == [name : Names, deps : Seq(Names)]
<1>1. components \in Seq(Entry)
  BY GenesAssumption
<1>2. Positions = 1..Len(components) /\ Len(components) \in Nat
  BY <1>1, LenProperties DEF Positions
<1>3. \A i \in Positions : components[i] \in Entry
  BY <1>1, <1>2, ElementOfSeq
<1>4. QED
  BY <1>2, <1>3 DEF NameOf, Deps

\* A name of the list has an entry (buildTopoGraph's byName).
LEMMA EntryFacts ==
  ASSUME components \in Genes
  PROVE  /\ \A n \in ListNames : EntryOf(n) \in Positions /\ NameOf(EntryOf(n)) = n
         /\ DepsOf \in [ListNames -> Seq(Names)]
<1>1. ASSUME NEW n \in ListNames PROVE EntryOf(n) \in Positions /\ NameOf(EntryOf(n)) = n
  <2>1. \E i \in Positions : NameOf(i) = n
    BY DEF ListNames
  <2>2. QED
    BY <2>1 DEF EntryOf
<1>2. QED
  BY <1>1, GeneTyped DEF DepsOf

\* The list is never changed, nor what is computed from it.
LEMMA Fixed ==
  ASSUME components' = components
  PROVE  /\ Positions' = Positions /\ ListNames' = ListNames /\ NormNames' = NormNames
         /\ DepsOf' = DepsOf /\ Edges' = Edges /\ Unknown' = Unknown /\ Clean' = Clean
         /\ HasCycle' = HasCycle
BY DEF Positions, ListNames, NormNames, DepsOf, Edges, Unknown, Clean, Blanks, Duplicates,
  Missing, HasCycle, Adjacent, EntryOf, NameOf, Deps

\* The set of names is finite.
LEMMA FiniteNames ==
  ASSUME components \in Genes
  PROVE  IsFiniteSet(ListNames)
<1>1. IsFiniteSet(Positions)
  BY GeneTyped, FS_Interval
<1>2. [i \in Positions |-> NameOf(i)] \in Surjection(Positions, ListNames)
  BY DEF Surjection, ListNames
<1>3. QED
  BY <1>1, <1>2, FS_Surjection

\* The mentions a name waits for are finitely many.
LEMMA FiniteWaiting ==
  ASSUME components \in Genes, NEW n \in ListNames
  PROVE  IsFiniteSet(DOMAIN DepsOf[n]) /\ IsFiniteSet(Waiting(n)) /\ Cardinality(Waiting(n)) \in Nat
<1>1. DepsOf[n] \in Seq(Names)
  BY EntryFacts
<1>2. DOMAIN DepsOf[n] = 1..Len(DepsOf[n]) /\ Len(DepsOf[n]) \in Nat
  BY <1>1, LenProperties
<1>3. IsFiniteSet(DOMAIN DepsOf[n])
  BY <1>2, FS_Interval
<1>4. Waiting(n) \in SUBSET DOMAIN DepsOf[n]
  BY DEF Waiting
<1>5. IsFiniteSet(Waiting(n))
  BY <1>3, <1>4, FS_Subset
<1>6. QED
  BY <1>3, <1>5, FS_CardinalityType

\* A set of names in list order: each of its names once.
LEMMA InListOrderFacts ==
  ASSUME components \in Genes, NEW S \in SUBSET ListNames, NEW s \in InListOrder(S)
  PROVE  /\ s \in Seq(S) /\ s \in Seq(ListNames)
         /\ \A i, j \in DOMAIN s : s[i] = s[j] => i = j
         /\ \A i \in DOMAIN s : s[i] \in S
         /\ \A n \in S : \E i \in DOMAIN s : s[i] = n
<1>1. Cardinality(S) \in Nat
  BY FiniteNames, FS_Subset, FS_CardinalityType
<1>2. s \in [1..Cardinality(S) -> S]
  BY DEF InListOrder
<1>3. s \in Seq(S)
  BY <1>1, <1>2
<1>4. ASSUME NEW i \in DOMAIN s, NEW j \in DOMAIN s, i < j PROVE s[i] # s[j]
  <2>1. s[i] \in ListNames /\ s[j] \in ListNames
    BY <1>2, <1>4
  <2>2. EntryOf(s[i]) \in Nat /\ EntryOf(s[j]) \in Nat
    BY <2>1, EntryFacts, GeneTyped
  <2>3. EntryOf(s[i]) < EntryOf(s[j])
    BY <1>4 DEF InListOrder
  <2>4. QED
    BY <2>2, <2>3
<1>5. \A i, j \in DOMAIN s : s[i] = s[j] => i = j
  BY <1>1, <1>2, <1>4
<1>6. s \in Seq(ListNames)
  BY <1>3, SeqMonotonic
<1>7. QED
  BY <1>2, <1>3, <1>5, <1>6 DEF InListOrder

\* Sequences of distinct elements, without a common one, make one of distinct elements.
LEMMA DistinctConcat ==
  ASSUME NEW S, NEW a \in Seq(S), NEW b \in Seq(S),
         \A i, j \in DOMAIN a : a[i] = a[j] => i = j,
         \A i, j \in DOMAIN b : b[i] = b[j] => i = j,
         \A i \in DOMAIN a, j \in DOMAIN b : a[i] # b[j]
  PROVE  \A i, j \in DOMAIN (a \o b) : (a \o b)[i] = (a \o b)[j] => i = j
<1> SUFFICES ASSUME NEW i \in DOMAIN (a \o b), NEW j \in DOMAIN (a \o b), (a \o b)[i] = (a \o b)[j]
             PROVE  i = j
  OBVIOUS
<1>1. PICK c \in Seq(S) : c = a \o b
  BY ConcatProperties
<1>2. PICK m \in Nat : m = Len(a) /\ DOMAIN a = 1..m
  BY LenProperties
<1>3. PICK n \in Nat : n = Len(b) /\ DOMAIN b = 1..n
  BY LenProperties
<1>4. DOMAIN c = 1..(m + n) /\ \A k \in 1..(m + n) : c[k] = IF k <= m THEN a[k] ELSE b[k - m]
  BY <1>1, <1>2, <1>3, ConcatProperties, LenProperties
<1>5. i \in 1..(m + n) /\ j \in 1..(m + n) /\ c[i] = c[j]
  BY <1>1, <1>4
<1>6. ASSUME NEW k \in 1..(m + n)
      PROVE  \/ k \in DOMAIN a /\ k <= m /\ c[k] = a[k]
             \/ k - m \in DOMAIN b /\ k > m /\ c[k] = b[k - m]
  BY <1>2, <1>3, <1>4
<1>7. CASE i <= m /\ j <= m
  BY <1>5, <1>6, <1>7
<1>8. CASE i > m /\ j > m
  <2>1. i - m = j - m
    BY <1>5, <1>6, <1>8
  <2>2. QED
    BY <2>1, <1>5
<1>9. CASE (i <= m /\ j > m) \/ (i > m /\ j <= m)
  BY <1>5, <1>6, <1>9
<1>10. QED
  BY <1>5, <1>7, <1>8, <1>9

\* Moving the head of the queue behind the sorted names leaves the line as it was.
LEMMA LineMoves ==
  ASSUME NEW S, NEW a \in Seq(S), NEW b \in Seq(S), NEW c \in Seq(S), b # <<>>
  PROVE  Append(a, Head(b)) \o (Tail(b) \o c) = (a \o b) \o c
<1>1. Head(b) \in S /\ Tail(b) \in Seq(S)
  BY HeadTailProperties
<1>2. Append(a, Head(b)) = a \o <<Head(b)>>
  BY <1>1, AppendIsConcat
<1>3. <<Head(b)>> \in Seq(S)
  BY <1>1
<1>4. <<Head(b)>> \o Tail(b) = b
  BY <1>1
<1>5. Tail(b) \o c \in Seq(S)
  BY <1>1, ConcatProperties
<1>6. Append(a, Head(b)) \o (Tail(b) \o c) = a \o (<<Head(b)>> \o (Tail(b) \o c))
  BY <1>2, <1>3, <1>5, ConcatAssociative
<1>7. <<Head(b)>> \o (Tail(b) \o c) = b \o c
  BY <1>1, <1>3, <1>4, ConcatAssociative
<1>8. a \o (b \o c) = (a \o b) \o c
  BY ConcatAssociative
<1>9. QED
  BY <1>6, <1>7, <1>8

-----------------------------------------------------------------------------
(* validateComponents and the stages.                                      *)

\* The list is never changed.
LEMMA NeverChanged == [GeneNext]_geneVars => components' = components
BY DEF GeneNext, ValidateGene, TopoSort, Reject, StartCycleCheck, DfsRoot, DfsDependency, DfsReturn,
  AcceptGene, UnknownDependency, BuildGraph, Pop, SortEnds, GeneTerminating, geneVars

\* GeneInv holds initially and is preserved.
LEMMA GeneStarts == GeneInit => GeneInv
BY DEF GeneInit, GeneInv

\* No step admits a list that is not clean, or gives a verdict early.
LEMMA GeneStep == GeneInv /\ [GeneNext]_geneVars => GeneInv'
<1> SUFFICES ASSUME GeneInv, [GeneNext]_geneVars PROVE GeneInv'
  OBVIOUS
<1>1. components' = components /\ Clean' = Clean
  BY NeverChanged, Fixed
<1> USE <1>1 DEF GeneInv, Finish
<1>2. CASE Reject
  BY <1>2 DEF Reject
<1>3. CASE StartCycleCheck
  BY <1>3 DEF StartCycleCheck, Clean
<1>4. CASE DfsRoot \/ DfsReturn \/ AcceptGene
  BY <1>4 DEF DfsRoot, DfsReturn, AcceptGene
<1>5. CASE DfsDependency
  BY <1>5 DEF DfsDependency
<1>6. CASE UnknownDependency \/ BuildGraph \/ Pop
  BY <1>6 DEF UnknownDependency, BuildGraph, Pop
<1>7. CASE SortEnds
  BY <1>7 DEF SortEnds
<1>8. CASE GeneTerminating \/ UNCHANGED geneVars
  BY <1>8 DEF GeneTerminating, geneVars
<1>9. QED
  BY <1>2, <1>3, <1>4, <1>5, <1>6, <1>7, <1>8 DEF GeneNext, ValidateGene, TopoSort

-----------------------------------------------------------------------------
(* kahnSort.                                                               *)

\* Before the sort there is no queue.
LEMMA KahnInit == GeneInit => KahnInv
BY DEF GeneInit, KahnInv, Sorting

\* buildTopoGraph: nothing is sorted, and every mention is waited for.
LEMMA KahnBuild == GeneInv /\ KahnInv /\ BuildGraph => KahnInv'
<1> SUFFICES ASSUME GeneInv, KahnInv, BuildGraph PROVE KahnInv'
  OBVIOUS
<1>1. components' = components /\ stage = "graph" /\ stage' = "sort" /\ verdict = "none"
  BY DEF BuildGraph, GeneInv
<1>2. components \in Genes /\ ListNames' = ListNames /\ DepsOf' = DepsOf /\ Unknown' = Unknown
  BY <1>1, Fixed DEF GeneInv
<1>3. sorted' = <<>> /\ Unknown = {}
  BY <1>1 DEF BuildGraph, KahnInv, Sorting
<1>4. queue' \in InListOrder({n \in ListNames : InDegrees[n] = 0})
  BY DEF BuildGraph
<1>5. /\ queue' \in Seq(ListNames)
      /\ \A i, j \in DOMAIN queue' : queue'[i] = queue'[j] => i = j
      /\ \A i \in DOMAIN queue' : InDegrees[queue'[i]] = 0
      /\ \A n \in ListNames : InDegrees[n] = 0 => \E i \in DOMAIN queue' : queue'[i] = n
  BY <1>2, <1>4, InListOrderFacts
<1>6. Line' = queue'
  BY <1>3, <1>5, ConcatEmptySeq DEF Line
<1>7. ASSUME NEW n \in ListNames
      PROVE  InDegrees[n] \in Nat /\ InDegrees[n] = Cardinality(Waiting(n)')
  <2>1. DepsOf[n] = Deps(EntryOf(n)) /\ DepsOf[n] \in Seq(Names)
    BY <1>2, EntryFacts DEF DepsOf
  <2>2. DOMAIN DepsOf[n] = 1..Len(DepsOf[n]) /\ Len(DepsOf[n]) \in Nat
    BY <2>1, LenProperties
  <2>3. Waiting(n)' = 1..Len(DepsOf[n])
    BY <1>2, <1>3, <2>2 DEF Waiting
  <2>4. Cardinality(1..Len(DepsOf[n])) = Len(DepsOf[n])
    BY <2>2, FS_Interval
  <2>5. QED
    BY <2>1, <2>2, <2>3, <2>4 DEF InDegrees
<1>8. inDegree' = InDegrees /\ InDegrees \in [ListNames -> Nat]
  BY <1>7 DEF BuildGraph, InDegrees
<1>9. QED
  BY <1>1, <1>2, <1>3, <1>5, <1>6, <1>7, <1>8 DEF KahnInv, Sorting

\* The head of the queue has no dependency left, and was not sorted before.
LEMMA HeadReady ==
  ASSUME GeneInv, KahnInv, Sorting, queue # <<>>
  PROVE  /\ Head(queue) \in ListNames /\ Waiting(Head(queue)) = {}
         /\ \A p \in DOMAIN sorted : sorted[p] # Head(queue)
<1> DEFINE m == Len(sorted)
<1>1. sorted \in Seq(ListNames) /\ queue \in Seq(ListNames)
  BY DEF KahnInv
<1>2. m \in Nat /\ DOMAIN sorted = 1..m /\ Len(queue) \in Nat \ {0} /\ Head(queue) = queue[1]
  BY <1>1, LenProperties, EmptySeq
<1>3. Line \in Seq(ListNames) /\ Len(Line) = m + Len(queue)
  BY <1>1, ConcatProperties DEF Line
<1>4. \A i \in 1..m + Len(queue) : Line[i] = IF i <= m THEN sorted[i] ELSE queue[i - m]
  BY <1>1, ConcatProperties DEF Line
<1>5. DOMAIN Line = 1..m + Len(queue)
  BY <1>3, LenProperties
<1>6. m + 1 \in DOMAIN Line /\ Line[m + 1] = Head(queue)
  BY <1>2, <1>4, <1>5
<1>7. Head(queue) \in ListNames
  BY <1>1, HeadTailProperties
<1>8. Cardinality(Waiting(Head(queue))) = 0
  BY <1>6, <1>7 DEF KahnInv
<1>9. Waiting(Head(queue)) = {}
  BY <1>7, <1>8, FiniteWaiting, FS_EmptySet DEF GeneInv
<1>10. ASSUME NEW p \in DOMAIN sorted PROVE sorted[p] # Head(queue)
  <2>1. p \in DOMAIN Line /\ Line[p] = sorted[p] /\ p # m + 1
    BY <1>2, <1>4, <1>5
  <2>2. QED
    BY <2>1, <1>6 DEF KahnInv
<1>11. QED
  BY <1>7, <1>9, <1>10

\* A pop of the queue takes a name's mentions of the head off its in-degree.
LEMMA PopCounts ==
  ASSUME GeneInv, KahnInv, Pop, NEW n \in ListNames
  PROVE  /\ inDegree'[n] = Cardinality(Waiting(n)') /\ inDegree'[n] \in Nat
         /\ inDegree'[n] <= inDegree[n]
<1> DEFINE name == Head(queue)
           Freed == {k \in DOMAIN DepsOf[n] : DepsOf[n][k] = name}
<1>1. Sorting /\ queue # <<>> /\ components' = components /\ sorted' = Append(sorted, name)
  BY DEF Pop, Sorting
<1>2. components \in Genes /\ DepsOf' = DepsOf /\ DepsOf[n] = Deps(EntryOf(n))
  BY <1>1, Fixed DEF GeneInv, DepsOf
<1>3. name \in ListNames /\ \A p \in DOMAIN sorted : sorted[p] # name
  BY <1>1, HeadReady
<1>4. sorted \in Seq(ListNames)
  BY DEF KahnInv
<1>5. /\ DOMAIN sorted = 1..Len(sorted) /\ Len(sorted) \in Nat
      /\ DOMAIN sorted' = 1..(Len(sorted) + 1) /\ sorted'[Len(sorted) + 1] = name
      /\ \A p \in DOMAIN sorted : sorted'[p] = sorted[p]
  BY <1>1, <1>3, <1>4, AppendProperties, LenProperties
<1>6. Freed \subseteq Waiting(n)
  BY <1>3 DEF Waiting
<1>7. Waiting(n)' = Waiting(n) \ Freed
  <2>1. Waiting(n)' = {k \in DOMAIN DepsOf[n] : \A p \in DOMAIN sorted' : sorted'[p] # DepsOf[n][k]}
    BY <1>2 DEF Waiting
  <2>2. ASSUME NEW k \in DOMAIN DepsOf[n]
        PROVE  (\A p \in DOMAIN sorted' : sorted'[p] # DepsOf[n][k]) <=>
                 /\ \A p \in DOMAIN sorted : sorted[p] # DepsOf[n][k]
                 /\ DepsOf[n][k] # name
    BY <1>5
  <2>3. QED
    BY <2>1, <2>2 DEF Waiting
<1>8. IsFiniteSet(Waiting(n)) /\ Waiting(n) \cap Freed = Freed /\ IsFiniteSet(Freed)
  BY <1>2, <1>6, FiniteWaiting, FS_Subset
<1>9. Cardinality(Waiting(n)') = Cardinality(Waiting(n)) - Cardinality(Freed)
  BY <1>7, <1>8, FS_Difference
<1>10. IsFiniteSet(Waiting(n)')
  <2> HIDE DEF Freed
  <2>1. IsFiniteSet(Waiting(n) \ Freed)
    BY <1>8, FS_Difference
  <2>2. QED
    BY <2>1, <1>7
<1>11. Cardinality(Freed) \in Nat /\ Cardinality(Waiting(n)') \in Nat /\ Cardinality(Waiting(n)) \in Nat
  BY <1>8, <1>10, FS_CardinalityType
<1>12. Mentions(n, name) = Cardinality(Freed)
  BY <1>2 DEF Mentions
<1>13. inDegree'[n] = inDegree[n] - Mentions(n, name) /\ inDegree[n] = Cardinality(Waiting(n))
  BY <1>1 DEF Pop, KahnInv
<1>14. QED
  BY <1>9, <1>11, <1>12, <1>13

\* The names freed by a pop are those that come to stand in the line.
LEMMA KahnPop == GeneInv /\ KahnInv /\ Pop => KahnInv'
<1> SUFFICES ASSUME GeneInv, KahnInv, Pop PROVE KahnInv'
  OBVIOUS
<1> DEFINE name == Head(queue)
<1>1. /\ Sorting /\ queue # <<>> /\ components' = components /\ sorted' = Append(sorted, name)
      /\ stage' = stage /\ stage = "sort"
  BY DEF Pop, Sorting
<1>2. components \in Genes /\ DepsOf' = DepsOf /\ ListNames' = ListNames /\ Unknown' = Unknown
  BY <1>1, Fixed DEF GeneInv
<1>3. sorted \in Seq(ListNames) /\ queue \in Seq(ListNames) /\ name \in ListNames
  BY <1>1, HeadReady DEF KahnInv
<1>4. PICK freed \in InListOrder({n \in ListNames : inDegree[n] > 0 /\ inDegree'[n] = 0}) :
        queue' = Tail(queue) \o freed
  BY DEF Pop
<1>5. /\ freed \in Seq(ListNames)
      /\ \A i, j \in DOMAIN freed : freed[i] = freed[j] => i = j
      /\ \A i \in DOMAIN freed : inDegree[freed[i]] > 0 /\ inDegree'[freed[i]] = 0
      /\ \A n \in ListNames : inDegree[n] > 0 /\ inDegree'[n] = 0 => \E i \in DOMAIN freed : freed[i] = n
  <2> DEFINE F == {n \in ListNames : inDegree[n] > 0 /\ inDegree'[n] = 0}
  <2>1. F \subseteq ListNames /\ freed \in InListOrder(F)
    OBVIOUS
  <2>2. \A n \in ListNames : n \in F <=> inDegree[n] > 0 /\ inDegree'[n] = 0
    OBVIOUS
  <2> HIDE DEF F
  <2>3. /\ freed \in Seq(ListNames)
        /\ \A i, j \in DOMAIN freed : freed[i] = freed[j] => i = j
        /\ \A i \in DOMAIN freed : freed[i] \in F
        /\ \A n \in F : \E i \in DOMAIN freed : freed[i] = n
    BY <2>1, <1>2, InListOrderFacts
  <2>4. QED
    BY <2>1, <2>2, <2>3
<1>6. sorted' \in Seq(ListNames) /\ queue' \in Seq(ListNames)
  BY <1>1, <1>3, <1>4, <1>5, AppendProperties, HeadTailProperties, ConcatProperties
<1>7. /\ inDegree' \in [ListNames -> Nat]
      /\ \A n \in ListNames : inDegree'[n] = Cardinality(Waiting(n)') /\ inDegree'[n] <= inDegree[n]
  <2>1. inDegree' = [n \in ListNames |-> inDegree[n] - Mentions(n, name)]
    BY DEF Pop
  <2>2. QED
    BY <2>1, PopCounts
<1>8. Line' = Line \o freed
  <2>1. Append(sorted, Head(queue)) \o (Tail(queue) \o freed) = (sorted \o queue) \o freed
    BY <1>1, <1>3, <1>5, LineMoves
  <2>2. sorted' \o queue' = Append(sorted, Head(queue)) \o (Tail(queue) \o freed)
    BY <1>1, <1>4
  <2>3. QED
    BY <2>1, <2>2 DEF Line
<1>9. Line \in Seq(ListNames)
  BY <1>3, ConcatProperties DEF Line
<1> DEFINE l == Len(Line)
<1>10. /\ l \in Nat /\ DOMAIN Line = 1..l /\ Len(freed) \in Nat /\ DOMAIN freed = 1..Len(freed)
       /\ DOMAIN Line' = 1..(l + Len(freed))
       /\ \A i \in 1..(l + Len(freed)) : Line'[i] = IF i <= l THEN Line[i] ELSE freed[i - l]
  BY <1>5, <1>8, <1>9, ConcatProperties, LenProperties
<1>11. /\ \A i, j \in DOMAIN Line : Line[i] = Line[j] => i = j
       /\ \A i \in DOMAIN Line : Line[i] \in ListNames /\ inDegree[Line[i]] = 0
       /\ \A n \in ListNames : inDegree[n] = 0 => \E i \in DOMAIN Line : Line[i] = n
  BY <1>1, <1>9, <1>10, ElementOfSeq DEF KahnInv
<1>12. inDegree \in [ListNames -> Nat]
  BY <1>1 DEF KahnInv
<1>13. \A i, j \in DOMAIN Line' : Line'[i] = Line'[j] => i = j
  <2>1. \A i \in DOMAIN Line, j \in DOMAIN freed : Line[i] # freed[j]
    BY <1>5, <1>11
  <2>2. \A i, j \in DOMAIN (Line \o freed) : (Line \o freed)[i] = (Line \o freed)[j] => i = j
    BY <2>1, <1>5, <1>9, <1>11, DistinctConcat
  <2>3. QED
    BY <2>2, <1>8
<1>14. \A i \in DOMAIN Line' : inDegree'[Line'[i]] = 0
  <2>1. \A i \in DOMAIN Line : inDegree'[Line[i]] = 0
    BY <1>7, <1>11
  <2>2. QED
    BY <2>1, <1>5, <1>10
<1>15. ASSUME NEW n \in ListNames, inDegree'[n] = 0 PROVE \E i \in DOMAIN Line' : Line'[i] = n
  <2>1. CASE inDegree[n] = 0
    BY <2>1, <1>10, <1>11
  <2>2. CASE inDegree[n] > 0
    <3>1. PICK i \in DOMAIN freed : freed[i] = n
      BY <2>2, <1>5, <1>15
    <3>2. i + l \in DOMAIN Line' /\ Line'[i + l] = n
      BY <3>1, <1>10
    <3>3. QED
      BY <3>2
  <2>3. QED
    BY <2>1, <2>2, <1>12
<1>16. ASSUME NEW p \in DOMAIN sorted', NEW k \in DOMAIN DepsOf[sorted'[p]]
       PROVE  \E q \in 1..(p - 1) : sorted'[q] = DepsOf[sorted'[p]][k]
  <2>1. /\ DOMAIN sorted = 1..Len(sorted) /\ Len(sorted) \in Nat
        /\ DOMAIN sorted' = 1..(Len(sorted) + 1) /\ sorted'[Len(sorted) + 1] = name
        /\ \A q \in DOMAIN sorted : sorted'[q] = sorted[q]
    BY <1>1, <1>3, AppendProperties, LenProperties
  <2>2. CASE p \in DOMAIN sorted
    <3>1. PICK q \in 1..(p - 1) : sorted[q] = DepsOf[sorted[p]][k]
      BY <2>1, <2>2, <1>1, <1>16 DEF KahnInv
    <3>2. QED
      BY <3>1, <2>1, <2>2
  <2>3. CASE p = Len(sorted) + 1
    <3>1. Waiting(name) = {}
      BY <1>1, HeadReady
    <3>2. PICK q \in DOMAIN sorted : sorted[q] = DepsOf[name][k]
      BY <3>1, <2>1, <2>3, <1>16 DEF Waiting
    <3>3. QED
      BY <3>2, <2>1, <2>3
  <2>4. QED
    BY <2>1, <2>2, <2>3
<1>17. Unknown' = {} /\ Sorting'
  BY <1>1, <1>2 DEF KahnInv, Sorting
<1>18. QED
  BY <1>2, <1>6, <1>7, <1>13, <1>14, <1>15, <1>16, <1>17 DEF KahnInv

\* Every step keeps the count.
LEMMA KahnStep == GeneInv /\ KahnInv /\ [GeneNext]_geneVars => KahnInv'
<1> SUFFICES ASSUME GeneInv, KahnInv, [GeneNext]_geneVars PROVE KahnInv'
  OBVIOUS
<1>1. components' = components /\ components \in Genes
  BY NeverChanged DEF GeneInv
<1>2. ListNames' = ListNames /\ DepsOf' = DepsOf /\ Unknown' = Unknown
  BY <1>1, Fixed
<1>3. ASSUME UNCHANGED sortVars, Sorting' = Sorting PROVE KahnInv'
  <2>1. Line' = Line
    BY <1>3 DEF sortVars, Line
  <2>2. \A n \in ListNames : Waiting(n)' = Waiting(n)
    BY <1>2, <1>3 DEF sortVars, Waiting
  <2>3. QED
    BY <1>2, <1>3, <2>1, <2>2 DEF sortVars, KahnInv
<1>4. CASE Reject \/ StartCycleCheck \/ DfsRoot \/ DfsReturn \/ AcceptGene \/ UnknownDependency
  BY <1>3, <1>4 DEF Reject, StartCycleCheck, DfsRoot, DfsReturn, AcceptGene, UnknownDependency, Finish,
    Sorting, GeneInv
<1>5. CASE DfsDependency
  BY <1>3, <1>5 DEF DfsDependency, Finish, Sorting, GeneInv
<1>6. CASE BuildGraph
  BY <1>6, KahnBuild
<1>7. CASE Pop
  BY <1>7, KahnPop
<1>8. CASE SortEnds
  BY <1>3, <1>8 DEF SortEnds, Finish, Sorting, GeneInv
<1>9. CASE GeneTerminating \/ UNCHANGED geneVars
  BY <1>3, <1>9 DEF GeneTerminating, geneVars, dfsVars, sortVars, Sorting
<1>10. QED
  BY <1>4, <1>5, <1>6, <1>7, <1>8, <1>9 DEF GeneNext, ValidateGene, TopoSort

-----------------------------------------------------------------------------
(* detectComponentCycles.                                                  *)

\* The dependencies of a name of a clean list are normalized names of it.
LEMMA AdjacentFacts ==
  ASSUME components \in Genes, Clean, NEW key \in NormNames
  PROVE  /\ Adjacent(key) \in Seq(NormNames)
         /\ \A k \in DOMAIN Adjacent(key) : <<key, Adjacent(key)[k]>> \in Edges
         /\ \A e \in Edges : e[1] = key => \E k \in DOMAIN Adjacent(key) : Adjacent(key)[k] = e[2]
<1> DEFINE i == CHOOSE j \in Positions : Norm[NameOf(j)] = key
<1>1. \E j \in Positions : Norm[NameOf(j)] = key
  BY DEF NormNames, ListNames
<1>2. i \in Positions
  BY <1>1
<1>3. Adjacent(key) = [k \in DOMAIN Deps(i) |-> Norm[Deps(i)[k]]]
  BY DEF Adjacent
<1>4. \A k \in DOMAIN Deps(i) : Norm[Deps(i)[k]] \in NormNames
  BY <1>2 DEF Clean, Missing
<1>5. DOMAIN Deps(i) = 1..Len(Deps(i)) /\ Len(Deps(i)) \in Nat
  BY <1>2, GeneTyped, LenProperties
<1> HIDE DEF i
<1>6. Adjacent(key) \in Seq(NormNames)
  BY <1>3, <1>4, <1>5
<1>7. \A k \in DOMAIN Adjacent(key) : Adjacent(key)[k] \in NormNames
  BY <1>3, <1>4
<1>8. \A k \in DOMAIN Adjacent(key) : <<key, Adjacent(key)[k]>> \in Edges
  BY <1>7 DEF Edges
<1>9. \A e \in Edges : e[1] = key => \E k \in DOMAIN Adjacent(key) : Adjacent(key)[k] = e[2]
  BY DEF Edges
<1>10. QED
  BY <1>6, <1>8, <1>9

\* HasCycle in terms of the dependency relation.
LEMMA CycleEdges ==
  ASSUME components \in Genes, Clean
  PROVE  HasCycle <=> \E S \in SUBSET NormNames : S # {} /\ \A key \in S : \E dep \in S : <<key, dep>> \in Edges
<1>1. ASSUME NEW S \in SUBSET NormNames, NEW key \in S
      PROVE  (\E k \in DOMAIN Adjacent(key) : Adjacent(key)[k] \in S) <=> \E dep \in S : <<key, dep>> \in Edges
  <2>1. /\ \A k \in DOMAIN Adjacent(key) : <<key, Adjacent(key)[k]>> \in Edges
        /\ \A e \in Edges : e[1] = key => \E k \in DOMAIN Adjacent(key) : Adjacent(key)[k] = e[2]
    BY AdjacentFacts
  <2>2. ASSUME NEW dep \in S, <<key, dep>> \in Edges
        PROVE  \E k \in DOMAIN Adjacent(key) : Adjacent(key)[k] \in S
    BY <2>1, <2>2
  <2>3. QED
    BY <2>1, <2>2
<1>2. QED
  BY <1>1 DEF HasCycle

\* The search goes no further than the list: an edge joins two of its names.
LEMMA EdgeEnds == \A e \in Edges : e = <<e[1], e[2]>> /\ e[1] \in NormNames /\ e[2] \in NormNames
BY DEF Edges

\* The search has not begun.
LEMMA DfsInit == GeneInit => DfsInv /\ LoopInv
BY DEF GeneInit, DfsInv, Finished, Path, Rest, LoopInv, Accepted

\* A new root.
LEMMA DfsRootStep == GeneInv /\ DfsInv /\ DfsRoot => DfsInv'
<1> SUFFICES ASSUME GeneInv, DfsInv, DfsRoot PROVE DfsInv'
  OBVIOUS
<1>1. components' = components /\ stage = "cycles" /\ stage' = stage /\ visited' = visited
  BY DEF DfsRoot
<1>2. components \in Genes /\ Clean /\ NormNames' = NormNames /\ Edges' = Edges
  BY <1>1, Fixed DEF GeneInv
<1>3. PICK key \in NormNames \ visited : stack' = <<Frame(key)>>
  BY DEF DfsRoot
<1>4. /\ Adjacent(key) \in Seq(NormNames)
      /\ \A k \in DOMAIN Adjacent(key) : <<key, Adjacent(key)[k]>> \in Edges
      /\ \A e \in Edges : e[1] = key => \E k \in DOMAIN Adjacent(key) : Adjacent(key)[k] = e[2]
  BY <1>2, AdjacentFacts
<1>5. Frame(key) \in [key : NormNames, rest : Seq(NormNames)]
  BY <1>4 DEF Frame
<1>6. /\ stack' \in Seq([key : NormNames, rest : Seq(NormNames)]) /\ Len(stack') = 1
      /\ DOMAIN stack' = {1} /\ stack'[1].key = key /\ stack'[1].rest = Adjacent(key)
  BY <1>3, <1>5 DEF Frame
<1>7. QED
  BY <1>1, <1>2, <1>4, <1>6 DEF DfsInv, Finished, Path, Rest

\* The name the search is in last, with the dependencies it has left.
LEMMA DfsTop ==
  ASSUME DfsInv, stack # <<>>
  PROVE  /\ Depth \in Nat \ {0} /\ DOMAIN stack = 1..Depth
         /\ \A d \in 1..Depth : stack[d] \in [key : NormNames, rest : Seq(NormNames)]
<1> DEFINE T == [key : NormNames, rest : Seq(NormNames)]
<1>1. stack \in Seq(T)
  BY DEF DfsInv, Path
<1> HIDE DEF T
<1>2. Depth \in Nat \ {0} /\ DOMAIN stack = 1..Depth
  BY <1>1, EmptySeq, LenProperties DEF Depth
<1>3. \A d \in 1..Depth : stack[d] \in T
  BY <1>1, <1>2, ElementOfSeq DEF Depth
<1>4. QED
  BY <1>2, <1>3 DEF T

\* What DfsInv says of the names the search is in.
LEMMA DfsFrames ==
  ASSUME DfsInv, stack # <<>>
  PROVE  /\ \A d \in 1..Depth : stack[d].key \in NormNames /\ stack[d].key \notin visited
         /\ \A d, c \in 1..Depth : stack[d].key = stack[c].key => d = c
         /\ \A d \in 1..Depth : d < Depth => <<stack[d].key, stack[d + 1].key>> \in Edges
         /\ \A d \in 1..Depth : \A r \in DOMAIN stack[d].rest : <<stack[d].key, stack[d].rest[r]>> \in Edges
         /\ \A d \in 1..Depth : \A e \in Edges : e[1] = stack[d].key =>
              \/ e[2] \in visited
              \/ \E r \in DOMAIN stack[d].rest : stack[d].rest[r] = e[2]
              \/ d < Depth /\ e[2] = stack[d + 1].key
<1>1. DOMAIN stack = 1..Depth /\ \A d \in 1..Depth : stack[d].key \in NormNames
  BY DfsTop
<1>2. QED
  BY <1>1 DEF DfsInv, Path, Rest, Depth

\* Taking the next dependency off what the last name has left.
LEMMA Popped ==
  ASSUME DfsInv, stack # <<>>, Left # <<>>,
         NEW new, new = [stack EXCEPT ![Depth].rest = Tail(Left)]
  PROVE  /\ new \in Seq([key : NormNames, rest : Seq(NormNames)])
         /\ Len(new) = Depth /\ DOMAIN new = 1..Depth
         /\ \A d \in 1..Depth : new[d].key = stack[d].key
         /\ \A d \in 1..Depth : d # Depth => new[d].rest = stack[d].rest
         /\ new[Depth].rest = Tail(Left)
<1> DEFINE T == [key : NormNames, rest : Seq(NormNames)]
           top == [stack[Depth] EXCEPT !.rest = Tail(Left)]
<1>1. Depth \in Nat \ {0} /\ DOMAIN stack = 1..Depth /\ \A d \in 1..Depth : stack[d] \in T
  BY DfsTop
<1>2. stack \in Seq(T)
  BY DEF DfsInv, Path
<1>3. Left \in Seq(NormNames)
  BY <1>1 DEF Left
<1>4. Tail(Left) \in Seq(NormNames)
  BY <1>3, HeadTailProperties
<1>5. top \in T /\ top.key = stack[Depth].key /\ top.rest = Tail(Left)
  <2>1. stack[Depth] \in T
    BY <1>1
  <2>2. PICK rest \in Seq(NormNames) : rest = Tail(Left)
    BY <1>4
  <2>3. PICK frame \in T : frame = stack[Depth]
    BY <2>1
  <2>4. /\ [frame EXCEPT !.rest = rest] \in T /\ [frame EXCEPT !.rest = rest].key = frame.key
        /\ [frame EXCEPT !.rest = rest].rest = rest
    OBVIOUS
  <2>5. QED
    BY <2>2, <2>3, <2>4
<1>6. new = [stack EXCEPT ![Depth] = top]
  OBVIOUS
<1> HIDE DEF T, top
<1>7. /\ new \in Seq(T) /\ Len(new) = Depth
      /\ \A d \in 1..Depth : new[d] = IF d = Depth THEN top ELSE stack[d]
  <2>1. Depth = Len(stack) /\ Depth \in 1..Len(stack)
    BY <1>1 DEF Depth
  <2>2. QED
    <3>1. new \in Seq(T) /\ Len(new) = Len(stack)
      BY <1>2, <1>5, <1>6, <2>1, ExceptSeq
    <3>2. \A d \in 1..Len(stack) : new[d] = IF d = Depth THEN top ELSE stack[d]
      BY <1>2, <1>5, <1>6, <2>1, ExceptSeq
    <3>3. QED
      BY <2>1, <3>1, <3>2
<1>8. DOMAIN new = 1..Depth
  BY <1>7, LenProperties
<1>9. new \in Seq([key : NormNames, rest : Seq(NormNames)])
  BY <1>7 DEF T
<1>10. QED
  BY <1>1, <1>5, <1>7, <1>8, <1>9

\* The next dependency, and those after it.
LEMMA NextDependency ==
  ASSUME DfsInv, stack # <<>>, Left # <<>>
  PROVE  /\ Head(Left) \in NormNames /\ <<stack[Depth].key, Head(Left)>> \in Edges
         /\ \A r \in DOMAIN Tail(Left) : r + 1 \in DOMAIN Left /\ Tail(Left)[r] = Left[r + 1]
         /\ \A r \in DOMAIN Left : Left[r] = Head(Left) \/ \E q \in DOMAIN Tail(Left) : Tail(Left)[q] = Left[r]
<1>1. Depth \in 1..Depth /\ stack[Depth].rest \in Seq(NormNames)
  BY DfsTop
<1>2. /\ Left \in Seq(NormNames) /\ Tail(Left) \in Seq(NormNames) /\ Len(Left) \in Nat \ {0}
      /\ Head(Left) = Left[1] /\ Head(Left) \in NormNames
      /\ Len(Tail(Left)) = Len(Left) - 1 /\ DOMAIN Left = 1..Len(Left)
      /\ \A r \in 1..Len(Tail(Left)) : Tail(Left)[r] = Left[r + 1]
  BY <1>1, HeadTailProperties, LenProperties, EmptySeq DEF Left
<1>3. DOMAIN Tail(Left) = 1..(Len(Left) - 1)
  BY <1>2, LenProperties
<1>4. \A r \in DOMAIN Tail(Left) : r + 1 \in DOMAIN Left /\ Tail(Left)[r] = Left[r + 1]
  BY <1>2, <1>3
<1>5. ASSUME NEW r \in DOMAIN Left, Left[r] # Head(Left)
      PROVE  \E q \in DOMAIN Tail(Left) : Tail(Left)[q] = Left[r]
  <2>1. r - 1 \in DOMAIN Tail(Left)
    BY <1>2, <1>3, <1>5
  <2>2. Tail(Left)[r - 1] = Left[r]
    BY <1>2, <1>4, <2>1
  <2>3. QED
    BY <2>1, <2>2
<1>6. \A r \in DOMAIN Left : <<stack[Depth].key, Left[r]>> \in Edges
  BY <1>1, DfsFrames DEF Left
<1>7. QED
  BY <1>2, <1>4, <1>5, <1>6

\* A finished dependency is passed over, another one is descended into.
LEMMA DfsDescend == GeneInv /\ DfsInv /\ DfsDependency => DfsInv'
<1> SUFFICES ASSUME GeneInv, DfsInv, DfsDependency PROVE DfsInv'
  OBVIOUS
<1> DEFINE dep == Head(Left)
           l == Depth
<1>1. /\ components' = components /\ stage = "cycles" /\ stage' # "validate" /\ visited' = visited
      /\ stack # <<>> /\ Left # <<>>
  BY DEF DfsDependency, Finish, Left, Depth
<1>2. components \in Genes /\ Clean /\ NormNames' = NormNames /\ Edges' = Edges
  BY <1>1, Fixed DEF GeneInv
<1>3. Finished'
  BY <1>1, <1>2 DEF DfsInv, Finished
<1>4. l \in Nat \ {0} /\ DOMAIN stack = 1..l
  BY <1>1, DfsTop
<1>5. PICK new : new = [stack EXCEPT ![Depth].rest = Tail(Left)]
  OBVIOUS
<1>6. /\ new \in Seq([key : NormNames, rest : Seq(NormNames)])
      /\ Len(new) = l /\ DOMAIN new = 1..l
  BY <1>1, <1>5, Popped
<1>7. /\ \A d \in 1..l : new[d].key = stack[d].key
      /\ \A d \in 1..l : d # l => new[d].rest = stack[d].rest
      /\ new[l].rest = Tail(Left)
  BY <1>1, <1>5, Popped
<1>8. CASE stack' = stack
  BY <1>1, <1>2, <1>3, <1>8 DEF DfsInv, Path, Rest
<1>9. \A d \in 1..l : \A r \in DOMAIN new[d].rest : <<new[d].key, new[d].rest[r]>> \in Edges
  <2> SUFFICES ASSUME NEW d \in 1..l, NEW r \in DOMAIN new[d].rest
               PROVE  <<new[d].key, new[d].rest[r]>> \in Edges
    OBVIOUS
  <2>1. CASE d = l
    <3>1. \A q \in DOMAIN Left : <<stack[l].key, Left[q]>> \in Edges
      BY <1>1, <1>4, DfsFrames DEF Left
    <3>2. r + 1 \in DOMAIN Left /\ new[l].rest[r] = Left[r + 1]
      BY <1>1, <1>7, <2>1, NextDependency
    <3>3. QED
      BY <2>1, <3>1, <3>2, <1>7
  <2>2. CASE d # l
    BY <2>2, <1>1, <1>7, DfsFrames
  <2>3. QED
    BY <2>1, <2>2
<1>10. \A d \in 1..l : \A e \in Edges : e[1] = new[d].key =>
         \/ e[2] \in visited
         \/ \E r \in DOMAIN new[d].rest : new[d].rest[r] = e[2]
         \/ d < l /\ e[2] = new[d + 1].key
         \/ d = l /\ e[2] = dep
  <2> SUFFICES ASSUME NEW d \in 1..l, NEW e \in Edges, e[1] = new[d].key, e[2] \notin visited
               PROVE  \/ \E r \in DOMAIN new[d].rest : new[d].rest[r] = e[2]
                      \/ d < l /\ e[2] = new[d + 1].key
                      \/ d = l /\ e[2] = dep
    OBVIOUS
  <2>1. \/ \E r \in DOMAIN stack[d].rest : stack[d].rest[r] = e[2]
        \/ d < l /\ e[2] = stack[d + 1].key
    BY <1>1, <1>7, DfsFrames
  <2>2. d < l => d + 1 \in 1..l
    BY <1>4
  <2>3. CASE d = l
    <3>1. PICK r \in DOMAIN Left : Left[r] = e[2]
      BY <2>1, <2>3, <1>4 DEF Left
    <3>2. QED
      BY <3>1, <2>3, <1>1, <1>7, NextDependency
  <2>4. CASE d # l
    BY <2>1, <2>2, <2>4, <1>7
  <2>5. QED
    BY <2>3, <2>4
<1>11. /\ \A d \in 1..l : new[d].key \notin visited
       /\ \A d, c \in 1..l : new[d].key = new[c].key => d = c
       /\ \A d \in 1..l : d < l => <<new[d].key, new[d + 1].key>> \in Edges
  <2>1. \A d \in 1..l : d < l => d + 1 \in 1..l
    BY <1>4
  <2>2. QED
    BY <1>1, <1>7, <2>1, DfsFrames
<1>12. dep \in NormNames /\ <<new[l].key, dep>> \in Edges
  BY <1>1, <1>4, <1>7, NextDependency
<1>13. \/ stack' = stack
       \/ dep \in visited /\ stack' = new
       \/ dep \notin visited /\ dep \notin InStack /\ stack' = Append(new, Frame(dep))
  BY <1>5 DEF DfsDependency, Depth, Left
<1>14. \A d \in 1..l : dep \notin InStack => new[d].key # dep
  BY <1>4, <1>7 DEF InStack
<1> HIDE DEF dep, l
<1>15. CASE dep \in visited /\ stack' = new
  <2>1. DOMAIN stack' = 1..l /\ Len(stack') = l
    BY <1>6, <1>15
  <2>2. Path'
    <3>1. \A d \in DOMAIN stack' : stack'[d].key \notin visited'
      BY <1>1, <1>11, <1>15, <2>1
    <3>2. \A d, c \in DOMAIN stack' : stack'[d].key = stack'[c].key => d = c
      BY <1>11, <1>15, <2>1
    <3>3. \A d \in DOMAIN stack' : d < Len(stack') => <<stack'[d].key, stack'[d + 1].key>> \in Edges
      BY <1>11, <1>15, <2>1
    <3>4. stack' \in Seq([key : NormNames, rest : Seq(NormNames)])
      BY <1>6, <1>15
    <3>5. QED
      BY <1>2, <3>1, <3>2, <3>3, <3>4 DEF Path
  <2>3. Rest'
    <3>1. \A d \in DOMAIN stack' : \A r \in DOMAIN stack'[d].rest :
            <<stack'[d].key, stack'[d].rest[r]>> \in Edges
      BY <1>9, <1>15, <2>1
    <3>2. \A d \in DOMAIN stack' : \A e \in Edges : e[1] = stack'[d].key =>
            \/ e[2] \in visited
            \/ \E r \in DOMAIN stack'[d].rest : stack'[d].rest[r] = e[2]
            \/ d < Len(stack') /\ e[2] = stack'[d + 1].key
      BY <1>10, <1>15, <2>1
    <3>3. QED
      BY <1>1, <1>2, <3>1, <3>2 DEF Rest
  <2>4. QED
    BY <1>1, <1>3, <2>2, <2>3 DEF DfsInv
<1>16. CASE dep \notin visited /\ dep \notin InStack /\ stack' = Append(new, Frame(dep))
  <2>1. /\ Adjacent(dep) \in Seq(NormNames)
        /\ \A k \in DOMAIN Adjacent(dep) : <<dep, Adjacent(dep)[k]>> \in Edges
        /\ \A e \in Edges : e[1] = dep => \E k \in DOMAIN Adjacent(dep) : Adjacent(dep)[k] = e[2]
    BY <1>2, <1>12, AdjacentFacts
  <2>2. Frame(dep) \in [key : NormNames, rest : Seq(NormNames)]
    BY <1>12, <2>1 DEF Frame
  <2>3. /\ stack' \in Seq([key : NormNames, rest : Seq(NormNames)])
        /\ Len(stack') = l + 1
        /\ \A d \in 1..l : stack'[d] = new[d]
        /\ stack'[l + 1] = Frame(dep)
    BY <1>6, <1>16, <2>2, AppendProperties
  <2>4. DOMAIN stack' = 1..(l + 1)
    BY <2>3, LenProperties
  <2>5. stack'[l + 1].key = dep /\ stack'[l + 1].rest = Adjacent(dep)
    BY <2>3 DEF Frame
  <2>6. \A d \in 1..l : new[d].key # dep
    BY <1>14, <1>16
  <2>7. \A d \in 1..l : stack'[d].key = new[d].key /\ stack'[d].rest = new[d].rest
    BY <2>3
  <2>8. \A d \in DOMAIN stack' : d \in 1..l \/ d = l + 1
    BY <1>4, <2>4
  <2>9. Path'
    <3>1. \A d \in DOMAIN stack' : stack'[d].key \notin visited'
      BY <1>1, <1>11, <1>16, <2>5, <2>7, <2>8
    <3>2. \A d, c \in DOMAIN stack' : stack'[d].key = stack'[c].key => d = c
      BY <1>11, <2>5, <2>6, <2>7, <2>8
    <3>3. ASSUME NEW d \in 1..l PROVE <<stack'[d].key, stack'[d + 1].key>> \in Edges
      <4>1. CASE d < l
        <5>1. d + 1 \in 1..l
          BY <4>1, <1>4
        <5>2. QED
          BY <4>1, <5>1, <1>11, <2>7
      <4>2. CASE d = l
        BY <4>2, <1>4, <1>12, <2>5, <2>7
      <4>3. QED
        BY <4>1, <4>2, <1>4
    <3>4. \A d \in DOMAIN stack' : d < Len(stack') => <<stack'[d].key, stack'[d + 1].key>> \in Edges
      BY <1>4, <2>3, <2>8, <3>3
    <3>5. QED
      BY <1>2, <2>3, <3>1, <3>2, <3>4 DEF Path
  <2>10. Rest'
    <3>1. \A d \in DOMAIN stack' : \A r \in DOMAIN stack'[d].rest :
            <<stack'[d].key, stack'[d].rest[r]>> \in Edges
      BY <1>9, <2>1, <2>5, <2>7, <2>8
    <3>2. ASSUME NEW d \in DOMAIN stack', NEW e \in Edges, e[1] = stack'[d].key
          PROVE  \/ e[2] \in visited
                 \/ \E r \in DOMAIN stack'[d].rest : stack'[d].rest[r] = e[2]
                 \/ d < Len(stack') /\ e[2] = stack'[d + 1].key
      <4>1. CASE d = l + 1
        BY <4>1, <3>2, <2>1, <2>5
      <4>2. CASE d \in 1..l
        <5>1. \/ e[2] \in visited
              \/ \E r \in DOMAIN stack'[d].rest : stack'[d].rest[r] = e[2]
              \/ d < l /\ e[2] = new[d + 1].key
              \/ d = l /\ e[2] = dep
          BY <4>2, <3>2, <1>10, <2>7
        <5>2. CASE d < l
          <6>1. d + 1 \in 1..l /\ d < Len(stack')
            BY <5>2, <4>2, <1>4, <2>3
          <6>2. QED
            BY <5>1, <5>2, <6>1, <2>7
        <5>3. CASE d = l
          <6>1. d < Len(stack')
            BY <5>3, <1>4, <2>3
          <6>2. QED
            BY <5>1, <5>3, <6>1, <2>5
        <5>4. QED
          BY <4>2, <5>2, <5>3, <1>4
      <4>3. QED
        BY <4>1, <4>2, <2>8
    <3>3. QED
      BY <1>1, <1>2, <3>1, <3>2 DEF Rest
  <2>11. QED
    BY <1>1, <1>3, <2>9, <2>10 DEF DfsInv
<1>17. QED
  BY <1>8, <1>13, <1>15, <1>16

\* A name without dependencies left is finished: the finished names remain
\* closed, and it is on no cycle with them.
LEMMA DfsFinish == GeneInv /\ DfsInv /\ DfsReturn => DfsInv'
<1> SUFFICES ASSUME GeneInv, DfsInv, DfsReturn PROVE DfsInv'
  OBVIOUS
<1> DEFINE key == stack[Depth].key
           l == Depth - 1
<1>1. /\ components' = components /\ stage' = stage /\ stage = "cycles"
      /\ visited' = visited \cup {key} /\ stack # <<>> /\ Left = <<>>
      /\ stack' = SubSeq(stack, 1, l)
  BY DEF DfsReturn, Left, Depth
<1>2. components \in Genes /\ NormNames' = NormNames /\ Edges' = Edges
  BY <1>1, Fixed DEF GeneInv
<1>3. Depth \in 1..Depth /\ l \in Nat /\ \A d \in 1..l : d \in 1..Depth /\ d # Depth /\ d < Depth
  BY <1>1, DfsTop
<1>4. key \in NormNames /\ key \notin visited
  BY <1>1, <1>3, DfsFrames
<1>5. \A e \in Edges : e[1] = key => e[2] \in visited
  <2>1. DOMAIN stack[Depth].rest = {}
    BY <1>1 DEF Left
  <2>2. Depth \in Nat
    BY <1>1, DfsTop
  <2>3. QED
    BY <1>1, <1>3, <2>1, <2>2, DfsFrames
<1>6. /\ stack' \in Seq([key : NormNames, rest : Seq(NormNames)])
      /\ Len(stack') = l /\ DOMAIN stack' = 1..l
      /\ \A d \in 1..l : stack'[d] = stack[d]
  <2> DEFINE T == [key : NormNames, rest : Seq(NormNames)]
  <2>1. \A d \in 1..l : stack[d] \in T
    BY <1>1, <1>3, DfsTop
  <2> HIDE DEF T
  <2>2. /\ SubSeq(stack, 1, l) \in Seq(T)
        /\ Len(SubSeq(stack, 1, l)) = IF 1 <= l THEN l - 1 + 1 ELSE 0
        /\ \A d \in 1..(l - 1 + 1) : SubSeq(stack, 1, l)[d] = stack[1 + d - 1]
    <3> HIDE DEF l
    <3>1. QED
      BY <1>3, <2>1, SubSeqProperties
  <2>3. stack' \in Seq(T) /\ Len(stack') = l /\ \A d \in 1..l : stack'[d] = stack[d]
    <3> HIDE DEF l
    <3>1. QED
      BY <1>1, <1>3, <2>2
  <2>4. DOMAIN stack' = 1..l
    BY <2>3, LenProperties
  <2>5. QED
    BY <2>3, <2>4 DEF T
<1> HIDE DEF key, l
<1>7. Finished'
  <2>1. visited' \subseteq NormNames
    BY <1>1, <1>4 DEF DfsInv, Finished
  <2>2. \A e \in Edges : e[1] \in visited' => e[2] \in visited'
    BY <1>1, <1>5 DEF DfsInv, Finished
  <2>3. ASSUME NEW S \in SUBSET visited', S # {}
        PROVE  \E k \in S : \A dep \in S : <<k, dep>> \notin Edges
    <3>1. CASE S \subseteq visited
      BY <2>3, <3>1 DEF DfsInv, Finished
    <3>2. CASE key \in S /\ S \ {key} = {}
      <4>1. <<key, key>> \notin Edges
        BY <1>4, <1>5
      <4>2. QED
        BY <3>2, <4>1
    <3>3. CASE key \in S /\ S \ {key} # {}
      <4>1. S \ {key} \in SUBSET visited
        BY <2>3, <1>1
      <4>2. PICK k \in S \ {key} : \A dep \in S \ {key} : <<k, dep>> \notin Edges
        BY <3>3, <4>1 DEF DfsInv, Finished
      <4>3. <<k, key>> \notin Edges
        BY <1>4, <4>1, <4>2 DEF DfsInv, Finished
      <4>4. QED
        BY <4>2, <4>3
    <3>4. QED
      BY <2>3, <3>1, <3>2, <3>3, <1>1
  <2>4. QED
    BY <1>2, <2>1, <2>2, <2>3 DEF Finished
<1>8. \A d \in 1..l : d < l => d + 1 \in 1..l
  BY <1>3
<1>9. Path'
  <2>1. \A d \in 1..l : stack'[d].key \notin visited'
    <3>1. \A d \in 1..l : stack[d].key # stack[Depth].key
      BY <1>1, <1>3, DfsFrames
    <3>2. QED
      BY <1>1, <1>3, <1>6, <3>1, DfsFrames DEF key
  <2>2. \A d, c \in 1..l : stack'[d].key = stack'[c].key => d = c
    BY <1>1, <1>3, <1>6, DfsFrames
  <2>3. \A d \in 1..l : d < l => <<stack'[d].key, stack'[d + 1].key>> \in Edges
    BY <1>1, <1>3, <1>6, <1>8, DfsFrames
  <2>4. QED
    BY <1>2, <1>6, <2>1, <2>2, <2>3 DEF Path
<1>10. Rest'
  <2>1. \A d \in 1..l : \A r \in DOMAIN stack'[d].rest : <<stack'[d].key, stack'[d].rest[r]>> \in Edges
    BY <1>1, <1>3, <1>6, DfsFrames
  <2>2. ASSUME NEW d \in 1..l, NEW e \in Edges, e[1] = stack'[d].key
        PROVE  \/ e[2] \in visited'
               \/ \E r \in DOMAIN stack'[d].rest : stack'[d].rest[r] = e[2]
               \/ d < l /\ e[2] = stack'[d + 1].key
    <3>1. \/ e[2] \in visited
          \/ \E r \in DOMAIN stack[d].rest : stack[d].rest[r] = e[2]
          \/ e[2] = stack[d + 1].key
      BY <2>2, <1>1, <1>3, <1>6, DfsFrames
    <3>2. d < l \/ d + 1 = Depth
      BY <1>3 DEF l
    <3>3. CASE d < l
      BY <3>1, <3>3, <1>1, <1>6, <1>8
    <3>4. CASE d + 1 = Depth
      BY <3>1, <3>4, <1>1, <1>6 DEF key
    <3>5. QED
      BY <3>2, <3>3, <3>4
  <2>3. QED
    BY <1>2, <1>6, <2>1, <2>2 DEF Rest
<1>11. QED
  BY <1>1, <1>7, <1>9, <1>10 DEF DfsInv

\* Every step keeps what the search has established.
LEMMA DfsStep == GeneInv /\ DfsInv /\ [GeneNext]_geneVars => DfsInv'
<1> SUFFICES ASSUME GeneInv, DfsInv, [GeneNext]_geneVars PROVE DfsInv'
  OBVIOUS
<1>1. components' = components
  BY NeverChanged
<1>2. NormNames' = NormNames /\ Edges' = Edges
  BY <1>1, Fixed
<1>3. ASSUME UNCHANGED dfsVars, stage' # "validate" \/ stage' = stage PROVE DfsInv'
  BY <1>2, <1>3 DEF dfsVars, DfsInv, Finished, Path, Rest
<1>4. CASE Reject \/ StartCycleCheck \/ AcceptGene \/ TopoSort
  BY <1>3, <1>4 DEF Reject, StartCycleCheck, AcceptGene, TopoSort, UnknownDependency, BuildGraph, Pop,
    SortEnds, Finish, dfsVars
<1>5. CASE DfsRoot \/ DfsDependency \/ DfsReturn
  BY <1>5, DfsRootStep, DfsDescend, DfsFinish
<1>6. CASE GeneTerminating \/ UNCHANGED geneVars
  BY <1>3, <1>6 DEF GeneTerminating, geneVars, dfsVars, sortVars
<1>7. QED
  BY <1>4, <1>5, <1>6 DEF GeneNext, ValidateGene

\* A dependency the search is in closes a cycle: the names from there on.
LEMMA PathCloses ==
  ASSUME GeneInv, DfsInv, stage = "cycles", stack # <<>>, Left # <<>>, Head(Left) \in InStack
  PROVE  HasCycle
<1>1. components \in Genes /\ Clean
  BY DEF GeneInv
<1>2. Depth \in Nat \ {0} /\ DOMAIN stack = 1..Depth
  BY DfsTop
<1>3. PICK c \in 1..Depth : stack[c].key = Head(Left)
  BY <1>2 DEF InStack
<1> DEFINE S == {stack[d].key : d \in c..Depth}
<1>4. S \subseteq NormNames /\ stack[c].key \in S
  BY <1>2, <1>3, DfsFrames
<1>5. ASSUME NEW d \in c..Depth PROVE \E dep \in S : <<stack[d].key, dep>> \in Edges
  <2>1. CASE d = Depth
    BY <2>1, <1>3, <1>4, NextDependency
  <2>2. CASE d < Depth
    <3>1. d \in 1..Depth /\ d + 1 \in c..Depth
      BY <2>2, <1>2
    <3>2. <<stack[d].key, stack[d + 1].key>> \in Edges
      BY <2>2, <3>1, DfsFrames
    <3>3. QED
      BY <3>1, <3>2
  <2>3. d = Depth \/ d < Depth
    BY <1>2
  <2>4. QED
    BY <2>1, <2>2, <2>3
<1>6. S # {} /\ \A key \in S : \E dep \in S : <<key, dep>> \in Edges
  BY <1>4, <1>5
<1>7. QED
  BY <1>1, <1>4, <1>6, CycleEdges

\* A cycle is reported when there is one; a list is accepted when there is none.
LEMMA LoopStep == GeneInv /\ DfsInv /\ LoopInv /\ [GeneNext]_geneVars => LoopInv'
<1> SUFFICES ASSUME GeneInv, DfsInv, LoopInv, [GeneNext]_geneVars PROVE LoopInv'
  OBVIOUS
<1>1. components' = components
  BY NeverChanged
<1>2. HasCycle' = HasCycle
  BY <1>1, Fixed
<1>3. CASE Reject \/ StartCycleCheck \/ DfsRoot \/ DfsReturn
  BY <1>2, <1>3 DEF LoopInv, Accepted, GeneInv, Finish, Reject, StartCycleCheck, DfsRoot, DfsReturn
<1>4. CASE DfsDependency
  <2>1. stage = "cycles" /\ stack # <<>> /\ Left # <<>> /\ verdict = "none"
    BY <1>4 DEF DfsDependency, Left, Depth, GeneInv
  <2>2. \/ Head(Left) \in InStack /\ stage' = "done" /\ verdict' = "loop"
        \/ stage' = stage /\ verdict' = verdict
    BY <1>4 DEF DfsDependency, Left, Depth, Finish
  <2>3. QED
    BY <2>1, <2>2, <1>2, PathCloses DEF LoopInv, Accepted
<1>5. CASE AcceptGene
  <2>1. components \in Genes /\ Clean /\ verdict = "none"
    BY <1>5 DEF AcceptGene, GeneInv
  <2>2. visited = NormNames
    BY <1>5 DEF AcceptGene, DfsInv, Finished
  <2>3. \A S \in SUBSET NormNames : S # {} => \E key \in S : \A dep \in S : <<key, dep>> \notin Edges
    BY <2>2 DEF DfsInv, Finished
  <2>4. ~HasCycle
    BY <2>1, <2>3, CycleEdges
  <2>5. QED
    BY <2>1, <2>4, <1>2, <1>5 DEF LoopInv, AcceptGene
<1>6. CASE UnknownDependency \/ BuildGraph \/ Pop \/ SortEnds
  BY <1>2, <1>6 DEF LoopInv, Accepted, Finish, UnknownDependency, BuildGraph, Pop, SortEnds
<1>7. CASE GeneTerminating \/ UNCHANGED geneVars
  BY <1>2, <1>7 DEF LoopInv, Accepted, GeneTerminating, geneVars
<1>8. QED
  BY <1>3, <1>4, <1>5, <1>6, <1>7 DEF GeneNext, ValidateGene, TopoSort

-----------------------------------------------------------------------------
(* The two cycle checks.                                                   *)

\* A dependency as topoSort sees it is one as the search sees it.
LEMMA SpelledEdges ==
  ASSUME components \in Genes, Clean, NEW n \in ListNames, NEW k \in DOMAIN DepsOf[n]
  PROVE  <<Norm[n], Norm[DepsOf[n][k]]>> \in Edges
<1> DEFINE i == CHOOSE j \in Positions : Norm[NameOf(j)] = Norm[n]
<1>1. EntryOf(n) \in Positions /\ Norm[NameOf(EntryOf(n))] = Norm[n]
  BY EntryFacts
<1>2. i \in Positions /\ Norm[NameOf(i)] = Norm[n]
  BY <1>1
<1>3. \A a, b \in Positions : Norm[NameOf(a)] = Norm[NameOf(b)] => a = b
  <2>1. Positions = 1..Len(components) /\ Len(components) \in Nat
    BY GeneTyped
  <2>2. QED
    BY <2>1 DEF Clean, Duplicates
<1>4. i = EntryOf(n)
  BY <1>1, <1>2, <1>3
<1>5. Adjacent(Norm[n]) = [q \in DOMAIN Deps(i) |-> Norm[Deps(i)[q]]]
  BY DEF Adjacent
<1>6. DepsOf[n] = Deps(i)
  BY <1>4 DEF DepsOf
<1>7. k \in DOMAIN Adjacent(Norm[n]) /\ Adjacent(Norm[n])[k] = Norm[DepsOf[n][k]]
  BY <1>5, <1>6
<1>8. Norm[n] \in NormNames
  BY DEF NormNames
<1>9. QED
  BY <1>7, <1>8, AdjacentFacts

\* When the queue is empty every name is sorted: those left out would wait for
\* each other, and so lie on a cycle the search has excluded.
LEMMA AllSorted ==
  ASSUME GeneInv, KahnInv, LoopInv, stage = "sort", queue = <<>>, NEW n \in ListNames
  PROVE  \E p \in DOMAIN sorted : sorted[p] = n
<1> DEFINE L == {m \in ListNames : \A p \in DOMAIN sorted : sorted[p] # m}
           S == {Norm[m] : m \in L}
<1>1. components \in Genes /\ Clean /\ Sorting /\ ~HasCycle
  BY DEF GeneInv, Sorting, LoopInv, Accepted
<1>2. Line = sorted
  BY ConcatEmptySeq DEF KahnInv, Line
<1>3. ASSUME NEW m \in L PROVE \E q \in L : <<Norm[m], Norm[q]>> \in Edges
  <2>1. inDegree[m] # 0
    BY <1>1, <1>2 DEF KahnInv
  <2>2. Cardinality(Waiting(m)) # 0
    BY <2>1, <1>1 DEF KahnInv
  <2>3. Waiting(m) # {}
    BY <2>2, FS_EmptySet
  <2>4. PICK k \in DOMAIN DepsOf[m] : \A p \in DOMAIN sorted : sorted[p] # DepsOf[m][k]
    BY <2>3 DEF Waiting
  <2>5. DepsOf[m][k] \in ListNames
    <3>1. EntryOf(m) \in Positions /\ DepsOf[m] = Deps(EntryOf(m))
      BY <1>1, EntryFacts DEF DepsOf
    <3>2. QED
      BY <3>1, <1>1 DEF KahnInv, Unknown
  <2>6. <<Norm[m], Norm[DepsOf[m][k]]>> \in Edges
    BY <1>1, SpelledEdges
  <2>7. QED
    BY <2>4, <2>5, <2>6
<1>4. ASSUME L # {} PROVE FALSE
  <2>1. S \subseteq NormNames /\ S # {}
    BY <1>4 DEF NormNames
  <2>2. \A key \in S : \E dep \in S : <<key, dep>> \in Edges
    BY <1>3
  <2> HIDE DEF S
  <2>3. QED
    BY <1>1, <2>1, <2>2, CycleEdges
<1>5. QED
  BY <1>4

\* Nor is a name sorted twice, so that the lengths agree.
LEMMA SortedWhole ==
  ASSUME GeneInv, KahnInv, LoopInv, stage = "sort", queue = <<>>
  PROVE  Len(sorted) = Len(components)
<1>1. components \in Genes /\ Clean /\ Sorting /\ sorted \in Seq(ListNames)
  BY DEF GeneInv, Sorting, KahnInv
<1>2. Positions = 1..Len(components) /\ Len(components) \in Nat
  BY <1>1, GeneTyped
<1>3. sorted \in [1..Len(sorted) -> ListNames] /\ Len(sorted) \in Nat /\ DOMAIN sorted = 1..Len(sorted)
  BY <1>1, LenProperties
<1>4. \A p, q \in 1..Len(sorted) : sorted[p] = sorted[q] => p = q
  <2>1. Line = sorted
    BY <1>1, ConcatEmptySeq DEF Line
  <2>2. QED
    BY <2>1, <1>1, <1>3 DEF KahnInv
<1>5. ExistsBijection(1..Len(sorted), ListNames)
  <2>1. sorted \in Bijection(1..Len(sorted), ListNames)
    BY <1>3, <1>4, AllSorted DEF Bijection, Injection, Surjection, IsInjective
  <2>2. QED
    BY <2>1 DEF ExistsBijection
<1>6. ExistsBijection(1..Len(components), ListNames)
  <2> DEFINE f == [i \in 1..Len(components) |-> NameOf(i)]
  <2>1. \A i, j \in Positions : NameOf(i) = NameOf(j) => i = j
    BY <1>1, <1>2 DEF Clean, Duplicates
  <2>2. f \in Bijection(1..Len(components), ListNames)
    BY <2>1, <1>2 DEF Bijection, Injection, Surjection, IsInjective, ListNames
  <2>3. QED
    BY <2>2 DEF ExistsBijection
<1>7. Cardinality(ListNames) = Cardinality(1..Len(sorted)) /\ IsFiniteSet(1..Len(sorted))
  BY <1>3, <1>5, FS_Interval, FS_Bijection
<1>8. Cardinality(ListNames) = Cardinality(1..Len(components)) /\ IsFiniteSet(1..Len(components))
  BY <1>2, <1>6, FS_Interval, FS_Bijection
<1>9. ASSUME NEW m \in Nat PROVE Cardinality(1..m) = m
  <2>1. Cardinality(1..m) = IF 1 > m THEN 0 ELSE m - 1 + 1
    BY FS_Interval
  <2>2. QED
    BY <2>1
<1>10. QED
  BY <1>2, <1>3, <1>7, <1>8, <1>9

\* The sort never ends in errTopoSortCycle.
LEMMA AgreeStep == GeneInv /\ KahnInv /\ LoopInv /\ ChecksAgree /\ [GeneNext]_geneVars => ChecksAgree'
<1> SUFFICES ASSUME GeneInv, KahnInv, LoopInv, ChecksAgree, [GeneNext]_geneVars PROVE ChecksAgree'
  OBVIOUS
<1>1. CASE SortEnds
  BY <1>1, SortedWhole DEF SortEnds, Finish, ChecksAgree
<1>2. CASE ValidateGene
  BY <1>2 DEF ValidateGene, Reject, StartCycleCheck, DfsRoot, DfsDependency, DfsReturn, AcceptGene,
    Finish, ChecksAgree
<1>3. CASE UnknownDependency \/ BuildGraph \/ Pop
  BY <1>3 DEF UnknownDependency, BuildGraph, Pop, Finish, ChecksAgree
<1>4. CASE GeneTerminating \/ UNCHANGED geneVars
  BY <1>4 DEF GeneTerminating, geneVars, ChecksAgree
<1>5. QED
  BY <1>1, <1>2, <1>3, <1>4 DEF GeneNext, TopoSort

-----------------------------------------------------------------------------
(* The theorems.                                                           *)

\* What the steps of validation, search and sort keep between them.
Inv == GeneInv /\ DfsInv /\ KahnInv /\ LoopInv /\ ChecksAgree

\* The invariants of the three walks hold together in every state.
LEMMA InvInit == GeneInit => Inv
BY GeneStarts, DfsInit, KahnInit DEF Inv, GeneInit, ChecksAgree

LEMMA InvStep == Inv /\ [GeneNext]_geneVars => Inv'
BY GeneStep, DfsStep, KahnStep, LoopStep, AgreeStep DEF Inv

LEMMA Invariant == GeneSpec => []Inv
BY InvInit, InvStep, PTL DEF GeneSpec

\* The walks keep every variable to its type.
LEMMA WalksTyped == Inv => GeneTypeOK
<1> SUFFICES ASSUME Inv PROVE GeneTypeOK
  OBVIOUS
<1>1. inDegree \in [DOMAIN inDegree -> Nat] /\ DOMAIN inDegree \subseteq ListNames
  BY DEF Inv, KahnInv
<1> QED
  BY <1>1 DEF Inv, GeneInv, DfsInv, Finished, Path, KahnInv, GeneTypeOK

\* Every variable of validation and sort holds a value of its kind; no
\* in-degree of kahnSort falls below zero.
THEOREM GeneTypeCorrect == GeneSpec => []GeneTypeOK
BY WalksTyped, Invariant, PTL

\* What is sorted stands in order.
LEMMA SortedFirst == Inv => DependenciesFirst
<1> SUFFICES ASSUME Inv PROVE DependenciesFirst
  OBVIOUS
<1>1. ASSUME NEW p \in DOMAIN sorted
      PROVE  /\ \A q \in 1..(p - 1) : sorted[q] # sorted[p]
             /\ \A k \in DOMAIN Deps(EntryOf(sorted[p])) :
                  \E q \in 1..(p - 1) : sorted[q] = Deps(EntryOf(sorted[p]))[k]
  <2>1. Sorting /\ sorted \in Seq(ListNames) /\ queue \in Seq(ListNames)
    BY DEF Inv, KahnInv
  <2>2. DOMAIN sorted = 1..Len(sorted) /\ Len(sorted) \in Nat /\ sorted[p] \in ListNames
    BY <2>1, LenProperties, ElementOfSeq
  <2>3. \A q \in DOMAIN sorted : q \in DOMAIN Line /\ Line[q] = sorted[q]
    BY <2>1, <2>2, ConcatProperties, LenProperties DEF Line
  <2>4. \A q \in 1..(p - 1) : sorted[q] # sorted[p]
    BY <2>1, <2>2, <2>3 DEF Inv, KahnInv
  <2>5. DepsOf[sorted[p]] = Deps(EntryOf(sorted[p]))
    BY <2>2 DEF DepsOf
  <2>6. \A k \in DOMAIN DepsOf[sorted[p]] : \E q \in 1..(p - 1) : sorted[q] = DepsOf[sorted[p]][k]
    BY <2>1 DEF Inv, KahnInv
  <2>7. QED
    BY <2>4, <2>5, <2>6
<1>2. GeneTypeOK
  BY WalksTyped
<1> QED BY <1>1, <1>2 DEF DependenciesFirst

\* No component is sorted before one it depends on, and none twice (kahnSort).
THEOREM DependenciesPrecede == GeneSpec => []DependenciesFirst
BY SortedFirst, Invariant, PTL

\* The depth-first search reports a cycle exactly when there is one, whatever
\* the order in which the map gives it its roots (detectComponentCycles).
THEOREM LoopsFound == GeneSpec => []LoopMeansCycle
<1>1. Inv => LoopMeansCycle
  BY DEF Inv, GeneInv, LoopInv, Accepted, LoopMeansCycle
<1>2. QED
  BY <1>1, Invariant, PTL

\* An accepted gene is sorted whole: errTopoSortCycle cannot follow a
\* validation without errDependencyCycle.
THEOREM Agreement == GeneSpec => []ChecksAgree
<1>1. Inv => ChecksAgree
  BY DEF Inv
<1>2. QED
  BY <1>1, Invariant, PTL

\* No sequence of different members of a set that is no larger than the list is longer
\* than it.
LEMMA NoLonger ==
  ASSUME components \in Genes, NEW S, NEW f \in Surjection(Positions, S),
         NEW s \in Seq(S), \A i, j \in DOMAIN s : s[i] = s[j] => i = j
  PROVE  Len(s) <= Len(components)
<1>1. Positions = 1..Len(components) /\ Len(components) \in Nat
  BY GeneTyped
<1>2. Len(s) \in Nat /\ DOMAIN s = 1..Len(s) /\ s \in [1..Len(s) -> S]
  BY LenProperties
<1>3. \A m \in Nat : IsFiniteSet(1..m) /\ Cardinality(1..m) = m
  <2> SUFFICES ASSUME NEW m \in Nat PROVE IsFiniteSet(1..m) /\ Cardinality(1..m) = m
    OBVIOUS
  <2>1. IsFiniteSet(1..m) /\ Cardinality(1..m) = IF 1 > m THEN 0 ELSE m - 1 + 1
    BY FS_Interval
  <2> QED BY <2>1
<1>4. IsFiniteSet(S) /\ Cardinality(S) <= Len(components)
  BY <1>1, <1>3, FS_Surjection
<1>5. s \in Injection(1..Len(s), S)
  BY <1>2 DEF Injection, IsInjective
<1>6. Cardinality(1..Len(s)) <= Cardinality(S)
  BY <1>4, <1>5, FS_Injection
<1>7. Cardinality(S) \in Nat
  BY <1>4, FS_CardinalityType
<1> QED BY <1>1, <1>2, <1>3, <1>4, <1>6, <1>7

\* The search is never deeper than the list is long, nor is more sorted.
LEMMA WithinList == Inv => Len(stack) <= Len(components) /\ Len(sorted) <= Len(components)
<1> SUFFICES ASSUME Inv PROVE Len(stack) <= Len(components) /\ Len(sorted) <= Len(components)
  OBVIOUS
<1>1. components \in Genes /\ sorted \in Seq(ListNames) /\ queue \in Seq(ListNames)
  BY DEF Inv, GeneInv, KahnInv
<1>2. Len(components) \in Nat
  BY <1>1, GeneTyped
<1>3. Len(stack) <= Len(components)
  <2>1. CASE stack = <<>>
    BY <2>1, <1>2, EmptySeq
  <2>2. CASE stack # <<>>
    <3> DEFINE keys == [d \in 1..Depth |-> stack[d].key]
    <3>1. /\ Depth \in Nat /\ \A d \in 1..Depth : stack[d].key \in NormNames
          /\ \A d, c \in 1..Depth : stack[d].key = stack[c].key => d = c
      BY <2>2, DfsTop, DfsFrames DEF Inv
    <3>2. keys \in Seq(NormNames) /\ Len(keys) = Depth /\ DOMAIN keys = 1..Depth
      BY <3>1
    <3>3. \A i, j \in DOMAIN keys : keys[i] = keys[j] => i = j
      BY <3>1
    <3>4. [i \in Positions |-> Norm[NameOf(i)]] \in Surjection(Positions, NormNames)
      BY DEF Surjection, NormNames, ListNames
    <3> HIDE DEF keys
    <3>5. Len(keys) <= Len(components)
      BY <1>1, <3>2, <3>3, <3>4, NoLonger
    <3> QED BY <3>2, <3>5 DEF Depth
  <2> QED BY <2>1, <2>2
<1>4. Len(sorted) <= Len(components)
  <2>1. CASE Sorting
    <3>1. \A i \in DOMAIN sorted : i \in DOMAIN Line /\ Line[i] = sorted[i]
      BY <1>1, ConcatProperties, LenProperties DEF Line
    <3>2. \A i, j \in DOMAIN sorted : sorted[i] = sorted[j] => i = j
      BY <2>1, <3>1 DEF Inv, KahnInv
    <3>3. [i \in Positions |-> NameOf(i)] \in Surjection(Positions, ListNames)
      BY DEF Surjection, ListNames
    <3> QED BY <1>1, <3>2, <3>3, NoLonger
  <2>2. CASE ~Sorting
    BY <2>2, <1>2, EmptySeq DEF Inv, KahnInv
  <2> QED BY <2>1, <2>2
<1> QED BY <1>3, <1>4

\* A step of the walks uses something up.
LEMMA WalkMoves == Inv /\ GeneNext => ListMoves \/ UNCHANGED geneVars
<1> SUFFICES ASSUME Inv, GeneNext PROVE ListMoves \/ UNCHANGED geneVars
  OBVIOUS
<1>0. Len(stack') <= Len(components) /\ Len(sorted') <= Len(components)
  <2>1. Inv' /\ components' = components
    BY InvStep, NeverChanged
  <2>2. (Inv => Len(stack) <= Len(components) /\ Len(sorted) <= Len(components))'
    BY WithinList, PTL
  <2> QED BY <2>1, <2>2
<1> USE <1>0 DEF ListMoves
<1>1. CASE Reject \/ StartCycleCheck \/ AcceptGene \/ UnknownDependency \/ BuildGraph \/ SortEnds
  BY <1>1 DEF Reject, StartCycleCheck, AcceptGene, UnknownDependency, BuildGraph, SortEnds, Finish,
    Stage
<1>2. CASE DfsRoot
  <2>1. PICK key : stack' = <<Frame(key)>>
    BY <1>2 DEF DfsRoot
  <2>2. Len(stack) = 0 /\ Len(stack') = 1
    BY <1>2, <2>1 DEF DfsRoot
  <2> QED BY <1>2, <2>2 DEF DfsRoot
<1>3. CASE DfsDependency
  <2>1. stack # <<>> /\ Left # <<>> /\ DfsInv /\ visited' = visited
    BY <1>3 DEF DfsDependency, Inv, Left, Depth
  <2> DEFINE new == [stack EXCEPT ![Depth].rest = Tail(Left)]
             dep == Head(Left)
  <2>2. /\ new \in Seq([key : NormNames, rest : Seq(NormNames)])
        /\ Len(new) = Depth /\ new[Depth].rest = Tail(Left)
    <3> HIDE DEF new
    <3>1. new = [stack EXCEPT ![Depth].rest = Tail(Left)]
      BY DEF new
    <3> QED BY <2>1, <3>1, Popped
  <2>3. Depth \in Nat \ {0} /\ Left \in Seq(NormNames)
    BY <2>1, DfsTop DEF Left
  <2>4. Len(Tail(Left)) = Len(Left) - 1 /\ Len(Left) \in Nat
    BY <2>1, <2>3, HeadTailProperties
  <2>5. \/ stage' = "done" /\ stage = "cycles"
        \/ /\ stage' = stage /\ stage = "cycles"
           /\ stack' = new \/ stack' = Append(new, Frame(dep))
    BY <1>3 DEF DfsDependency, Finish, Left, Depth
  <2> HIDE DEF new
  <2>6. CASE stage' = "done" /\ stage = "cycles"
    BY <2>6 DEF Stage
  <2>7. CASE stage' = stage /\ stage = "cycles" /\ stack' = new
    <3>1. stack' # <<>> /\ Len(stack') = Depth
      BY <2>2, <2>3, <2>7, EmptySeq
    <3>2. Remaining' = Len(Left) - 1 /\ Remaining = Len(Left)
      BY <2>1, <2>2, <2>4, <2>7, <3>1 DEF Remaining, Left, Depth
    <3> QED BY <2>1, <2>4, <2>7, <3>1, <3>2 DEF Depth
  <2>8. CASE stage' = stage /\ stage = "cycles" /\ stack' = Append(new, Frame(dep))
    <3>1. /\ components \in Genes /\ Clean /\ dep \in NormNames
      BY <2>1, <2>8, NextDependency DEF Inv, GeneInv
    <3>2. Frame(dep) \in [key : NormNames, rest : Seq(NormNames)]
      BY <3>1, AdjacentFacts DEF Frame
    <3>3. Len(stack') = Depth + 1
      BY <2>2, <2>8, <3>2, AppendProperties
    <3> QED BY <2>1, <2>3, <2>8, <3>3 DEF Depth
  <2> QED BY <2>5, <2>6, <2>7, <2>8
<1>4. CASE DfsReturn
  <2>1. stage' = stage /\ stage = "cycles" /\ stack # <<>> /\ DfsInv
        /\ visited' = visited \cup {stack[Depth].key}
    BY <1>4 DEF DfsReturn, Depth, Inv
  <2>2. stack[Depth].key \notin visited
    BY <2>1, DfsTop, DfsFrames
  <2> QED BY <2>1, <2>2
<1>5. CASE Pop
  <2>1. stage' = stage /\ stage = "sort" /\ sorted' = Append(sorted, Head(queue)) /\ queue # <<>>
    BY <1>5 DEF Pop
  <2>2. sorted \in Seq(ListNames) /\ Head(queue) \in ListNames
    BY <2>1, HeadTailProperties DEF Inv, KahnInv
  <2>3. Len(sorted') = Len(sorted) + 1 /\ Len(sorted) \in Nat
    BY <2>1, <2>2, AppendProperties
  <2> QED BY <2>1, <2>3
<1>6. CASE GeneTerminating
  BY <1>6 DEF GeneTerminating
<1> QED BY <1>1, <1>2, <1>3, <1>4, <1>5, <1>6 DEF GeneNext, ValidateGene, TopoSort

\* Every step of the search and the sort uses up some of the list, so that both end on every
\* list, cyclic ones included (dfsComponentCycle, kahnSort).
THEOREM ListEnds == GeneSpec => ListMovesOn
<1>1. Inv /\ [GeneNext]_geneVars => [ListMoves]_geneVars
  BY WalkMoves
<1> QED BY <1>1, Invariant, PTL DEF GeneSpec, ListMovesOn

-----------------------------------------------------------------------------
(* The composed attempt: its sorted list.                                  *)

\* The list is validated and sorted as in Components; once sorted it is whole.
Listed ==
  /\ Inv
  /\ verdict = "sorted" =>
       /\ Len(sorted) = Len(components)
       /\ \A n \in ListNames : \E p \in DOMAIN sorted : sorted[p] = n

\* A list is sorted whole and is not touched once it is.
LEMMA ListedStep == Listed /\ [Next]_vars => Listed'
<1> SUFFICES ASSUME Listed, [Next]_vars PROVE Listed'
  OBVIOUS
<1>1. CASE UNCHANGED geneVars
  <2>1. Inv'
    BY <1>1, InvStep DEF Listed
  <2>2. ListNames' = ListNames
    BY <1>1 DEF geneVars, ListNames, Positions, NameOf
  <2> QED BY <2>1, <2>2, <1>1 DEF Listed, geneVars
<1>2. CASE ValidateGene \/ TopoSort
  <2>1. Inv'
    BY <1>2, InvStep DEF GeneNext, Listed
  <2>2. components' = components
    BY <1>2 DEF ValidateGene, TopoSort, Reject, StartCycleCheck,
      DfsRoot, DfsDependency, DfsReturn, AcceptGene, UnknownDependency,
      BuildGraph, Pop, SortEnds
  <2>3. ListNames' = ListNames
    BY <2>2 DEF ListNames, Positions, NameOf
  <2>4. CASE SortEnds
    <3>1. stage = "sort" /\ queue = <<>> /\ sorted' = sorted
      BY <2>4 DEF SortEnds, sortVars
    <3>2. Len(sorted) = Len(components)
      BY <3>1, SortedWhole DEF Listed, Inv
    <3>3. \A n \in ListNames : \E p \in DOMAIN sorted : sorted[p] = n
      BY <3>1, AllSorted DEF Listed, Inv
    <3> QED BY <2>1, <2>2, <2>3, <3>1, <3>2, <3>3 DEF Listed
  <2>5. CASE ValidateGene \/ UnknownDependency \/ BuildGraph \/ Pop
    <3>1. stage # "done"
      BY <2>5 DEF ValidateGene, Reject, StartCycleCheck, DfsRoot,
        DfsDependency, DfsReturn, AcceptGene, UnknownDependency,
        BuildGraph, Pop
    <3>2. verdict = "none"
      BY <3>1 DEF Listed, Inv, GeneInv
    <3>3. verdict' # "sorted"
      BY <2>5, <3>2 DEF ValidateGene, Reject, StartCycleCheck, DfsRoot,
        DfsDependency, DfsReturn, AcceptGene, UnknownDependency,
        BuildGraph, Pop, Finish
    <3> QED BY <2>1, <3>3 DEF Listed
  <2> QED BY <1>2, <2>4, <2>5 DEF TopoSort
<1>3. CASE OrderComponents
  BY <1>2, <1>3 DEF OrderComponents
<1>4. CASE ~OrderComponents
  BY <1>1, <1>4 DEF vars, Next, TryComposed, ConvergeComponent, BuildAndValidate,
    ValidateComposed, Terminating, Skip, Ordered, NextComponent, StartAttempt, TakeBest, Generate,
    ComponentError, ParseFails, WriteFiles, EvaluateComponent, Build, StartSession, NoService,
    ServiceStarts, ServiceFails, ServiceHealthy, HTTPUnhealthy, GRPCUnhealthy, ValidateReturns,
    ValidateFails, Release, Integrate, WriteComposedFails, EvaluateComposed
<1> QED BY <1>3, <1>4

-----------------------------------------------------------------------------
(* The attempt.                                                            *)

MiniPlaces == {"attempt", "generate", "parse"}
RunPlaces == {"build", "session", "service", "health", "validate", "release", "evaluate"}
NoHandles == ~serviceRunning /\ ~sessionRunning /\ ~sessionSet /\ ~urlSet /\ ~grpcTargetSet

\* The run goes on only with a sorted list; the subject of a build has a validator.
Placed ==
  /\ opts \in Options /\ pc \in Places
  /\ outcome \in {"none", "rejected", "error", "fallback", "converged"}
  /\ next \in Nat \ {0}
  /\ verdict = "sorted" => next <= Len(sorted) + 1
  /\ verdict # "sorted" => next = 1
  /\ pc # "done" => outcome = "none"
  /\ pc = "order" => next = 1
  /\ pc \notin {"order", "done"} \/ outcome = "converged" => verdict = "sorted"
  /\ pc \in MiniPlaces => ComponentsLeft
  /\ pc \in RunPlaces =>
       (IF ComponentsLeft THEN Subject ELSE Integration) \in opts.Validators
  /\ outcome = "converged" =>
       ~ComponentsLeft /\ (Integration \in opts.Validators => answer >= opts.Threshold)

\* The components before the one at hand have been taken, those with a
\* validator with a score; the one at hand has a best score only if it has a validator.
Taken ==
  /\ accepted \in [DOMAIN accepted -> Scores \cup {Unvalidated}]
  /\ DOMAIN accepted = {sorted[q] : q \in 1..(next - 1)}
  /\ \A n \in DOMAIN accepted : accepted[n] > 0 <=> n \in opts.Validators
  /\ pc \in MiniPlaces \cup RunPlaces /\ ComponentsLeft /\ bestScore > 0 =>
       Subject \in opts.Validators

\* The mini-loop's counters stay within their limits.
Counted ==
  /\ attempt \in 0..(MaxAttempts + 1) /\ stall \in 0..MiniStallLimit
  /\ bestScore \in {0} \cup Scores
  /\ answer \in Scores \cup {Failed, Errored}
  /\ stallCount \in 0..opts.StallLimit
  /\ pc \in (MiniPlaces \cup RunPlaces) \ {"attempt"} /\ ComponentsLeft => attempt <= MaxAttempts
  /\ pc \in MiniPlaces \cup RunPlaces /\ ComponentsLeft => stall < MiniStallLimit

\* How many paid phases may have begun with the budget spent, place by place:
\* none before the validation of an attempt, which begins with some left.
Allowed ==
  CASE pc \in {"generate", "parse"} -> 0
    [] pc \in {"build", "session", "service", "health", "validate"} ->
         IF ComponentsLeft THEN 0 ELSE 1
    [] pc \in {"release", "evaluate"} -> IF ComponentsLeft THEN 1 ELSE 2
    [] pc \in {"order", "component", "attempt"} -> 1
    [] OTHER -> 2

Paid ==
  /\ totalCost \in 0..opts.BudgetUSD /\ overspend \in Nat
  /\ overspend > 0 => BudgetExceeded
  /\ pc = "generate" => ~BudgetExceeded
  /\ overspend <= Allowed

\* The session is up from its start to the release, the service from its own.
Held ==
  /\ {serviceRunning, sessionRunning, sessionSet, urlSet, grpcTargetSet} \subseteq BOOLEAN
  /\ pc \notin {"service", "health", "validate", "release"} => NoHandles
  /\ pc = "session" => NeedsSession
  /\ pc \in {"service", "health", "validate"} =>
       sessionRunning = NeedsSession /\ sessionSet = NeedsSession
  /\ pc = "service" => ~serviceRunning
  /\ pc = "health" => serviceRunning /\ Route # "none"
  /\ pc \in {"service", "health"} => ~urlSet /\ ~grpcTargetSet
  /\ pc = "validate" =>
       /\ serviceRunning = (Route # "none") /\ urlSet = serviceRunning
       /\ grpcTargetSet = (Route = "grpc")

\* The options and the sorted list have the types the code gives them.
LEMMA Typed ==
  ASSUME Listed, opts \in Options
  PROVE  /\ opts.BudgetUSD \in Nat /\ opts.Threshold \in Nat \ {0} /\ opts.StallLimit \in Nat \ {0}
         /\ Len(sorted) \in Nat /\ DOMAIN sorted = 1..Len(sorted)
<1>1. sorted \in Seq(ListNames)
  BY DEF Listed, Inv, KahnInv
<1>2. opts \in [caps : SUBSET Capabilities, Agentic : BOOLEAN,
                Validators : SUBSET (Names \cup {Integration}),
                BudgetUSD : Nat, Threshold : Nat \ {0}, StallLimit : Nat \ {0}]
  BY OptionsAssumption
<1> QED BY <1>1, <1>2

\* What a mini-loop, a build and an order of components leave alone.
LEMMA Framed ==
  /\ Next /\ ~OrderComponents => UNCHANGED geneVars
  /\ [Next]_vars => opts' = opts
<1>1. Next /\ ~OrderComponents => UNCHANGED geneVars
  BY DEF vars, Next, TryComposed, ConvergeComponent, BuildAndValidate,
    ValidateComposed, Terminating, Skip, Ordered, NextComponent, StartAttempt, TakeBest, Generate,
    ComponentError, ParseFails, WriteFiles, EvaluateComponent, Build, StartSession, NoService,
    ServiceStarts, ServiceFails, ServiceHealthy, HTTPUnhealthy, GRPCUnhealthy, ValidateReturns,
    ValidateFails, Release, Integrate, WriteComposedFails, EvaluateComposed
<1>2. [Next]_vars => opts' = opts
  BY DEF vars, Next, TryComposed, ConvergeComponent, BuildAndValidate, OrderComponents,
    ValidateComposed, Terminating, Skip, Ordered, NextComponent, StartAttempt, TakeBest, Generate,
    ComponentError, ParseFails, WriteFiles, EvaluateComponent, Build, StartSession, NoService,
    ServiceStarts, ServiceFails, ServiceHealthy, HTTPUnhealthy, GRPCUnhealthy, ValidateReturns,
    ValidateFails, Release, Integrate, WriteComposedFails, EvaluateComposed
<1> QED BY <1>1, <1>2

\* The run keeps its place in the list.
LEMMA PlacedStep == Listed /\ Placed /\ Counted /\ [Next]_vars => Placed'
<1> SUFFICES ASSUME Listed, Placed, Counted, [Next]_vars PROVE Placed'
  OBVIOUS
<1> USE Typed DEF Placed, Places, MiniPlaces, RunPlaces, Goto, End, ComponentsLeft, Subject
<1>1. CASE OrderComponents
  BY <1>1 DEF OrderComponents, loopVars, miniVars
<1>2. CASE UNCHANGED vars \/ Terminating
  BY <1>2 DEF Terminating, vars, geneVars, loopVars
<1>3. CASE Skip \/ Ordered
  BY <1>3 DEF Skip, Ordered, geneVars, loopVars
<1>4. CASE NextComponent \/ Integrate \/ WriteComposedFails
  BY <1>4 DEF NextComponent, Integrate, WriteComposedFails, geneVars
<1>5. CASE StartAttempt \/ Generate \/ ComponentError
  BY <1>5 DEF StartAttempt, Generate, ComponentError, geneVars
<1>6. CASE TakeBest \/ ParseFails \/ WriteFiles
  BY <1>6 DEF TakeBest, ParseFails, WriteFiles, TryAgain, Accept, geneVars
<1>7. CASE EvaluateComponent
  BY <1>7 DEF EvaluateComponent, TryAgain, Accept, geneVars
<1>8. CASE EvaluateComposed
  BY <1>8 DEF EvaluateComposed, geneVars
<1>9. CASE Build \/ StartSession \/ NoService \/ ServiceStarts
  BY <1>9 DEF Build, StartSession, NoService, ServiceStarts, Fail, geneVars
<1>10. CASE ServiceFails \/ ServiceHealthy \/ HTTPUnhealthy \/ GRPCUnhealthy
  BY <1>10 DEF ServiceFails, ServiceHealthy, HTTPUnhealthy, GRPCUnhealthy, Fail, HandOver, geneVars
<1>11. CASE ValidateReturns \/ ValidateFails \/ Release
  BY <1>11 DEF ValidateReturns, ValidateFails, Release, geneVars
<1> QED
  BY <1>1, <1>2, <1>3, <1>4, <1>5, <1>6, <1>7, <1>8, <1>9, <1>10, <1>11
  DEF Next, TryComposed, ConvergeComponent, BuildAndValidate, ValidateComposed

\* Taking the component at hand adds it, with its score, to those taken.
LEMMA AcceptTakes ==
  ASSUME Listed, Placed, Taken, ComponentsLeft, verdict = "sorted", sorted' = sorted, opts' = opts,
         NEW score \in Scores \cup {Unvalidated}, score > 0 <=> Subject \in opts.Validators,
         Accept(score)
  PROVE  Taken'
<1>1. next \in 1..Len(sorted) /\ next' = next + 1
  BY Typed DEF Placed, ComponentsLeft, Accept
<1>2. DOMAIN accepted' = DOMAIN accepted \cup {Subject}
  BY DEF Accept
<1>3. 1..(next' - 1) = (1..(next - 1)) \cup {next}
  BY <1>1
<1>4. DOMAIN accepted' = {sorted'[q] : q \in 1..(next' - 1)}
  BY <1>2, <1>3 DEF Taken, Subject
<1>5. \A n \in DOMAIN accepted' : accepted'[n] \in Scores \cup {Unvalidated}
  BY DEF Accept, Taken
<1>6. accepted' \in [DOMAIN accepted' -> Scores \cup {Unvalidated}]
  BY <1>5 DEF Accept
<1>7. \A n \in DOMAIN accepted' : accepted'[n] > 0 <=> n \in opts.Validators
  BY DEF Accept, Taken
<1>8. pc' = "component"
  BY DEF Accept
<1> QED
  BY <1>4, <1>6, <1>7, <1>8 DEF Taken, MiniPlaces, RunPlaces

\* What has been taken stays taken, and a score comes only from a validator.
LEMMA TakenStep == Listed /\ Placed /\ Taken /\ Counted /\ [Next]_vars => Taken'
<1> SUFFICES ASSUME Listed, Placed, Taken, Counted, [Next]_vars PROVE Taken'
  OBVIOUS
<1>1. opts' = opts /\ (Next /\ ~OrderComponents => UNCHANGED geneVars)
  BY Framed
<1>2. CASE OrderComponents
  BY <1>1, <1>2 DEF OrderComponents, loopVars, miniVars, Taken, Placed, MiniPlaces, RunPlaces
<1>3. ASSUME UNCHANGED <<sorted, next, accepted>>,
             pc' \in MiniPlaces \cup RunPlaces => bestScore' = 0 \/
               (pc \in MiniPlaces \cup RunPlaces /\ bestScore' = bestScore)
      PROVE  Taken'
  BY <1>1, <1>3 DEF Taken, ComponentsLeft, Subject
<1>4. CASE UNCHANGED vars \/ Terminating \/ Skip \/ Ordered \/ NextComponent \/ WriteComposedFails
  BY <1>3, <1>4 DEF vars, Terminating, Skip, Ordered, NextComponent, WriteComposedFails, Goto, End,
    geneVars, loopVars, miniVars, MiniPlaces, RunPlaces
<1>5. CASE Integrate
  <2>1. UNCHANGED <<sorted, next, accepted>> /\ ~ComponentsLeft
    BY <1>5 DEF Integrate, Goto, End, geneVars, miniVars
  <2> QED BY <2>1, <1>1 DEF Taken, ComponentsLeft
<1>6. CASE StartAttempt \/ Generate \/ ComponentError
  BY <1>3, <1>6 DEF StartAttempt, Generate, ComponentError, Goto, End, geneVars, miniVars,
    MiniPlaces, RunPlaces
<1>7. CASE TakeBest
  <2>1. sorted' = sorted /\ ComponentsLeft /\ verdict = "sorted" /\ pc = "attempt"
    BY <1>7 DEF TakeBest, geneVars, Placed, MiniPlaces
  <2>2. CASE bestScore > 0
    <3>1. bestScore \in Scores /\ Subject \in opts.Validators /\ Accept(bestScore)
      BY <1>7, <2>1, <2>2 DEF TakeBest, Counted, Taken, MiniPlaces
    <3> QED BY <1>1, <2>1, <2>2, <3>1, AcceptTakes
  <2>3. CASE ~(bestScore > 0)
    BY <1>7, <2>1, <2>3, <1>3 DEF TakeBest, End, miniVars, MiniPlaces, RunPlaces
  <2> QED BY <2>2, <2>3
<1>8. CASE ParseFails
  BY <1>3, <1>8 DEF ParseFails, TryAgain, Goto, End, geneVars, MiniPlaces, RunPlaces
<1>9. CASE WriteFiles
  <2>1. sorted' = sorted /\ ComponentsLeft /\ verdict = "sorted" /\ pc = "parse"
    BY <1>9 DEF WriteFiles, geneVars, Placed, MiniPlaces
  <2>2. CASE Subject \in opts.Validators
    BY <1>9, <2>1, <2>2, <1>3 DEF WriteFiles, Goto, miniVars, MiniPlaces, RunPlaces
  <2>3. CASE Subject \notin opts.Validators
    <3>1. Accept(Unvalidated) /\ ~(Unvalidated > 0)
      BY <1>9, <2>3 DEF WriteFiles, Unvalidated
    <3> QED BY <1>1, <2>1, <2>3, <3>1, AcceptTakes
  <2> QED BY <2>2, <2>3
<1>10. CASE EvaluateComponent
  <2>1. sorted' = sorted /\ ComponentsLeft /\ verdict = "sorted" /\ pc = "evaluate"
    BY <1>10 DEF EvaluateComponent, geneVars, Placed
  <2>2. Subject \in opts.Validators
    BY <2>1 DEF Placed, RunPlaces
  <2>3. CASE answer >= opts.Threshold
    <3>1. answer \in Scores /\ answer > 0
      <4>1. opts.Threshold \in Nat \ {0} /\ answer \in Scores \cup {-1, -2}
        BY Typed DEF Counted, Placed, Failed, Errored
      <4> QED BY <4>1, <2>3, AmountsAssumption
    <3>2. Accept(answer)
      BY <1>10, <2>3, <3>1, Typed, AmountsAssumption DEF EvaluateComponent, Placed
    <3> QED BY <1>1, <2>1, <2>2, <3>1, <3>2, AcceptTakes
  <2>4. CASE ~(answer >= opts.Threshold)
    <3>1. \E stalls, best : TryAgain(stalls, best)
      BY <1>10, <2>4 DEF EvaluateComponent
    <3>2. UNCHANGED <<sorted, next, accepted>>
      BY <2>1, <3>1 DEF TryAgain, Goto, End
    <3> QED BY <1>1, <2>2, <3>2 DEF Taken, Subject
  <2> QED BY <2>3, <2>4
<1>11. CASE EvaluateComposed
  BY <1>3, <1>11 DEF EvaluateComposed, End, geneVars, miniVars, MiniPlaces, RunPlaces
<1>12. CASE BuildAndValidate
  BY <1>3, <1>12 DEF BuildAndValidate, Build, StartSession, NoService, ServiceStarts, ServiceFails,
    ServiceHealthy, HTTPUnhealthy, GRPCUnhealthy, ValidateReturns, ValidateFails, Release, Fail,
    HandOver, Goto, geneVars, miniVars, MiniPlaces, RunPlaces
<1> QED
  BY <1>2, <1>4, <1>5, <1>6, <1>7, <1>8, <1>9, <1>10, <1>11, <1>12
  DEF Next, TryComposed, ConvergeComponent, ValidateComposed

\* No counter passes its limit.
LEMMA CountedStep == Listed /\ Placed /\ Counted /\ [Next]_vars => Counted'
<1> SUFFICES ASSUME Listed, Placed, Counted, [Next]_vars PROVE Counted'
  OBVIOUS
<1>0. opts' = opts
  BY Framed
<1> USE <1>0, Typed, AmountsAssumption
    DEF Placed, Counted, MiniPlaces, RunPlaces, Goto, End, ComponentsLeft, MaxAttempts,
        MiniStallLimit, Failed, Errored
<1>1. CASE OrderComponents \/ Skip \/ Ordered
  BY <1>1 DEF OrderComponents, Skip, Ordered, loopVars, miniVars
<1>2. CASE UNCHANGED vars \/ Terminating
  BY <1>2 DEF Terminating, vars, geneVars, loopVars, miniVars
<1>3. CASE NextComponent \/ Integrate \/ WriteComposedFails
  BY <1>3 DEF NextComponent, Integrate, WriteComposedFails, geneVars, miniVars
<1>4. CASE StartAttempt \/ Generate \/ ComponentError
  BY <1>4 DEF StartAttempt, Generate, ComponentError, geneVars, miniVars, Exhausted
<1>5. CASE TakeBest \/ WriteFiles
  BY <1>5 DEF TakeBest, WriteFiles, Accept, geneVars, miniVars
<1>6. CASE ParseFails
  BY <1>6 DEF ParseFails, TryAgain, geneVars
<1>7. CASE EvaluateComponent
  BY <1>7 DEF EvaluateComponent, TryAgain, Accept, geneVars
<1>8. CASE EvaluateComposed
  BY <1>8 DEF EvaluateComposed, geneVars, miniVars
<1>9. CASE Build \/ StartSession \/ NoService \/ ServiceStarts
  BY <1>9 DEF Build, StartSession, NoService, ServiceStarts, Fail, geneVars, miniVars
<1>10. CASE ServiceFails \/ ServiceHealthy \/ HTTPUnhealthy \/ GRPCUnhealthy
  <2>1. stallCount' \in 0..opts.StallLimit
    BY <1>10 DEF ServiceFails, ServiceHealthy, HTTPUnhealthy, GRPCUnhealthy, CountStall, Least
  <2>2. UNCHANGED <<geneVars, next, miniVars>> /\ answer' \in {answer, Failed}
    BY <1>10 DEF ServiceFails, ServiceHealthy, HTTPUnhealthy, GRPCUnhealthy, Fail, HandOver
  <2>3. pc \in RunPlaces
    BY <1>10 DEF ServiceFails, ServiceHealthy, HTTPUnhealthy, GRPCUnhealthy
  <2> QED BY <2>1, <2>2, <2>3 DEF geneVars, miniVars
<1>11. CASE ValidateReturns \/ ValidateFails \/ Release
  BY <1>11 DEF ValidateReturns, ValidateFails, Release, geneVars, miniVars
<1> QED
  BY <1>1, <1>2, <1>3, <1>4, <1>5, <1>6, <1>7, <1>8, <1>9, <1>10, <1>11
  DEF Next, TryComposed, ConvergeComponent, BuildAndValidate, ValidateComposed

\* A paid phase adds its cost, and counts only if the budget was spent.
LEMMA SpendAdds ==
  ASSUME Listed, Placed, Paid, opts' = opts, \E cost \in Costs : Spend(cost)
  PROVE  /\ totalCost' \in 0..opts.BudgetUSD /\ overspend' \in Nat
         /\ overspend' > 0 => BudgetExceeded'
         /\ overspend' <= overspend + 1
         /\ ~BudgetExceeded => overspend' = overspend
<1>1. PICK cost \in Costs : Spend(cost)
  OBVIOUS
<1>2. cost \in Nat /\ opts.BudgetUSD \in Nat
  BY Typed, AmountsAssumption DEF Placed
<1> QED
  BY <1>1, <1>2 DEF Spend, Paid, BudgetExceeded, Least, OverspendCap

\* The money is looked at before every attempt.
LEMMA PaidStep == Listed /\ Placed /\ Counted /\ Paid /\ [Next]_vars => Paid'
<1> SUFFICES ASSUME Listed, Placed, Counted, Paid, [Next]_vars PROVE Paid'
  OBVIOUS
<1>0. opts' = opts
  BY Framed
<1> USE <1>0, Typed
    DEF Placed, Paid, Allowed, MiniPlaces, RunPlaces, Goto, End, ComponentsLeft, BudgetExceeded
<1>1. CASE OrderComponents \/ Skip \/ Ordered
  BY <1>1 DEF OrderComponents, Skip, Ordered, loopVars, moneyVars
<1>2. CASE UNCHANGED vars \/ Terminating
  BY <1>2 DEF Terminating, vars, geneVars, loopVars, moneyVars
<1>3. CASE NextComponent \/ Integrate \/ WriteComposedFails
  BY <1>3 DEF NextComponent, Integrate, WriteComposedFails, geneVars, moneyVars
<1>4. CASE StartAttempt \/ ComponentError
  BY <1>4 DEF StartAttempt, ComponentError, geneVars, moneyVars
<1>5. CASE Generate
  BY <1>5, SpendAdds DEF Generate
<1>6. CASE TakeBest \/ WriteFiles \/ ParseFails
  BY <1>6 DEF TakeBest, WriteFiles, ParseFails, TryAgain, Accept, geneVars, moneyVars
<1>7. CASE EvaluateComponent
  BY <1>7 DEF EvaluateComponent, TryAgain, Accept, geneVars, moneyVars
<1>8. CASE EvaluateComposed
  BY <1>8 DEF EvaluateComposed, geneVars, moneyVars
<1>9. CASE Build \/ StartSession \/ NoService \/ ServiceStarts
  BY <1>9 DEF Build, StartSession, NoService, ServiceStarts, Fail, geneVars, moneyVars
<1>10. CASE ServiceFails \/ ServiceHealthy \/ HTTPUnhealthy \/ GRPCUnhealthy
  BY <1>10 DEF ServiceFails, ServiceHealthy, HTTPUnhealthy, GRPCUnhealthy, Fail, HandOver, geneVars,
    moneyVars
<1>11. CASE ValidateReturns
  BY <1>11, SpendAdds DEF ValidateReturns, geneVars
<1>12. CASE ValidateFails \/ Release
  BY <1>12 DEF ValidateFails, Release, geneVars, moneyVars
<1> QED
  BY <1>1, <1>2, <1>3, <1>4, <1>5, <1>6, <1>7, <1>8, <1>9, <1>10, <1>11, <1>12
  DEF Next, TryComposed, ConvergeComponent, BuildAndValidate, ValidateComposed

\* What is started is held until the release, which lets go of all of it.
LEMMA HeldStep == Placed /\ Held /\ [Next]_vars => Held'
<1> SUFFICES ASSUME Placed, Held, [Next]_vars PROVE Held'
  OBVIOUS
<1>0. opts' = opts
  BY Framed
<1>1. Route \in {"grpc", "http", "none"} /\ NeedsSession \in BOOLEAN /\ Route' = Route
      /\ NeedsSession' = NeedsSession
  BY <1>0 DEF Route, NeedsSession
<1> USE <1>0, <1>1 DEF Placed, Places, Held, NoHandles, Goto, End
<1>2. CASE OrderComponents \/ Skip \/ Ordered
  BY <1>2 DEF OrderComponents, Skip, Ordered, loopVars, containerVars
<1>3. CASE UNCHANGED vars \/ Terminating
  BY <1>3 DEF Terminating, vars, loopVars, containerVars
<1>4. CASE NextComponent \/ Integrate \/ WriteComposedFails
  BY <1>4 DEF NextComponent, Integrate, WriteComposedFails, containerVars
<1>5. CASE StartAttempt \/ Generate \/ ComponentError \/ TakeBest \/ WriteFiles \/ ParseFails
  BY <1>5 DEF StartAttempt, Generate, ComponentError, TakeBest, WriteFiles, ParseFails, TryAgain,
    Accept, containerVars
<1>6. CASE EvaluateComponent \/ EvaluateComposed
  BY <1>6 DEF EvaluateComponent, TryAgain, Accept, EvaluateComposed, containerVars
<1>7. CASE Build
  BY <1>7 DEF Build, Fail, containerVars
<1>8. CASE StartSession
  BY <1>8 DEF StartSession, Fail
<1>9. CASE NoService
  BY <1>9 DEF NoService, containerVars
<1>10. CASE ServiceStarts
  BY <1>10 DEF ServiceStarts
<1>11. CASE ServiceFails
  BY <1>11 DEF ServiceFails, Fail, containerVars
<1>12. CASE ServiceHealthy
  BY <1>12 DEF ServiceHealthy, HandOver
<1>13. CASE HTTPUnhealthy \/ GRPCUnhealthy
  BY <1>13 DEF HTTPUnhealthy, GRPCUnhealthy, Fail, HandOver
<1>14. CASE ValidateReturns \/ ValidateFails \/ Release
  BY <1>14 DEF ValidateReturns, ValidateFails, Release, containerVars
<1> QED
  BY <1>2, <1>3, <1>4, <1>5, <1>6, <1>7, <1>8, <1>9, <1>10, <1>11, <1>12, <1>13, <1>14
  DEF Next, TryComposed, ConvergeComponent, BuildAndValidate, ValidateComposed

-----------------------------------------------------------------------------
(* The theorems about the attempt.                                         *)

\* What every step of the attempt keeps.
Attempt == Listed /\ Placed /\ Taken /\ Counted /\ Paid /\ Held

\* It holds in every state.
LEMMA AttemptHolds == Spec => []Attempt
<1>1. Init => Attempt
  <2> SUFFICES ASSUME Init PROVE Attempt
    OBVIOUS
  <2>1. Listed
    <3>1. GeneInit /\ verdict = "none"
      BY DEF Init, GeneInit
    <3> QED BY <3>1, InvInit DEF Listed
  <2>2. verdict = "none" /\ Placed
    BY <2>1, Typed DEF Init, GeneInit, Placed, Places, MiniPlaces, RunPlaces
  <2>3. Taken
    BY DEF Init, Taken, MiniPlaces, RunPlaces
  <2>4. Counted
    BY <2>1, Typed DEF Init, Counted, MiniPlaces, RunPlaces, MaxAttempts, MiniStallLimit
  <2>5. Paid
    BY <2>1, Typed DEF Init, Paid, Allowed
  <2>6. Held
    BY DEF Init, Held, NoHandles
  <2> QED BY <2>1, <2>2, <2>3, <2>4, <2>5, <2>6 DEF Attempt
<1>2. Attempt /\ [Next]_vars => Attempt'
  BY ListedStep, PlacedStep, TakenStep, CountedStep, PaidStep, HeldStep DEF Attempt
<1> QED BY <1>1, <1>2, PTL DEF Spec

\* Every variable of the attempt holds a value of its kind: a component has at
\* most five attempts and the list is not read past its end (runComposed).
THEOREM TypeCorrect == Spec => []TypeOK
<1>1. Attempt => TypeOK
  <2> SUFFICES ASSUME Attempt PROVE TypeOK
    OBVIOUS
  <2>1. Len(components) \in Nat
    BY GenesAssumption DEF Attempt, Listed, Inv, GeneInv
  <2>2. next \in 1..(Len(components) + 1)
    BY <2>1, Typed DEF Attempt, Placed, Listed
  <2> QED
    BY <2>2 DEF Attempt, Placed, Taken, Counted, Paid, Allowed, Held, TypeOK, OverspendCap
<1> QED BY <1>1, AttemptHolds, PTL

\* A component is generated when all it depends on has been taken, and it has
\* not (convergeComponent).
THEOREM Ready == Spec => []DependenciesReady
<1>1. Attempt => DependenciesReady
  <2> SUFFICES ASSUME Attempt, pc \in MiniPlaces
               PROVE  /\ Subject \notin DOMAIN accepted
                      /\ \A k \in DOMAIN Deps(EntryOf(Subject)) :
                           Deps(EntryOf(Subject))[k] \in DOMAIN accepted
    BY DEF DependenciesReady, MiniPlaces
  <2>1. next \in DOMAIN sorted
    BY Typed DEF Attempt, Placed, ComponentsLeft
  <2>2. DependenciesFirst
    BY SortedFirst DEF Attempt, Listed
  <2>3. /\ \A q \in 1..(next - 1) : sorted[q] # sorted[next]
        /\ \A k \in DOMAIN Deps(EntryOf(sorted[next])) :
             \E q \in 1..(next - 1) : sorted[q] = Deps(EntryOf(sorted[next]))[k]
    BY <2>1, <2>2 DEF DependenciesFirst
  <2>4. DOMAIN accepted = {sorted[q] : q \in 1..(next - 1)}
    BY DEF Attempt, Taken
  <2>5. Deps(EntryOf(Subject)) = Deps(EntryOf(sorted[next]))
    BY DEF Subject
  <2> QED BY <2>3, <2>4, <2>5 DEF Subject
<1> QED BY <1>1, AttemptHolds, PTL

\* Nothing that was started for one build is left for the next, and a
\* validation holds what its scenarios need (buildAndValidateComponent).
THEOREM Owned == Spec => []ResourcesOwned
<1>1. TypeOK /\ Attempt => ResourcesOwned
  BY DEF Attempt, Held, NoHandles, ResourcesOwned, Route
<1> QED BY <1>1, TypeCorrect, AttemptHolds, PTL

\* A converged attempt has taken the whole list, the components with a
\* validator with a score (runComposed, validateComposed).
THEOREM Whole == Spec => []ConvergedIsWhole
<1>1. Attempt => ConvergedIsWhole
  <2> SUFFICES ASSUME Attempt, outcome = "converged"
               PROVE  /\ DOMAIN accepted = ListNames
                      /\ \A n \in DOMAIN accepted : accepted[n] > 0 <=> n \in opts.Validators
                      /\ Integration \in opts.Validators => answer >= opts.Threshold
    BY DEF ConvergedIsWhole
  <2>1. next - 1 = Len(sorted) /\ DOMAIN sorted = 1..Len(sorted) /\ verdict = "sorted"
    BY Typed DEF Attempt, Placed, ComponentsLeft
  <2>2. \A n \in ListNames : \E p \in DOMAIN sorted : sorted[p] = n
    BY <2>1 DEF Attempt, Listed
  <2>3. \A p \in DOMAIN sorted : sorted[p] \in ListNames
    BY DEF Attempt, Listed, Inv, KahnInv
  <2>4. DOMAIN accepted = ListNames
    BY <2>1, <2>2, <2>3 DEF Attempt, Taken
  <2> QED BY <2>4 DEF Attempt, Taken, Placed
<1> QED BY <1>1, AttemptHolds, PTL

\* At most two paid phases begin once the budget is spent: the validation of
\* the attempt that spent it and the integration validation (validateComposed).
THEOREM Bounded == Spec => []OverspendBounded
<1>1. Attempt => OverspendBounded
  BY DEF Attempt, Paid, Allowed, OverspendBounded
<1> QED BY <1>1, AttemptHolds, PTL

-----------------------------------------------------------------------------
(* The attempt's end.                                                      *)

\* A step of the sort's, or one that uses up components, attempts or places.
LEMMA AttemptMoves ==
  Listed /\ Placed /\ Counted /\ Next => Moves \/ UNCHANGED vars
<1> SUFFICES ASSUME Listed, Placed, Counted, Next
             PROVE  Moves \/ UNCHANGED vars
  OBVIOUS
<1>0. /\ attempt \in 0..(MaxAttempts + 1) /\ next \in Nat /\ Len(sorted) \in Nat
      /\ pc \in {"attempt", "parse", "evaluate"} =>
           verdict = "sorted" /\ Len(sorted) = Len(components)
      /\ pc \in {"attempt", "parse"} => ComponentsLeft
      /\ pc \in {"parse", "evaluate"} /\ ComponentsLeft => attempt <= MaxAttempts
  BY Typed DEF Placed, Counted, Listed, MiniPlaces, RunPlaces
<1> USE DEF Goto, End, miniVars, Moves
<1>1. CASE OrderComponents
  <2>1. Inv /\ GeneNext
    BY <1>1 DEF OrderComponents, Listed, GeneNext
  <2>2. ListMoves \/ UNCHANGED geneVars
    BY <2>1, WalkMoves
  <2> QED BY <1>1, <2>2 DEF OrderComponents, loopVars, vars
<1>2. CASE Skip \/ Ordered \/ NextComponent \/ ValidateComposed
  BY <1>2 DEF Skip, Ordered, NextComponent, ValidateComposed, Integrate, WriteComposedFails,
    EvaluateComposed, Step
<1>3. CASE StartAttempt \/ Generate \/ ComponentError
  BY <1>3 DEF StartAttempt, Generate, ComponentError, Step
<1>4. ASSUME NEW score, Accept(score), pc \in {"attempt", "parse", "evaluate"}, ComponentsLeft
      PROVE  next' = next + 1 /\ next' <= Len(components) + 1
  BY <1>0, <1>4 DEF Accept, ComponentsLeft
<1>5. ASSUME NEW stalls, NEW best, TryAgain(stalls, best), pc \in {"parse", "evaluate"}, ComponentsLeft
      PROVE  \/ next' = next /\ pc' = "attempt" /\ attempt' = attempt + 1 /\ attempt' <= MaxAttempts + 1
             \/ next' = next /\ attempt' = attempt /\ Step[pc'] > Step[pc]
  <2>1. attempt \in Nat /\ attempt <= MaxAttempts /\ MaxAttempts \in Nat
    BY <1>0, <1>5 DEF MaxAttempts
  <2> QED BY <1>5, <2>1 DEF TryAgain, Step
<1>6. CASE TakeBest
  <2>1. CASE bestScore > 0
    BY <1>0, <1>4, <1>6, <2>1 DEF TakeBest
  <2>2. CASE ~(bestScore > 0)
    BY <1>6, <2>2 DEF TakeBest, Step
  <2> QED BY <2>1, <2>2
<1>7. CASE ParseFails
  BY <1>0, <1>5, <1>7 DEF ParseFails
<1>8. CASE WriteFiles
  <2>1. CASE Subject \in opts.Validators
    BY <1>8, <2>1 DEF WriteFiles, Step
  <2>2. CASE Subject \notin opts.Validators
    BY <1>0, <1>4, <1>8, <2>2 DEF WriteFiles
  <2> QED BY <2>1, <2>2
<1>9. CASE EvaluateComponent
  <2>1. \/ Accept(answer) \/ TryAgain(0, answer) \/ TryAgain(stall + 1, bestScore)
    BY <1>9 DEF EvaluateComponent
  <2> QED BY <1>0, <1>4, <1>5, <1>9, <2>1 DEF EvaluateComponent
<1>10. CASE BuildAndValidate
  BY <1>10 DEF BuildAndValidate, Build, StartSession, NoService, ServiceStarts, ServiceFails,
    ServiceHealthy, HTTPUnhealthy, GRPCUnhealthy, ValidateReturns, ValidateFails, Release, Fail,
    HandOver, Step
<1>11. CASE Terminating
  BY <1>11 DEF Terminating
<1> QED
  BY <1>1, <1>2, <1>3, <1>6, <1>7, <1>8, <1>9, <1>10, <1>11
  DEF Next, TryComposed, ConvergeComponent

\* Every step uses up components, attempts or places, of which there are finitely many: the
\* attempt ends, whatever the components score (runComposed, convergeComponent).
THEOREM Ends == Spec => MovesOn
<1>1. Attempt /\ [Next]_vars => [Moves]_vars
  BY AttemptMoves DEF Attempt
<1> QED BY <1>1, AttemptHolds, PTL DEF Spec, MovesOn
=============================================================================
