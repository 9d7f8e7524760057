----------------------------- MODULE GraphSurgery -----------------------------
(***************************************************************************)
(* The graph rewriting of sw/model_prep/graph_ops: pools too large for the *)
(* accelerator become small ones or convolutions, a Transpose in front of  *)
(* a fully connected layer is folded into its weight, grouped convolutions *)
(* become dense.  Each step of a rewriting loop is a step here.            *)
(*                                                                         *)
(* A graph is a sequence of nodes in order of evaluation and a function    *)
(* from the names of constants to tensors; a name is a sequence, which a   *)
(* rewriting extends to make a new one.  Tensors have three axes,       *)
(* channels, height and width, without the batch.  What a tensor holds is  *)
(* symbolic, so that two graphs that mean the same have equal outputs: an  *)
(* element is the set of products or the mean that it is.                  *)
(***************************************************************************)
EXTENDS Integers, Sequences, FiniteSets, SequencesExt

CONSTANTS
  MaxWindow, MaxStride,  \* what the pool unit takes
  Graphs,                \* the graphs to rewrite
  Strategies             \* the strategies to rewrite pools with

ASSUME WindowAssumption == MaxWindow \in Nat \ {0} /\ MaxStride \in Nat \ {0}

VARIABLES original, graph, strategy, phase
gvars == <<original, graph, strategy, phase>>

Range0(n) == 0..n - 1
Prod(s) == FoldLeft(LAMBDA a, b : a * b, 1, s)
-------------------------------------------------------------------------------
(* Tensors: a shape and a function on multi-indices.                       *)

\* Row-major position of an index, as in a flatten, and the index there.
Ravel(i, shape) ==
  FoldLeft(LAMBDA acc, a : acc * shape[a] + i[a], 0, [a \in DOMAIN shape |-> a])
Unravel(p, shape) ==
  [a \in DOMAIN shape |-> (p \div Prod(SubSeq(shape, a + 1, Len(shape)))) % shape[a]]
Indices(shape) == {Unravel(p, shape) : p \in Range0(Prod(shape))}

\* Be of v, with v evaluated once.
Once(v, Be(_)) == CHOOSE r \in {Be(u) : u \in {v}} : TRUE

Tensor(shape, At(_)) ==
  Once(shape, LAMBDA sh : [shape |-> sh, at |-> [i \in Indices(sh) |-> At(i)]])

\* The mean of all elements in a window.  Windows of one mean are disjoint and
\* of one size, so means compose: cells unite and divisors multiply.
MeanOf(t, cells) ==
  [cells |-> UNION {t.at[i].cells : i \in cells},
   by |-> Cardinality(cells) * t.at[CHOOSE i \in cells : TRUE].by]

Window(t, k, s) ==
  Tensor(<<t.shape[1], (t.shape[2] - k[1]) \div s[1] + 1,
           (t.shape[3] - k[2]) \div s[2] + 1>>,
         LAMBDA i : MeanOf(t, {<<i[1], i[2] * s[1] + y, i[3] * s[2] + x>> :
                                 y \in Range0(k[1]), x \in Range0(k[2])}))

Transposed(t, perm) ==
  Tensor([a \in DOMAIN perm |-> t.shape[perm[a]]],
         LAMBDA i : t.at[[a \in DOMAIN perm |->
                            i[CHOOSE b \in DOMAIN perm : perm[b] = a]]])

Flat(t) == Tensor(<<Prod(t.shape)>>, LAMBDA i : t.at[Unravel(i[1], t.shape)])

\* Output column n of a fully connected layer: its products.  axis is the
\* weight's contracting one.
Product(x, w, axis) ==
  LET cols == w.shape[3 - axis]
  IN Tensor(<<cols>>,
       LAMBDA n : {<<x.at[<<k>>], w.at[IF axis = 1 THEN <<k, n[1]>> ELSE <<n[1], k>>]>> :
                     k \in Range0(x.shape[1])})

\* A 1 x 1 convolution in groups: channel o sees the channels of its group.
\* Products with 0 do not count.
Convolved(x, w, group) ==
  LET perIn == w.shape[2]
      perOut == w.shape[1] \div group
  IN Tensor(<<w.shape[1], x.shape[2], x.shape[3]>>,
       LAMBDA i : {<<x.at[<<(i[1] \div perOut) * perIn + c, i[2], i[3]>>], w.at[<<i[1], c>>]>> :
                     c \in {c \in Range0(perIn) : w.at[<<i[1], c>>] # 0}})

\* The weight's contracting axis.
WeightAxis(n) == IF n.op = "Gemm" /\ n.transB THEN 2 ELSE 1

ValueFrom(a, n, env) ==
     CASE n.op = "GlobalAveragePool" -> Window(a, <<a.shape[2], a.shape[3]>>, <<1, 1>>)
       [] n.op = "ReduceMean" -> Window(a, <<a.shape[2], a.shape[3]>>, <<1, 1>>)
       [] n.op \in {"AveragePool", "MeanConv"} -> Window(a, n.k, n.s)
       [] n.op = "Transpose" -> Transposed(a, n.perm)
       [] n.op = "Reshape" -> Flat(a)
       [] n.op \in {"MatMul", "Gemm"} -> Product(a, env[n.ins[2]], WeightAxis(n))
       [] n.op = "Conv" -> Convolved(a, env[n.ins[2]], n.group)

Value(n, env) == Once(env[n.ins[1]], LAMBDA a : ValueFrom(a, n, env))

With(f, x, v) == [y \in DOMAIN f \cup {x} |-> IF y = x THEN v ELSE f[y]]

Input(shape) == Tensor(shape, LAMBDA i : [cells |-> {Ravel(i, shape)}, by |-> 1])

\* Every tensor of a graph, by name.
Env(g) ==
  LET E[i \in 0..Len(g.nodes)] ==
        IF i = 0 THEN With(g.inits, <<"x">>, Input(g.shape))
        ELSE Once(E[i - 1], LAMBDA env : With(env, g.nodes[i].out, Value(g.nodes[i], env)))
  IN E[Len(g.nodes)]
Meaning(g) == LET env == Env(g) IN [o \in g.outputs |-> env[o]]
-------------------------------------------------------------------------------
(* Splicing.                                                               *)

Producers(g, name) == {i \in DOMAIN g.nodes : g.nodes[i].out = name}
IsInit(g, name) == name \in DOMAIN g.inits
Consumers(g, name) == {i \in DOMAIN g.nodes : name \in Range(g.nodes[i].ins)}

SetInput(n, old, new) ==
  [n EXCEPT !.ins = [a \in DOMAIN @ |-> IF @[a] = old THEN new ELSE @[a]]]

RemoveIfUnused(g, i) ==
  LET name == g.nodes[i].out
  IN IF Consumers(g, name) # {} \/ name \in g.outputs THEN g
     ELSE [g EXCEPT !.nodes = RemoveAt(@, i)]

PruneInit(g, name) ==
  IF Consumers(g, name) # {} THEN g
  ELSE [g EXCEPT !.inits = [c \in DOMAIN @ \ {name} |-> @[c]]]
-------------------------------------------------------------------------------
(* pool_decompose                                                          *)

PoolOps == {"AveragePool", "GlobalAveragePool"}

\* Kernel and stride of a pool; a global one has those of its input.
Kernel(g, i) ==
  LET n == g.nodes[i] IN
  IF n.op = "AveragePool" THEN n.k
  ELSE LET t == Env(g)[n.ins[1]] IN <<t.shape[2], t.shape[3]>>
Stride(g, i) == IF g.nodes[i].op = "AveragePool" THEN g.nodes[i].s ELSE Kernel(g, i)

Oversized(g) ==
  {i \in DOMAIN g.nodes :
     /\ g.nodes[i].op \in PoolOps
     /\ \E a \in 1..2 : Kernel(g, i)[a] > MaxWindow \/ Stride(g, i)[a] > MaxStride}

\* Greedy, largest factor first, as long as it divides; and what is left.
FactorsFrom(n, top) ==
  LET F[p \in (1..n) \X (1..top)] ==
        LET m == p[1]
            f == p[2]
        IN IF f = 1 THEN <<<<>>, m>>
           ELSE IF m % f = 0
           THEN LET r == F[<<m \div f, f>>] IN <<<<f>> \o r[1], r[2]>>
           ELSE F[<<m, f - 1>>]
  IN F[<<n, top>>]
Factorize(n) == FactorsFrom(n, MaxWindow)

Stage(n, j) == Append(n.out, j)

MeanConv(i, o, k, s) == <<[op |-> "MeanConv", ins |-> <<i>>, out |-> o, k |-> k, s |-> s]>>

\* Stages of small pools with the factors h and w, the residual finished by a
\* convolution.
Cascade(n, h, w) ==
  LET stages == IF Len(h[1]) > Len(w[1]) THEN Len(h[1]) ELSE Len(w[1])
      left == <<h[2], w[2]>>
      factor(f, j) == IF j <= Len(f) THEN f[j] ELSE 1
      src(j) == IF j = 1 THEN n.ins[1] ELSE Stage(n, j - 1)
      dst(j) == IF j = stages /\ left = <<1, 1>> THEN n.out ELSE Stage(n, j)
      pool(j) == LET k == <<factor(h[1], j), factor(w[1], j)>>
                 IN [op |-> "AveragePool", ins |-> <<src(j)>>, out |-> dst(j), k |-> k, s |-> k]
  IN [j \in 1..stages |-> pool(j)]
     \o (IF left = <<1, 1>> THEN <<>> ELSE MeanConv(src(stages + 1), n.out, left, left))

\* "auto" takes the cascade when it needs no residual.
Chosen(k, s) ==
  IF strategy # "auto" THEN strategy
  ELSE IF k = s /\ \A a \in 1..2 : Factorize(k[a])[2] = 1 THEN "cascade" ELSE "conv"

\* The nodes in place of pool n, which has kernel k and stride s.
Replacement(n, k, s) ==
  CASE Chosen(k, s) = "conv" -> MeanConv(n.ins[1], n.out, k, s)
    [] Chosen(k, s) = "cascade" -> Cascade(n, Factorize(k[1]), Factorize(k[2]))
    [] OTHER -> <<[op |-> "ReduceMean", ins |-> n.ins, out |-> n.out]>>

FirstOf(S) == {i \in S : \A j \in S : i <= j}

Refuse == phase' = "refused" /\ UNCHANGED graph

DecomposePool ==
  /\ phase = "pools"
  /\ IF Oversized(graph) = {} THEN phase' = "transposes" /\ UNCHANGED graph
     ELSE \E i \in FirstOf(Oversized(graph)) :
       \E k \in {Kernel(graph, i)}, s \in {Stride(graph, i)} :
         IF Chosen(k, s) = "cascade" /\ k # s THEN Refuse
         ELSE /\ \E new \in {Replacement(graph.nodes[i], k, s)} :
                   graph' = [graph EXCEPT !.nodes = SubSeq(@, 1, i - 1) \o new
                                                    \o SubSeq(@, i + 1, Len(@))]
              /\ UNCHANGED phase
  /\ UNCHANGED <<original, strategy>>
-------------------------------------------------------------------------------
(* transpose_fold                                                          *)

FcNodes(g) == {i \in DOMAIN g.nodes : g.nodes[i].op \in {"MatMul", "Gemm"}}

\* Row j of the new weight is the row of the old one for the element that the
\* flatten of the tensor before the Transpose puts in place j.
RowPermutation_Inverse(shape, perm) ==
  [j \in Range0(Prod(shape)) |->
     Ravel([a \in DOMAIN perm |-> Unravel(j, [b \in DOMAIN perm |-> shape[perm[b]]])
                                     [CHOOSE b \in DOMAIN perm : perm[b] = a]], shape)]
RowPermutation(shape, perm) ==
  [j \in Range0(Prod(shape)) |->
     Ravel([a \in DOMAIN perm |-> Unravel(j, shape)[perm[a]]],
           [a \in DOMAIN perm |-> shape[perm[a]]])]

Permuted(w, axis, rows) ==
  Once(rows, LAMBDA r : Tensor(w.shape, LAMBDA i : w.at[[i EXCEPT ![axis] = r[@]]]))

\* Transpose, then Reshape, then the layer, whose weight is constant and as
\* long as the flattened tensor.
Foldable(g, i) ==
  /\ IsInit(g, g.nodes[i].ins[2])
  /\ \E r \in Producers(g, g.nodes[i].ins[1]) :
       /\ g.nodes[r].op = "Reshape"
       /\ \E t \in Producers(g, g.nodes[r].ins[1]) :
            /\ g.nodes[t].op = "Transpose"
            /\ g.inits[g.nodes[i].ins[2]].shape[WeightAxis(g.nodes[i])]
                 = Prod(Env(g)[g.nodes[t].ins[1]].shape)

\* The weight is permuted in its place, the Reshape reads what the Transpose
\* read, and the Transpose goes if nobody else wants it.
FoldActivation(g, i) ==
  LET n == g.nodes[i]
      r == CHOOSE r \in Producers(g, n.ins[1]) : TRUE
      t == CHOOSE t \in Producers(g, g.nodes[r].ins[1]) : TRUE
      x == g.nodes[t].ins[1]
  IN Once(Permuted(g.inits[n.ins[2]], WeightAxis(n),
                   RowPermutation(Env(g)[x].shape, g.nodes[t].perm)),
       LAMBDA new :
         RemoveIfUnused([g EXCEPT !.inits[n.ins[2]] = new,
                                  !.nodes[r] = SetInput(@, g.nodes[t].out, x)], t))

\* The layer's weight is itself the Transpose of a constant.
WeightFoldable(g, i) ==
  /\ ~IsInit(g, g.nodes[i].ins[2])
  /\ \E t \in Producers(g, g.nodes[i].ins[2]) :
       g.nodes[t].op = "Transpose" /\ IsInit(g, g.nodes[t].ins[1])

FoldWeight(g, i) ==
  LET n == g.nodes[i]
      t == CHOOSE t \in Producers(g, n.ins[2]) : TRUE
      src == g.nodes[t].ins[1]
      new == Append(src, "T")
  IN PruneInit(
       RemoveIfUnused(
         [g EXCEPT !.inits = With(@, new, Transposed(g.inits[src], g.nodes[t].perm)),
                   !.nodes[i] = SetInput(@, n.ins[2], new)], t),
       src)

Folds(g) == {i \in FcNodes(g) : Foldable(g, i) \/ WeightFoldable(g, i)}

FoldTranspose ==
  /\ phase = "transposes"
  /\ IF Folds(graph) = {} THEN phase' = "grouped" /\ UNCHANGED graph
     ELSE /\ \E i \in FirstOf(Folds(graph)) :
               graph' = IF Foldable(graph, i) THEN FoldActivation(graph, i)
                        ELSE FoldWeight(graph, i)
          /\ UNCHANGED phase
  /\ UNCHANGED <<original, strategy>>
-------------------------------------------------------------------------------
(* depthwise_to_dense                                                      *)

Grouped(g) == {i \in DOMAIN g.nodes : g.nodes[i].op = "Conv" /\ g.nodes[i].group > 1}

\* The groups' blocks on the diagonal, zeros elsewhere.
Dense(w, group) ==
  LET perOut == w.shape[1] \div group
      perIn == w.shape[2]
  IN Tensor(<<w.shape[1], perIn * group>>,
            LAMBDA i : IF i[2] \div perIn = i[1] \div perOut
                       THEN w.at[<<i[1], i[2] % perIn>>] ELSE 0)

Densify ==
  /\ phase = "grouped"
  /\ IF Grouped(graph) = {} THEN phase' = "done" /\ UNCHANGED graph
     ELSE \E i \in FirstOf(Grouped(graph)) :
       LET w == graph.nodes[i].ins[2]
           new == Append(w, "dense")
       IN IF ~IsInit(graph, w) \/ graph.inits[w].shape[1] % graph.nodes[i].group # 0 THEN Refuse
          ELSE /\ \E d \in {Dense(graph.inits[w], graph.nodes[i].group)} :
                    graph' = PruneInit([graph EXCEPT
                               !.inits = With(@, new, d),
                               !.nodes[i] = [SetInput(@, w, new) EXCEPT !.group = 1]], w)
               /\ UNCHANGED phase
  /\ UNCHANGED <<original, strategy>>
-------------------------------------------------------------------------------
(* A graph as the exporter makes it, and a rewriting takes it for granted. *)

Layers == {"MatMul", "Gemm", "Conv"}
Ops == Layers \cup {"GlobalAveragePool", "ReduceMean", "AveragePool", "MeanConv", "Transpose", "Reshape"}
Extents == Nat \ {0}
Made(g, i) == {<<"x">>} \cup DOMAIN g.inits \cup {g.nodes[j].out : j \in 1..i}

\* Each name is made once, before it is used.
InOrder(g) ==
  /\ DOMAIN g = {"shape", "inits", "outputs", "nodes"}
  /\ g.nodes \in Seq(Range(g.nodes))
  /\ <<"x">> \notin DOMAIN g.inits
  /\ g.outputs \subseteq Made(g, Len(g.nodes)) \ DOMAIN g.inits
  /\ \A i \in DOMAIN g.nodes : LET n == g.nodes[i] IN
       /\ n.op \in Ops /\ {"op", "ins", "out"} \subseteq DOMAIN n
       /\ 1..(IF n.op \in Layers THEN 2 ELSE 1) \subseteq DOMAIN n.ins
       /\ Range(n.ins) \subseteq Made(g, i - 1) /\ n.out \notin Made(g, i - 1)

\* A convolution has an image and, if constant, a weight with two axes.
ConvsFit(g) ==
  \A i \in DOMAIN g.nodes : LET n == g.nodes[i] IN n.op = "Conv" =>
    /\ "group" \in DOMAIN n /\ n.group \in Extents /\ n.ins[1] # n.ins[2]
    /\ \A a \in 2..3 : Env(g)[n.ins[1]].shape[a] \in Extents
    /\ IsInit(g, n.ins[2]) => LET s == g.inits[n.ins[2]].shape IN s \in Seq(Extents) /\ Len(s) = 2
    /\ Append(n.ins[2], "dense") \notin Made(g, Len(g.nodes))

\* A pool has an image of means with one divisor, its window fits on it, and
\* the stages of a cascade have names of their own.
PoolsFit(g) ==
  \A i \in DOMAIN g.nodes : g.nodes[i].op \in PoolOps =>
    LET n == g.nodes[i]
        t == Env(g)[n.ins[1]]
        k == Kernel(g, i)
        stages == Cascade(n, Factorize(k[1]), Factorize(k[2]))
    IN /\ t.shape \in [1..3 -> Extents]
       /\ LET d == t.at[<<0, 0, 0>>].by IN
            d \in Nat /\ \A c \in Indices(t.shape) : t.at[c].by = d
       /\ k \in [1..2 -> Extents] /\ Stride(g, i) \in [1..2 -> Extents]
       /\ k[1] <= t.shape[2] /\ k[2] <= t.shape[3]
       /\ Len(n.out) \in Nat /\ n.out = [a \in 1..Len(n.out) |-> n.out[a]]
       /\ \A j \in DOMAIN stages : stages[j].out \in Made(g, Len(g.nodes)) => stages[j].out = n.out

\* A Transpose that is folded turns an image, and nobody else reads the weight
\* or the flattened tensor; a turned constant has a name of its own.
FoldsFit(g) ==
  \A i \in FcNodes(g) : LET n == g.nodes[i] IN
    /\ n.op = "Gemm" => "transB" \in DOMAIN n
    /\ Foldable(g, i) =>
         /\ LET s == g.inits[n.ins[2]].shape IN s \in Seq(Extents) /\ Len(s) = 2
         /\ Consumers(g, n.ins[2]) = {i} /\ Consumers(g, n.ins[1]) = {i} /\ n.ins[1] \notin g.outputs
         /\ \A r \in Producers(g, n.ins[1]) : \A t \in Producers(g, g.nodes[r].ins[1]) :
              /\ g.nodes[t].perm \in Bijection(1..3, 1..3)
              /\ Env(g)[g.nodes[t].ins[1]].shape \in [1..3 -> Extents]
    /\ WeightFoldable(g, i) => \A t \in Producers(g, n.ins[2]) :
         LET src == g.nodes[t].ins[1]
             new == Append(src, "T")
         IN new \in Made(g, Len(g.nodes)) =>
              IsInit(g, new) /\ g.inits[new] = Transposed(g.inits[src], g.nodes[t].perm)

WellFormed(g) == InOrder(g) /\ ConvsFit(g) /\ PoolsFit(g) /\ FoldsFit(g)

\* A pool that becomes a ReduceMean has its whole image for a window, which the
\* code means to ask for (pool_decompose.py:242) and does not.
CoversImage(g, i) ==
  LET t == Env(g)[g.nodes[i].ins[1]] IN Kernel(g, i) = <<t.shape[2], t.shape[3]>>
ReducesWhole ==
  \A i \in Oversized(graph) :
    Chosen(Kernel(graph, i), Stride(graph, i)) \notin {"cascade", "conv"} => CoversImage(graph, i)
-------------------------------------------------------------------------------
(* check_coredla_friendly: what the compiler would still reject.           *)

PoolIssues(g) ==
  {i \in DOMAIN g.nodes :
     \/ /\ g.nodes[i].op = "AveragePool"
        /\ \E a \in 1..2 : g.nodes[i].k[a] > MaxWindow \/ g.nodes[i].s[a] > MaxStride
     \/ /\ g.nodes[i].op = "GlobalAveragePool"
        /\ \E a \in 1..2 : Env(g)[g.nodes[i].ins[1]].shape[a + 1] > MaxWindow}

TransposeIssues(g) ==
  {i \in FcNodes(g) : \E a \in DOMAIN g.nodes[i].ins :
     \E p \in Producers(g, g.nodes[i].ins[a]) :
       \/ g.nodes[p].op = "Transpose"
       \/ /\ g.nodes[p].op = "Reshape"
          /\ \E t \in Producers(g, g.nodes[p].ins[1]) : g.nodes[t].op = "Transpose"}

GraphInit ==
  /\ original \in Graphs
  /\ graph = original
  /\ strategy \in Strategies
  /\ phase = "pools"

GraphNext == DecomposePool \/ FoldTranspose \/ Densify

GraphSpec == GraphInit /\ [][GraphNext]_gvars
-------------------------------------------------------------------------------
\* "The mathematics is unchanged" (pool_decompose.py:10): at every step of the
\* rewriting the graph means what it meant; and when the rewriting is done no
\* pool is left that the compiler rejects, no grouped convolution, and no
\* Transpose at a layer that a rule would remove.
MathematicsUnchanged ==
  /\ WellFormed(graph) /\ ReducesWhole
  /\ Meaning(graph) = Meaning(original)
  /\ phase = "done" =>
       /\ PoolIssues(graph) = {} /\ Grouped(graph) = {}
       /\ \A i \in TransposeIssues(graph) : ~Foldable(graph, i) /\ ~WeightFoldable(graph, i)
===============================================================================
