----------------------------- MODULE MCHostPrograms --------------------------
(* The programs of the host that run to their end by themselves, on files,  *)
(* on a memory or on a register file.  They do not interact: each behaviour *)
(* is of one of them, with the others at rest.                              *)
EXTENDS Sweeps, Shmoo, Artifacts, Placement, GraphSurgery, Estimate, Microbenchmarks

VARIABLE program

hostVars == <<program, sweepVars, shmooVars, artifactVars, placeVars, gvars, estimateVars, l0vars, l2vars>>

-----------------------------------------------------------------------------
(* Sweeps: a grid of two points.                                            *)
MCGrid == <<"p", "q">>

-----------------------------------------------------------------------------
(* Placement: two good networks, one with two inputs, one whose             *)
(* configuration is not a whole number of words.                            *)
Region(n, o, s) == [name |-> n, offset |-> o, size |-> s]
Network(regions, inter, cf) == [lines |-> regions, inter |-> inter, configFilter |-> cf]

MCInfo(n) ==
  CASE n = "a" -> Network(<<Region("in", 0, 3), Region("Output", 3, 2), Region("Config", 0, 4),
                            Region("Filter", 4, 2), Region("Bias+Scale", 6, 0)>>, 0, 6)
    [] n = "b" -> Network(<<Region("in", 0, 4), Region("Output", 4, 1), Region("Config", 0, 6),
                            Region("Filter", 6, 1), Region("Bias+Scale", 7, 0)>>, 3, 7)
    [] n = "two" -> Network(<<Region("in", 0, 2), Region("in2", 2, 1), Region("Output", 3, 2),
                              Region("Config", 0, 4), Region("Filter", 4, 2), Region("Bias+Scale", 6, 0)>>, 0, 6)
    [] n = "odd" -> Network(<<Region("in", 0, 3), Region("Output", 3, 2), Region("Config", 0, 3),
                              Region("Filter", 4, 2), Region("Bias+Scale", 6, 0)>>, 0, 6)

-----------------------------------------------------------------------------
(* GraphSurgery: the shapes each rewriting is for, alone and in one graph.  *)
X == <<"x">>
Y == <<"y">>
Pool(i, o, k, s) == [op |-> "AveragePool", ins |-> <<i>>, out |-> o, k |-> k, s |-> s]
Net(shape, inits, outs, nodes) == [shape |-> shape, inits |-> inits, outputs |-> outs, nodes |-> nodes]
NoInits == [c \in {} |-> 0]
\* A weight whose elements are all different.
Weight(r, c) == Tensor(<<r, c>>, LAMBDA i : 1 + i[1] * c + i[2])
Pools == {Net(<<1, 6, 5>>, NoInits, {Y}, <<Pool(X, Y, k, s)>>) :
            k \in {<<2, 2>>, <<4, 4>>, <<6, 4>>, <<5, 1>>, <<6, 5>>}, s \in {<<1, 1>>, <<2, 5>>}}
         \cup {Net(<<1, 6, 5>>, NoInits, {Y}, <<Pool(X, Y, k, k)>>) :
            k \in {<<3, 2>>, <<4, 4>>, <<6, 4>>, <<5, 1>>, <<6, 5>>}}
Globals == {Net(<<2, h, w>>, NoInits, {Y}, <<[op |-> "GlobalAveragePool", ins |-> <<X>>, out |-> Y]>>) : h \in {2, 4}, w \in {3, 5}}
Fc(op, i, w, o, b) == [op |-> op, ins |-> <<i, w>>, out |-> o, transB |-> b]
Tr(i, o, p) == [op |-> "Transpose", ins |-> <<i>>, out |-> o, perm |-> p]
Flatten(i, o) == [op |-> "Reshape", ins |-> <<i>>, out |-> o]
Fcs == {Net(<<2, 1, 3>>, [c \in {<<"w">>} |-> Weight(IF b THEN 2 ELSE 6, IF b THEN 6 ELSE 2)], {Y} \cup keep,
   <<Tr(X, <<"t">>, p), Flatten(<<"t">>, <<"r">>), Fc("Gemm", <<"r">>, <<"w">>, Y, b)>>) : p \in {<<2,3,1>>,<<3,1,2>>,<<1,2,3>>}, b \in BOOLEAN, keep \in {{}, {<<"t">>}}}
\* The weight of the layer is a Transpose of a constant, which may have another reader.
WeightSide == {Net(<<2, 1, 3>>, [c \in {<<"w">>} |-> Weight(2, 6)], {Y} \cup {<<"z">> : i \in 1..n},
   <<Tr(<<"w">>, <<"t">>, <<2, 1>>), Flatten(X, <<"r">>), Fc("MatMul", <<"r">>, <<"t">>, Y, FALSE)>>
   \o [i \in 1..n |-> Fc("Gemm", <<"r">>, <<"w">>, <<"z">>, TRUE)]) : n \in 0..1}
Conv(i, w, o, g) == [op |-> "Conv", ins |-> <<i, w>>, out |-> o, group |-> g]
Groups == {Net(<<4, 1, 2>>, [c \in {<<"w">>, <<"v">>} |-> IF c = <<"w">> THEN Weight(4 * m, 4 \div g) ELSE Weight(2, 4 * m)], {Y},
   <<Conv(X, <<"w">>, <<"h">>, g), Conv(<<"h">>, <<"v">>, Y, 1)>>) : g \in {2, 4}, m \in {1, 2}}
\* Pool, transposed flatten and layer in one network.
Whole == {Net(<<2, 4, 4>>, [c \in {<<"w">>} |-> Weight(8, 2)], {Y},
  <<Pool(X, <<"p">>, <<4, 1>>, <<4, 1>>), Tr(<<"p">>, <<"t">>, <<2,3,1>>), Flatten(<<"t">>, <<"r">>), Fc("MatMul", <<"r">>, <<"w">>, Y, FALSE)>>)}
MCGraphs == Pools \cup Globals \cup Fcs \cup WeightSide \cup Groups \cup Whole
MCStrategies == {"auto", "conv", "cascade", "reduce_mean"}

-----------------------------------------------------------------------------
Blank == Net(<<1, 1, 1>>, NoInits, {}, <<>>)

HostInit ==
  /\ program \in {"sweeps", "shmoo", "image", "bundle", "inputs", "placement", "graph", "estimate", "l0", "l2"}
  /\ program = "shmoo" \/ (eye = [c \in Clocks |-> {}] /\ clock = 1)
  /\ program = "placement" \/ (network = "a" /\ align = 1 /\ guard = 2 /\ dumpdir = "own")
  /\ program = "l2" \/ (geometry = "banked" /\ outputReg = FALSE)
  /\ SweepsInit /\ ShmooInit /\ ArtifactsInit /\ PlaceInit /\ EstimateInit /\ L0Init /\ L2Init
  /\ \/ program = "graph" /\ GraphInit /\ ReducesWhole
     \/ program # "graph" /\ original = Blank /\ graph = Blank /\ strategy = "auto" /\ phase = "pools"

SweepsRun == program = "sweeps" /\ SweepsNext
  /\ UNCHANGED <<program, shmooVars, artifactVars, placeVars, gvars, estimateVars, l0vars, l2vars>>
ShmooRun == program = "shmoo" /\ ShmooNext
  /\ UNCHANGED <<program, sweepVars, artifactVars, placeVars, gvars, estimateVars, l0vars, l2vars>>
ArtifactsRun ==
  /\ \/ program = "image" /\ ImageNext
     \/ program = "bundle" /\ BundleNext
     \/ program = "inputs" /\ InputsNext
  /\ UNCHANGED <<program, sweepVars, shmooVars, placeVars, gvars, estimateVars, l0vars, l2vars>>
PlacementRun == program = "placement" /\ PlaceNext
  /\ UNCHANGED <<program, sweepVars, shmooVars, artifactVars, gvars, estimateVars, l0vars, l2vars>>
GraphRun == program = "graph" /\ GraphNext
  /\ UNCHANGED <<program, sweepVars, shmooVars, artifactVars, placeVars, estimateVars, l0vars, l2vars>>
EstimateRun == program = "estimate" /\ EstimateNext
  /\ UNCHANGED <<program, sweepVars, shmooVars, artifactVars, placeVars, gvars, l0vars, l2vars>>
L0Run == program = "l0" /\ L0Next
  /\ UNCHANGED <<program, sweepVars, shmooVars, artifactVars, placeVars, gvars, estimateVars, l2vars>>
L2Run == program = "l2" /\ L2Next
  /\ UNCHANGED <<program, sweepVars, shmooVars, artifactVars, placeVars, gvars, estimateVars, l0vars>>

HostSpec ==
  HostInit /\ [][SweepsRun \/ ShmooRun \/ ArtifactsRun \/ PlacementRun \/ GraphRun \/ EstimateRun \/ L0Run \/ L2Run]_hostVars
==============================================================================
