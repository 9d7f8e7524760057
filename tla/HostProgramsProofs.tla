-------------------------- MODULE HostProgramsProofs --------------------------
(***************************************************************************)
(* Proofs about the programs of the host that run to their end by          *)
(* themselves (Estimate, Sweeps, Shmoo, Artifacts, Placement, L0, L2).     *)
(***************************************************************************)
EXTENDS Estimate, Sweeps, Shmoo, Artifacts, Placement, Microbenchmarks,
        SequenceTheorems, FiniteSetTheorems, FunctionTheorems, TLAPS

\* A sequence with one element replaced.
LEMMA SeqExcept ==
  ASSUME NEW S, NEW s \in Seq(S), NEW k, NEW x \in S
  PROVE  /\ [s EXCEPT ![k] = x] \in Seq(S)
         /\ Len([s EXCEPT ![k] = x]) = Len(s) /\ Len(s) \in Nat
         /\ k \in 1 .. Len(s) => [s EXCEPT ![k] = x][k] = x
         /\ \A j \in 1 .. Len(s) : j # k => [s EXCEPT ![k] = x][j] = s[j]
<1> DEFINE r == [s EXCEPT ![k] = x]
<1>1. Len(s) \in Nat /\ DOMAIN s = 1 .. Len(s) /\ \A j \in 1 .. Len(s) : s[j] \in S
  BY ElementOfSeq
<1>2. r = [j \in 1 .. Len(s) |-> IF j = k THEN x ELSE s[j]]
  BY <1>1
<1> HIDE DEF r
<1>3. r \in [1 .. Len(s) -> S]
  BY <1>1, <1>2
<1>4. r \in Seq(S)
  BY <1>1, <1>3
<1>5. Len(r) = Len(s)
  BY <1>1, <1>3, <1>4
<1>6. QED
  BY <1>1, <1>2, <1>4, <1>5 DEF r

\* A set of naturals that is not empty has a least element; induction over
\* counters goes by it.
LEMMA Least ==
  ASSUME NEW S \in SUBSET Nat, S # {}
  PROVE  \E x \in S : \A y \in S : x <= y
<1> DEFINE R == OpToRel(<, Nat)
<1>1. IsWellFoundedOn(R, Nat)
  BY NatLessThanWellFounded, Zenon
<1>2. \A x, y \in Nat : x < y => <<x, y>> \in R
  BY Zenon DEF OpToRel
<1> HIDE DEF R
<1>3. PICK x \in S : \A y \in S : ~(<<y, x>> \in R)
  BY <1>1, WFMin, Zenon
<1>4. \A y \in S : ~(y < x)
  BY <1>2, <1>3, Zenon
<1>5. \A y \in S : x <= y
  BY <1>4
<1>6. QED
  BY <1>5, Zenon

\* What a number has left over a multiple of m, and a number by its parts.
LEMMA ModUnique ==
  ASSUME NEW m \in Nat \ {0}, NEW a \in Nat, NEW q \in Nat, NEW r \in 0 .. m - 1,
         a = m * q + r
  PROVE  a % m = r /\ a \div m = q
OBVIOUS

LEMMA ModParts ==
  ASSUME NEW m \in Nat \ {0}, NEW a \in Nat
  PROVE  a \div m \in Nat /\ a % m \in 0 .. m - 1 /\ a = m * (a \div m) + (a % m)
OBVIOUS

\* Of numbers below a bound one is the greatest.
LEMMA Greatest ==
  ASSUME NEW n \in Nat, NEW S \in SUBSET (0 .. n), S # {}
  PROVE  Max(S) \in S /\ \A x \in S : x <= Max(S)
<1> DEFINE T == {n - x : x \in S}
<1>1. T \in SUBSET Nat /\ T # {}
  <2>1. \A x \in S : n - x \in Nat
    OBVIOUS
  <2>2. QED
    BY <2>1, Zenon
<1>2. PICK t \in T : \A y \in T : t <= y
  BY <1>1, Least, Zenon
<1>3. PICK x \in S : t = n - x
  BY <1>2, Zenon
<1>4. \A y \in S : x >= y
  <2> SUFFICES ASSUME NEW y \in S PROVE x >= y
    OBVIOUS
  <2>1. n - y \in T
    BY Zenon
  <2>2. n - x <= n - y
    BY <1>2, <1>3, <2>1, Zenon
  <2>3. QED
    BY <2>2
<1>5. Max(S) \in S /\ \A y \in S : Max(S) >= y
  BY <1>4, Zenon DEF Max
<1>6. QED
  BY <1>5

-------------------------------------------------------------------------------
(* Estimate.                                                                *)

Generations == 1 .. MaxGenerations
InEstimate == {"compile", "parse", "hash", "hashBin", "write"}
Throughputs == {Line(i, w, part) : i \in Generations, w \in Bandwidths \cup {0}, part \in Nat}

\* Whatever an estimate under way relies on of the network's files is so unless
\* they were touched since it was compiled.
Untouched(c, i) == ~held[c].touched => ir.xml = i /\ ir.bin = i

EstimateTypes ==
  /\ ir \in [xml : Generations, bin : Generations, manifest : 0 .. MaxGenerations]
  /\ ir.bin <= ir.xml
  /\ workDirs \in Seq(SUBSET [merged : BOOLEAN, lines : Seq(Throughputs)])
  /\ estep \in [Callers -> InEstimate \cup {"idle"}]
  /\ held \in [Callers -> [membw : Bandwidths \cup {0}, dir : Nat,
                           fps : Throughputs \cup {<<>>}, xml : Nat, bin : Nat,
                           touched : BOOLEAN]]

\* No two estimates compile into one directory, and one that compiles finds its
\* own empty.
DirsInv ==
  /\ \A c \in Callers : estep[c] \in {"compile", "parse"} => held[c].dir \in 1 .. Len(workDirs)
  /\ \A c, d \in Callers :
       /\ estep[c] \in {"compile", "parse"} /\ estep[d] \in {"compile", "parse"}
       /\ held[c].dir = held[d].dir
       => c = d
  /\ \A c \in Callers : estep[c] = "compile" => workDirs[held[c].dir] = {}

\* What was compiled, and from what; what was parsed and hashed of it.
CallOk(c) ==
  /\ estep[c] = "parse" =>
       \E i \in Generations, n \in Splits, merged \in BOOLEAN :
         /\ workDirs[held[c].dir] = Reports0(i, held[c].membw, n, merged)
         /\ Untouched(c, i)
  /\ estep[c] \in {"hash", "hashBin", "write"} =>
       \E i \in Generations :
         /\ held[c].fps = Line(i, held[c].membw, WholeGraph)
         /\ Untouched(c, i)
         /\ ~held[c].touched /\ estep[c] \in {"hashBin", "write"} => held[c].xml = i
         /\ ~held[c].touched /\ estep[c] = "write" => held[c].bin = i

CallInv == \A c \in Callers : CallOk(c)

\* The last throughput of the only report, or of the merged one, is the whole graph's.
LEMMA ReportFacts ==
  ASSUME NEW i \in Generations, NEW w \in Bandwidths \cup {0},
         NEW n \in Nat \ {0}, NEW merged \in BOOLEAN
  PROVE  /\ Reports0(i, w, n, merged) \in SUBSET [merged : BOOLEAN, lines : Seq(Throughputs)]
         /\ \A r \in Reported(Reports0(i, w, n, merged)) : Headline(r) = Line(i, w, WholeGraph)
<1> DEFINE parts == [j \in 1 .. n |-> Line(i, w, j)]
           whole == <<Line(i, w, WholeGraph)>>
           both == parts \o whole
           single(part) == <<Line(i, w, part)>>
           reports == Reports0(i, w, n, merged)
<1>1. \A part \in Nat : Line(i, w, part) \in Throughputs
  BY DEF Throughputs
<1>2. \A part \in Nat : /\ single(part) \in Seq(Throughputs)
                        /\ Len(single(part)) = 1 /\ single(part)[1] = Line(i, w, part)
  BY <1>1
<1>3. parts \in Seq(Throughputs) /\ whole \in Seq(Throughputs)
  <2>1. \A j \in 1 .. n : Line(i, w, j) \in Throughputs
    BY <1>1
  <2>2. parts \in [1 .. n -> Throughputs]
    BY <2>1
  <2>3. whole \in Seq(Throughputs)
    BY <1>1 DEF WholeGraph
  <2>4. QED
    BY <2>2, <2>3
<1>4. Len(whole) = 1 /\ whole[1] = Line(i, w, WholeGraph)
  OBVIOUS
<1> HIDE DEF parts, whole
<1>5. both \in Seq(Throughputs) /\ Len(both) \in Nat /\ both[Len(both)] = Line(i, w, WholeGraph)
  <2> DEFINE k == Len(parts)
             m == Len(whole)
  <2>1. /\ both \in Seq(Throughputs) /\ Len(both) = k + m /\ k \in Nat /\ m \in Nat
        /\ \A x \in 1 .. k + m : both[x] = IF x <= k THEN parts[x] ELSE whole[x - k]
    BY <1>3, ConcatProperties
  <2>2. m = 1
    BY <1>4
  <2> HIDE DEF k, m, both
  <2>3. both[k + 1] = whole[(k + 1) - k] /\ (k + 1) - k = 1
    BY <2>1, <2>2
  <2>4. QED
    BY <1>4, <2>1, <2>2, <2>3
<1> HIDE DEF both
<1>6. \A r \in reports :
        \/ r = [merged |-> TRUE, lines |-> both]
        \/ \E part \in Nat : r = [merged |-> FALSE, lines |-> single(part)]
                             /\ (n = 1 => part = WholeGraph) /\ (n # 1 => part \in 1 .. n)
  BY DEF Reports0, parts, whole, both, WholeGraph
<1>7. reports \in SUBSET [merged : BOOLEAN, lines : Seq(Throughputs)]
  <2>1. SUFFICES ASSUME NEW r \in reports
                 PROVE  r \in [merged : BOOLEAN, lines : Seq(Throughputs)]
    OBVIOUS
  <2>2. CASE r = [merged |-> TRUE, lines |-> both]
    BY <1>5, <2>2
  <2>3. CASE r # [merged |-> TRUE, lines |-> both]
    <3>1. PICK part \in Nat : r = [merged |-> FALSE, lines |-> single(part)]
      BY <1>6, <2>1, <2>3
    <3>2. single(part) \in Seq(Throughputs)
      BY <1>2
    <3>3. QED
      BY <3>1, <3>2
  <2>4. QED
    BY <2>2, <2>3
<1>8. ASSUME NEW r \in Reported(reports)
      PROVE  Headline(r) = Line(i, w, WholeGraph)
  <2>1. r \in reports /\ (r.merged \/ Cardinality(reports) = 1)
    BY <1>8 DEF Reported
  <2>2. CASE r = [merged |-> TRUE, lines |-> both]
    BY <1>5, <2>2 DEF Headline
  <2>3. CASE n = 1 /\ r # [merged |-> TRUE, lines |-> both]
    <3>1. r.lines = single(WholeGraph)
      BY <1>6, <2>1, <2>3 DEF WholeGraph
    <3>2. QED
      BY <1>2, <3>1 DEF Headline, WholeGraph
  <2>4. CASE n # 1 /\ r # [merged |-> TRUE, lines |-> both]
    <3>1. ~r.merged /\ Cardinality(reports) = 1
      BY <1>6, <2>1, <2>4
    <3>2. \A x \in reports : ~x.merged
      BY <1>8, <3>1 DEF Reported
    <3> DEFINE f == [j \in 1 .. n |-> [merged |-> FALSE, lines |-> single(j)]]
    <3>3. reports = {f[j] : j \in 1 .. n}
      <4>1. \A j \in 1 .. n : f[j] \in reports
        BY <2>4 DEF Reports0
      <4>2. ASSUME NEW x \in reports
            PROVE  \E j \in 1 .. n : x = f[j]
        <5>1. x # [merged |-> TRUE, lines |-> both]
          BY <3>2
        <5>2. PICK j \in 1 .. n : x = [merged |-> FALSE, lines |-> single(j)]
          BY <1>6, <2>4, <5>1
        <5>3. QED
          BY <5>2
      <4> HIDE DEF f
      <4>3. QED
        BY <4>1, <4>2
    <3>4. n \in Int /\ 1 \in 1 .. n /\ 2 \in 1 .. n
      BY <2>4
    <3>5. f[1] # f[2]
      <4>1. Line(i, w, 1) # Line(i, w, 2)
        BY DEF Line
      <4>2. single(1) # single(2)
        BY <1>2, <4>1
      <4>3. QED
        BY <3>4, <4>2
    <3>6. DOMAIN f = 1 .. n
      OBVIOUS
    <3> HIDE DEF f, reports
    <3>7. IsFiniteSet(reports)
      <4>1. f \in Surjection(1 .. n, reports)
        <5>1. f = [j \in 1 .. n |-> f[j]]
          BY DEF f
        <5>2. QED
          BY <3>3, <3>6, <5>1 DEF Surjection
      <4>2. IsFiniteSet(1 .. n)
        BY <3>4, FS_Interval
      <4>3. QED
        BY <4>1, <4>2, FS_Surjection
    <3>8. PICK x : reports = {x}
      BY <3>1, <3>7, FS_Singleton
    <3>9. QED
      BY <3>3, <3>4, <3>5, <3>8
  <2>5. QED
    BY <2>2, <2>3, <2>4
<1>9. QED
  BY <1>7, <1>8

EstimateInv == EstimateTypes /\ DirsInv /\ CallInv /\ EstimateIsTraceable

\* No estimate has begun.
LEMMA InitEstimate == EstimateInit => EstimateInv
<1>1. SUFFICES ASSUME EstimateInit
               PROVE  EstimateInv
  OBVIOUS
<1>2. 1 \in Generations /\ 1 \in 0 .. MaxGenerations
  BY EstimateAssumption DEF Generations
<1>3. estep = [c \in Callers |-> "idle"] /\ held = [c \in Callers |-> NoCall] /\ estimates = {}
  BY <1>1 DEF EstimateInit
<1>4. EstimateTypes
  <2>1. ir \in [xml : Generations, bin : Generations, manifest : 0 .. MaxGenerations]
    BY <1>1, <1>2 DEF EstimateInit
  <2>2. ir.bin <= ir.xml
    BY <1>1 DEF EstimateInit
  <2>3. workDirs \in Seq(SUBSET [merged : BOOLEAN, lines : Seq(Throughputs)])
    BY <1>1 DEF EstimateInit
  <2>4. estep \in [Callers -> InEstimate \cup {"idle"}]
    BY <1>3 DEF InEstimate
  <2>5. NoCall \in [membw : Bandwidths \cup {0}, dir : Nat,
                    fps : Throughputs \cup {<<>>}, xml : Nat, bin : Nat, touched : BOOLEAN]
    BY DEF NoCall
  <2>6. QED
    BY <1>3, <2>1, <2>2, <2>3, <2>4, <2>5 DEF EstimateTypes
<1>5. DirsInv /\ CallInv
  BY <1>3 DEF DirsInv, CallInv, CallOk
<1>6. EstimateIsTraceable
  BY <1>3 DEF EstimateIsTraceable
<1>7. QED
  BY <1>4, <1>5, <1>6 DEF EstimateInv

\* What a step of caller c does to its own place and variables it does to nobody
\* else's.
LEMMA ToFacts ==
  ASSUME EstimateTypes, NEW c \in Callers,
         NEW step \in InEstimate \cup {"idle"},
         NEW call \in [membw : Bandwidths \cup {0}, dir : Nat,
                       fps : Throughputs \cup {<<>>}, xml : Nat, bin : Nat, touched : BOOLEAN],
         To(c, step, call)
  PROVE  /\ estep' \in [Callers -> InEstimate \cup {"idle"}]
         /\ held' \in [Callers -> [membw : Bandwidths \cup {0}, dir : Nat,
                                   fps : Throughputs \cup {<<>>}, xml : Nat, bin : Nat,
                                   touched : BOOLEAN]]
         /\ estep'[c] = step /\ held'[c] = call
         /\ \A d \in Callers \ {c} : estep'[d] = estep[d] /\ held'[d] = held[d]
BY DEF To, EstimateTypes

\* A step of another caller that leaves a caller's directory and the network alone
\* keeps what it relies on.
LEMMA OthersKeep ==
  ASSUME EstimateInv, NEW d \in Callers, estep'[d] = estep[d], held'[d] = held[d],
         ir' = ir,
         estep[d] \in {"compile", "parse"} => workDirs'[held[d].dir] = workDirs[held[d].dir]
  PROVE  CallOk(d)'
<1>1. CallOk(d)
  BY DEF EstimateInv, CallInv
<1>2. CASE estep[d] = "parse"
  BY <1>1, <1>2 DEF CallOk, Untouched
<1>3. CASE estep[d] # "parse"
  BY <1>1, <1>3 DEF CallOk, Untouched
<1>4. QED
  BY <1>2, <1>3

\* A caller that gives up, is killed or begins nothing new keeps everything.
LEMMA IdleKeeps ==
  ASSUME EstimateInv, NEW c \in Callers, GiveUpEstimate(c), UNCHANGED <<ir, estimates>>,
         workDirs' \in Seq(SUBSET [merged : BOOLEAN, lines : Seq(Throughputs)]),
         Len(workDirs') = Len(workDirs),
         \A d \in Callers \ {c} : estep[d] \in {"compile", "parse"} =>
            workDirs'[held[d].dir] = workDirs[held[d].dir]
  PROVE  EstimateInv'
<1>1. NoCall \in [membw : Bandwidths \cup {0}, dir : Nat,
                  fps : Throughputs \cup {<<>>}, xml : Nat, bin : Nat, touched : BOOLEAN]
  BY DEF NoCall
<1>2. /\ estep' \in [Callers -> InEstimate \cup {"idle"}]
      /\ held' \in [Callers -> [membw : Bandwidths \cup {0}, dir : Nat,
                                fps : Throughputs \cup {<<>>}, xml : Nat, bin : Nat,
                                touched : BOOLEAN]]
      /\ estep'[c] = "idle"
      /\ \A d \in Callers \ {c} : estep'[d] = estep[d] /\ held'[d] = held[d]
  BY <1>1, ToFacts DEF GiveUpEstimate, EstimateInv
<1>3. EstimateTypes'
  BY <1>2 DEF EstimateInv, EstimateTypes
<1>4. DirsInv'
  BY <1>2 DEF EstimateInv, DirsInv
<1>5. CallInv'
  <2>1. CallOk(c)'
    BY <1>2 DEF CallOk
  <2>2. \A d \in Callers \ {c} : CallOk(d)'
    BY <1>2, OthersKeep
  <2>3. QED
    BY <2>1, <2>2 DEF CallInv
<1>6. EstimateIsTraceable'
  BY DEF EstimateInv, EstimateIsTraceable
<1>7. QED
  BY <1>3, <1>4, <1>5, <1>6 DEF EstimateInv

\* The variables of an estimate that begins.
LEMMA BeginCall ==
  ASSUME NEW w, NEW k
  PROVE  [NoCall EXCEPT !.membw = w, !.dir = k]
           = [membw |-> w, dir |-> k, fps |-> <<>>, xml |-> 0, bin |-> 0, touched |-> FALSE]
<1> DEFINE zero == 0
           none == <<>>
           no == FALSE
           call == [membw |-> zero, dir |-> zero, fps |-> none, xml |-> zero, bin |-> zero, touched |-> no]
<1>1. NoCall = call
  BY DEF NoCall
<1> HIDE DEF zero, none, no
<1> DEFINE one == [membw |-> w, dir |-> zero, fps |-> none, xml |-> zero, bin |-> zero, touched |-> no]
           two == [membw |-> w, dir |-> k, fps |-> none, xml |-> zero, bin |-> zero, touched |-> no]
<1>2. [call EXCEPT !.membw = w] = one
  OBVIOUS
<1>3. [one EXCEPT !.dir = k] = two
  OBVIOUS
<1> HIDE DEF call, one
<1>4. [NoCall EXCEPT !.membw = w, !.dir = k] = two
  BY <1>1, <1>2, <1>3
<1>5. QED
  BY <1>4 DEF zero, none, no

\* Every step of an estimate, and every change of the network beside it.
LEMMA NextEstimate == EstimateInv /\ [EstimateNext]_estimateVars => EstimateInv'
<1>1. SUFFICES ASSUME EstimateInv, [EstimateNext]_estimateVars
               PROVE  EstimateInv'
  OBVIOUS
<1> DEFINE DirSet == SUBSET [merged : BOOLEAN, lines : Seq(Throughputs)]
           Calls == [membw : Bandwidths \cup {0}, dir : Nat,
                     fps : Throughputs \cup {<<>>}, xml : Nat, bin : Nat, touched : BOOLEAN]
<1>2. /\ workDirs \in Seq(DirSet) /\ Len(workDirs) \in Nat
      /\ DOMAIN workDirs = 1 .. Len(workDirs)
      /\ estep \in [Callers -> InEstimate \cup {"idle"}]
      /\ held \in [Callers -> Calls]
      /\ ir \in [xml : Generations, bin : Generations, manifest : 0 .. MaxGenerations]
      /\ ir.bin <= ir.xml
      /\ Generations \subseteq Nat
  BY <1>1 DEF EstimateInv, EstimateTypes, Generations
<1>3. ASSUME NEW c \in Callers, NEW keep \in BOOLEAN
      PROVE  /\ Cleaned(c, keep) \in Seq(DirSet) /\ Len(Cleaned(c, keep)) = Len(workDirs)
             /\ estep[c] \in {"compile", "parse"} =>
                  \A d \in Callers \ {c} : estep[d] \in {"compile", "parse"} =>
                     Cleaned(c, keep)[held[d].dir] = workDirs[held[d].dir]
  <2>1. CASE keep
    BY <1>2, <2>1 DEF Cleaned
  <2>2. CASE ~keep
    <3>1. Cleaned(c, keep) = [workDirs EXCEPT ![held[c].dir] = {}]
      BY <2>2 DEF Cleaned
    <3>2. {} \in DirSet
      OBVIOUS
    <3> HIDE DEF DirSet
    <3>3. /\ Cleaned(c, keep) \in Seq(DirSet) /\ Len(Cleaned(c, keep)) = Len(workDirs)
          /\ \A j \in 1 .. Len(workDirs) : j # held[c].dir => Cleaned(c, keep)[j] = workDirs[j]
      BY <1>2, <3>1, <3>2, SeqExcept
    <3>4. estep[c] \in {"compile", "parse"} =>
            \A d \in Callers \ {c} : estep[d] \in {"compile", "parse"} =>
               held[d].dir # held[c].dir /\ held[d].dir \in 1 .. Len(workDirs)
      BY <1>1, <1>2, <1>3 DEF EstimateInv, DirsInv
    <3>5. QED
      BY <3>3, <3>4
  <2>3. QED
    BY <2>1, <2>2
<1>4. ASSUME NEW c \in Callers, NEW w \in Bandwidths, BeginEstimate(c, w)
      PROVE  EstimateInv'
  <2>1. /\ workDirs' = Append(workDirs, {})
        /\ UNCHANGED <<ir, estimates>>
        /\ estep[c] = "idle"
        /\ To(c, "compile", [NoCall EXCEPT !.membw = w, !.dir = Len(workDirs) + 1])
    BY <1>4 DEF BeginEstimate, WorkDir
  <2> DEFINE call == [NoCall EXCEPT !.membw = w, !.dir = Len(workDirs) + 1]
  <2>2. /\ call \in Calls /\ call.membw = w /\ call.dir = Len(workDirs) + 1
        /\ call.touched = FALSE
    <3>1. call = [membw |-> w, dir |-> Len(workDirs) + 1, fps |-> <<>>, xml |-> 0, bin |-> 0,
                  touched |-> FALSE]
      BY BeginCall
    <3>2. Len(workDirs) + 1 \in Nat
      BY <1>2
    <3> HIDE DEF call
    <3>3. QED
      BY <1>4, <3>1, <3>2
  <2> HIDE DEF call
  <2>3. /\ estep' \in [Callers -> InEstimate \cup {"idle"}] /\ held' \in [Callers -> Calls]
        /\ estep'[c] = "compile" /\ held'[c] = call
        /\ \A d \in Callers \ {c} : estep'[d] = estep[d] /\ held'[d] = held[d]
    BY <1>1, <1>4, <2>1, <2>2, ToFacts, ZenonT(60) DEF EstimateInv, call, InEstimate
  <2>4. /\ workDirs' \in Seq(DirSet) /\ Len(workDirs') = Len(workDirs) + 1
        /\ \A k \in 1 .. Len(workDirs) : workDirs'[k] = workDirs[k]
        /\ workDirs'[Len(workDirs) + 1] = {}
    <3>1. {} \in DirSet
      OBVIOUS
    <3>2. QED
      BY <1>2, <2>1, <3>1, AppendProperties
  <2>5. EstimateTypes'
    BY <1>2, <2>1, <2>3, <2>4 DEF EstimateTypes
  <2>6. \A d \in Callers \ {c} : estep[d] \in {"compile", "parse"} =>
          /\ held[d].dir \in 1 .. Len(workDirs)
          /\ workDirs'[held[d].dir] = workDirs[held[d].dir]
    BY <1>1, <2>4 DEF EstimateInv, DirsInv
  <2>7. DirsInv'
    <3>1. \A d \in Callers : estep'[d] \in {"compile", "parse"} =>
            held'[d].dir \in 1 .. Len(workDirs')
      <4>1. Len(workDirs) \in Nat /\ Len(workDirs') = Len(workDirs) + 1
        BY <1>2, <2>4
      <4>2. held'[c].dir = Len(workDirs) + 1
        BY <2>2, <2>3
      <4>3. \A d \in Callers \ {c} : estep'[d] \in {"compile", "parse"} =>
              held'[d].dir \in 1 .. Len(workDirs)
        BY <2>3, <2>6
      <4>4. QED
        BY <4>1, <4>2, <4>3
    <3>2. \A d \in Callers \ {c} : estep'[d] \in {"compile", "parse"} => held'[d].dir # held'[c].dir
      BY <1>2, <2>2, <2>3, <2>6
    <3>3. \A d, e \in Callers : /\ estep'[d] \in {"compile", "parse"} /\ estep'[e] \in {"compile", "parse"}
                                /\ held'[d].dir = held'[e].dir
                                => d = e
      BY <1>1, <2>3, <3>2 DEF EstimateInv, DirsInv
    <3>4. \A d \in Callers : estep'[d] = "compile" => workDirs'[held'[d].dir] = {}
      BY <1>1, <2>2, <2>3, <2>4, <2>6 DEF EstimateInv, DirsInv
    <3>5. QED
      BY <3>1, <3>3, <3>4 DEF DirsInv
  <2>8. CallInv'
    <3>1. CallOk(c)'
      BY <2>3 DEF CallOk
    <3>2. \A d \in Callers \ {c} : CallOk(d)'
      BY <1>1, <2>1, <2>3, <2>6, OthersKeep
    <3>3. QED
      BY <3>1, <3>2 DEF CallInv
  <2>9. QED
    BY <1>1, <2>1, <2>5, <2>7, <2>8 DEF EstimateInv, EstimateIsTraceable
<1>5. ASSUME NEW c \in Callers, CompileEstimate(c)
      PROVE  EstimateInv'
  <2> DEFINE dir == held[c].dir
             call == [held[c] EXCEPT !.touched = FALSE]
  <2>1. PICK n \in Splits, merged \in BOOLEAN :
          workDirs' = [workDirs EXCEPT ![dir] = @ \cup Reports0(ir.xml, held[c].membw, n, merged)]
    BY <1>5 DEF CompileEstimate
  <2>2. /\ estep[c] = "compile" /\ ir.xml = ir.bin
        /\ To(c, "parse", call)
        /\ UNCHANGED <<ir, estimates>>
    BY <1>5 DEF CompileEstimate
  <2>3. call \in Calls /\ call.membw = held[c].membw /\ call.dir = dir /\ call.touched = FALSE
    BY <1>2, <1>5
  <2> HIDE DEF call
  <2>4. /\ estep' \in [Callers -> InEstimate \cup {"idle"}] /\ held' \in [Callers -> Calls]
        /\ estep'[c] = "parse" /\ held'[c] = call
        /\ \A d \in Callers \ {c} : estep'[d] = estep[d] /\ held'[d] = held[d]
    BY <1>1, <1>5, <2>2, <2>3, ToFacts DEF EstimateInv, InEstimate
  <2>5. dir \in 1 .. Len(workDirs) /\ workDirs[dir] = {}
    BY <1>1, <1>5, <2>2 DEF EstimateInv, DirsInv
  <2>6. Reports0(ir.xml, held[c].membw, n, merged) \in DirSet
    <3>1. /\ ir.xml \in Generations /\ held[c].membw \in Bandwidths \cup {0}
          /\ n \in Nat \ {0} /\ merged \in BOOLEAN
      BY <1>2, <1>5, <2>1, EstimateAssumption
    <3>2. QED
      BY <3>1, ReportFacts
  <2>7. /\ workDirs' \in Seq(DirSet) /\ Len(workDirs') = Len(workDirs)
        /\ workDirs'[dir] = Reports0(ir.xml, held[c].membw, n, merged)
        /\ \A k \in 1 .. Len(workDirs) : k # dir => workDirs'[k] = workDirs[k]
    <3> DEFINE new == Reports0(ir.xml, held[c].membw, n, merged)
    <3>1. workDirs[dir] \cup new = new
      BY <2>5
    <3>2. dir \in DOMAIN workDirs
      BY <1>2, <2>5
    <3> HIDE DEF DirSet, dir, new
    <3>3. workDirs' = [workDirs EXCEPT ![dir] = new]
      BY <2>1, <3>1, <3>2 DEF new
    <3>4. new \in DirSet
      BY <2>6 DEF new
    <3>5. QED
      BY <1>2, <2>5, <3>3, <3>4, SeqExcept DEF new
  <2>8. EstimateTypes'
    BY <1>2, <2>2, <2>4, <2>7 DEF EstimateTypes
  <2>9. \A d \in Callers \ {c} : estep[d] \in {"compile", "parse"} =>
          /\ held[d].dir \in 1 .. Len(workDirs) /\ held[d].dir # dir
          /\ workDirs'[held[d].dir] = workDirs[held[d].dir]
    BY <1>1, <1>5, <2>2, <2>7 DEF EstimateInv, DirsInv
  <2>10. DirsInv'
    <3>1. \A d \in Callers : estep'[d] \in {"compile", "parse"} =>
            held'[d].dir \in 1 .. Len(workDirs')
      BY <2>3, <2>4, <2>5, <2>7, <2>9
    <3>2. \A d, e \in Callers : /\ estep'[d] \in {"compile", "parse"} /\ estep'[e] \in {"compile", "parse"}
                                /\ held'[d].dir = held'[e].dir
                                => d = e
      <4>1. \A d, e \in Callers : /\ estep[d] \in {"compile", "parse"} /\ estep[e] \in {"compile", "parse"}
                                  /\ held[d].dir = held[e].dir
                                  => d = e
        BY <1>1 DEF EstimateInv, DirsInv
      <4>2. \A d \in Callers :
              /\ held'[d].dir = held[d].dir
              /\ estep'[d] \in {"compile", "parse"} => estep[d] \in {"compile", "parse"}
        BY <2>2, <2>3, <2>4
      <4>3. QED
        BY <4>1, <4>2
    <3>3. \A d \in Callers : estep'[d] = "compile" => workDirs'[held'[d].dir] = {}
      <4>1. \A d \in Callers : estep[d] = "compile" => workDirs[held[d].dir] = {}
        BY <1>1 DEF EstimateInv, DirsInv
      <4>2. QED
        BY <2>4, <2>9, <4>1
    <3>4. QED
      BY <3>1, <3>2, <3>3 DEF DirsInv
  <2>11. CallInv'
    <3>1. CallOk(c)'
      <4>1. ir.xml \in Generations /\ ir' = ir /\ ir'.xml = ir.xml /\ ir'.bin = ir.xml
        BY <1>2, <2>2
      <4>2. workDirs'[held'[c].dir] = Reports0(ir.xml, held'[c].membw, n, merged)
        BY <2>3, <2>4, <2>7
      <4>3. QED
        BY <2>1, <2>4, <4>1, <4>2 DEF CallOk, Untouched
    <3>2. \A d \in Callers \ {c} : CallOk(d)'
      BY <1>1, <2>2, <2>4, <2>9, OthersKeep
    <3>3. QED
      BY <3>1, <3>2 DEF CallInv
  <2>12. QED
    BY <1>1, <2>2, <2>8, <2>10, <2>11 DEF EstimateInv, EstimateIsTraceable
<1>6. ASSUME NEW c \in Callers, NEW keep \in BOOLEAN, CompileFails(c, keep)
      PROVE  EstimateInv'
  BY <1>1, <1>3, <1>6, IdleKeeps DEF CompileFails
<1>7. ASSUME NEW c \in Callers, NEW keep \in BOOLEAN, ParseReport(c, keep)
      PROVE  EstimateInv'
  <2>1. /\ estep[c] = "parse" /\ workDirs' = Cleaned(c, keep) /\ UNCHANGED <<ir, estimates>>
    BY <1>7 DEF ParseReport
  <2>2. CASE GiveUpEstimate(c)
    BY <1>1, <1>3, <1>7, <2>1, <2>2, IdleKeeps
  <2>3. CASE \E r \in Reported(workDirs[held[c].dir]) : To(c, "hash", [held[c] EXCEPT !.fps = Headline(r)])
    <3>1. PICK r \in Reported(workDirs[held[c].dir]) : To(c, "hash", [held[c] EXCEPT !.fps = Headline(r)])
      BY <2>3
    <3>2. PICK i \in Generations, n \in Splits, merged \in BOOLEAN :
            /\ workDirs[held[c].dir] = Reports0(i, held[c].membw, n, merged)
            /\ Untouched(c, i)
      BY <1>1, <1>7, <2>1 DEF EstimateInv, CallInv, CallOk
    <3>3. Headline(r) = Line(i, held[c].membw, WholeGraph)
      <4>1. n \in Nat \ {0} /\ held[c].membw \in Bandwidths \cup {0}
        BY <1>2, <1>7, <3>2, EstimateAssumption
      <4>2. QED
        BY <3>1, <3>2, <4>1, ReportFacts
    <3> DEFINE call == [held[c] EXCEPT !.fps = Headline(r)]
    <3>4. Headline(r) \in Throughputs
      <4>1. WholeGraph \in Nat /\ held[c].membw \in Bandwidths \cup {0}
        BY <1>2, <1>7 DEF WholeGraph
      <4> DEFINE w == held[c].membw
                 part == WholeGraph
      <4>2. w \in Bandwidths \cup {0} /\ part \in Nat /\ Headline(r) = Line(i, w, part)
        BY <3>3, <4>1
      <4> HIDE DEF w, part
      <4>3. QED
        BY <4>2 DEF Throughputs
    <3>5. /\ call \in Calls /\ call.membw = held[c].membw /\ call.touched = held[c].touched
          /\ call.fps = Headline(r)
      <4>1. held[c] \in Calls
        BY <1>2, <1>7
      <4> DEFINE h == held[c]
                 line == Headline(r)
      <4>2. h \in Calls /\ line \in Throughputs /\ call = [h EXCEPT !.fps = line]
        BY <3>4, <4>1
      <4> HIDE DEF h, line, call
      <4>3. QED
        BY <4>2 DEF h, line
    <3> HIDE DEF call
    <3>6. /\ estep' \in [Callers -> InEstimate \cup {"idle"}] /\ held' \in [Callers -> Calls]
          /\ estep'[c] = "hash" /\ held'[c] = call
          /\ \A d \in Callers \ {c} : estep'[d] = estep[d] /\ held'[d] = held[d]
      BY <1>1, <1>7, <3>1, <3>5, ToFacts, SMTT(30) DEF EstimateInv, InEstimate, call
    <3>7. /\ workDirs' \in Seq(DirSet) /\ Len(workDirs') = Len(workDirs)
          /\ \A d \in Callers \ {c} : estep[d] \in {"compile", "parse"} =>
               workDirs'[held[d].dir] = workDirs[held[d].dir]
      BY <1>3, <1>7, <2>1
    <3>8. EstimateTypes'
      BY <1>2, <2>1, <3>6, <3>7 DEF EstimateTypes
    <3>9. DirsInv'
      BY <1>1, <2>1, <3>6, <3>7, ZenonT(60) DEF EstimateInv, DirsInv
    <3>10. CallInv'
      <4>1. CallOk(c)'
        BY <2>1, <3>2, <3>3, <3>5, <3>6 DEF CallOk, Untouched
      <4>2. \A d \in Callers \ {c} : CallOk(d)'
        BY <1>1, <2>1, <3>6, <3>7, OthersKeep
      <4>3. QED
        BY <4>1, <4>2 DEF CallInv
    <3>11. QED
      BY <1>1, <2>1, <3>8, <3>9, <3>10 DEF EstimateInv, EstimateIsTraceable
  <2>4. QED
    BY <1>7, <2>2, <2>3 DEF ParseReport
<1>8. ASSUME NEW c \in Callers, HashXml(c) \/ HashBin(c)
      PROVE  EstimateInv'
  <2> DEFINE step == IF estep[c] = "hash" THEN "hashBin" ELSE "write"
             call == IF estep[c] = "hash" THEN [held[c] EXCEPT !.xml = ir.xml]
                     ELSE [held[c] EXCEPT !.bin = ir.bin]
  <2>1. /\ estep[c] \in {"hash", "hashBin"} /\ To(c, step, call)
        /\ UNCHANGED <<ir, workDirs, estimates>>
    BY <1>8 DEF HashXml, HashBin
  <2>2. /\ call \in Calls /\ call.membw = held[c].membw /\ call.touched = held[c].touched
        /\ call.fps = held[c].fps
        /\ estep[c] = "hash" => call.xml = ir.xml
        /\ estep[c] = "hashBin" => call.xml = held[c].xml /\ call.bin = ir.bin
    BY <1>2, <1>8, <2>1, ZenonT(60)
  <2>3. step \in InEstimate /\ (estep[c] = "hash" => step = "hashBin") /\ (estep[c] = "hashBin" => step = "write")
    BY <2>1 DEF InEstimate
  <2> HIDE DEF call, step
  <2>4. /\ estep' \in [Callers -> InEstimate \cup {"idle"}] /\ held' \in [Callers -> Calls]
        /\ estep'[c] = step /\ held'[c] = call
        /\ \A d \in Callers \ {c} : estep'[d] = estep[d] /\ held'[d] = held[d]
    BY <1>1, <1>8, <2>1, <2>2, <2>3, ToFacts DEF EstimateInv
  <2>5. EstimateTypes'
    BY <1>2, <2>1, <2>4 DEF EstimateTypes
  <2>6. DirsInv'
    BY <1>1, <2>1, <2>3, <2>4, ZenonT(60) DEF EstimateInv, DirsInv
  <2>7. CallInv'
    <3>1. CallOk(c)'
      <4>1. PICK i \in Generations :
              /\ held[c].fps = Line(i, held[c].membw, WholeGraph)
              /\ Untouched(c, i)
              /\ ~held[c].touched /\ estep[c] = "hashBin" => held[c].xml = i
        BY <1>1, <1>8, <2>1 DEF EstimateInv, CallInv, CallOk
      <4>2. CASE estep[c] = "hash"
        BY <2>1, <2>2, <2>3, <2>4, <4>1, <4>2 DEF CallOk, Untouched
      <4>3. CASE estep[c] = "hashBin"
        BY <2>1, <2>2, <2>3, <2>4, <4>1, <4>3 DEF CallOk, Untouched
      <4>4. QED
        BY <2>1, <4>2, <4>3
    <3>2. \A d \in Callers \ {c} : CallOk(d)'
      BY <1>1, <2>1, <2>4, OthersKeep
    <3>3. QED
      BY <3>1, <3>2 DEF CallInv
  <2>8. QED
    BY <1>1, <2>1, <2>5, <2>6, <2>7 DEF EstimateInv, EstimateIsTraceable
<1>9. ASSUME NEW c \in Callers, VersionFails(c) \/ KillEstimate(c)
      PROVE  EstimateInv'
  BY <1>1, <1>2, <1>9, IdleKeeps DEF VersionFails, KillEstimate
<1>10. ASSUME NEW c \in Callers, WriteEstimate(c)
       PROVE  EstimateInv'
  <2>1. /\ estep[c] = "write" /\ GiveUpEstimate(c)
        /\ UNCHANGED <<ir, workDirs>>
        /\ estimates' \subseteq estimates \cup {Result(c)}
    BY <1>10 DEF WriteEstimate, GiveUpEstimate
  <2>2. PICK i \in Generations :
          /\ held[c].fps = Line(i, held[c].membw, WholeGraph)
          /\ ~held[c].touched => held[c].xml = i /\ held[c].bin = i
    BY <1>1, <1>10, <2>1 DEF EstimateInv, CallInv, CallOk
  <2>3. /\ Result(c).fps = Line(i, Result(c).membw, WholeGraph)
        /\ Result(c).touched \/ (Result(c).xml = i /\ Result(c).bin = i)
    BY <2>2 DEF Result
  <2>4. EstimateIsTraceable'
    BY <1>1, <2>1, <2>2, <2>3 DEF EstimateInv, EstimateIsTraceable, Generations
  <2>5. (EstimateTypes /\ DirsInv /\ CallInv)'
    <3>1. NoCall \in Calls
      BY DEF NoCall
    <3>2. /\ estep' \in [Callers -> InEstimate \cup {"idle"}] /\ held' \in [Callers -> Calls]
          /\ estep'[c] = "idle"
          /\ \A d \in Callers \ {c} : estep'[d] = estep[d] /\ held'[d] = held[d]
      BY <1>1, <1>10, <2>1, <3>1, ToFacts DEF GiveUpEstimate, EstimateInv
    <3>3. EstimateTypes'
      BY <1>2, <2>1, <3>2 DEF EstimateTypes
    <3>4. DirsInv'
      BY <1>1, <2>1, <3>2, ZenonT(60) DEF EstimateInv, DirsInv
    <3>5. CallOk(c)'
      BY <3>2 DEF CallOk
    <3>6. \A d \in Callers \ {c} : CallOk(d)'
      BY <1>1, <2>1, <3>2, OthersKeep
    <3>7. QED
      BY <3>3, <3>4, <3>5, <3>6 DEF CallInv
  <2>6. QED
    BY <2>4, <2>5 DEF EstimateInv
<1>11. ASSUME NEW f \in {"xml", "bin"}, Touch(f)
       PROVE  EstimateInv'
  <2>1. /\ ir' = [ir EXCEPT ![f] = @ + 1] /\ ir'[f] <= MaxGenerations
        /\ f = "xml" => ir.xml = ir.bin
        /\ f = "bin" => ir.bin < ir.xml
        /\ held' = [c \in Callers |-> [held[c] EXCEPT !.touched = estep[c] # "idle"]]
        /\ UNCHANGED <<workDirs, estep, estimates>>
    BY <1>11 DEF Touch
  <2>2. /\ ir' \in [xml : Generations, bin : Generations, manifest : 0 .. MaxGenerations]
        /\ ir'.bin <= ir'.xml
    <3>1. CASE f = "xml"
      <4>1. ir' = [ir EXCEPT !.xml = @ + 1] /\ ir.xml + 1 <= MaxGenerations
        BY <1>2, <2>1, <3>1
      <4>2. QED
        BY <1>2, <2>1, <3>1, <4>1, EstimateAssumption, SMTT(30) DEF Generations
    <3>2. CASE f = "bin"
      <4>1. ir' = [ir EXCEPT !.bin = @ + 1] /\ ir.bin + 1 <= MaxGenerations
        BY <1>2, <2>1, <3>2
      <4>2. QED
        <5>1. ir'.xml = ir.xml /\ ir'.manifest = ir.manifest /\ ir'.bin = ir.bin + 1
          BY <1>2, <4>1
        <5>2. ir.bin < ir.xml /\ ir.bin \in Nat \ {0} /\ ir.xml \in Nat
          BY <1>2, <2>1, <3>2, EstimateAssumption DEF Generations
        <5>3. ir'.bin \in Generations /\ ir'.bin <= ir'.xml
          BY <4>1, <5>1, <5>2, EstimateAssumption DEF Generations
        <5>4. ir' \in [xml : Generations, bin : Generations, manifest : 0 .. MaxGenerations]
          <6> DEFINE b == ir.bin + 1
                     tops == 0 .. MaxGenerations
          <6>1. ir' = [ir EXCEPT !.bin = b] /\ b \in Generations
                /\ ir \in [xml : Generations, bin : Generations, manifest : tops]
            BY <1>2, <4>1, <5>1, <5>3
          <6> HIDE DEF b, tops
          <6>2. ir' \in [xml : Generations, bin : Generations, manifest : tops]
            BY <6>1
          <6>3. QED
            BY <6>2 DEF tops
        <5>5. QED
          BY <5>3, <5>4
    <3>3. QED
      BY <3>1, <3>2
  <2>3. \A c \in Callers :
          /\ held'[c] \in Calls
          /\ held'[c].membw = held[c].membw /\ held'[c].dir = held[c].dir
          /\ held'[c].fps = held[c].fps
          /\ estep[c] # "idle" => held'[c].touched
    BY <1>2, <2>1, ZenonT(60)
  <2>4. EstimateTypes'
    <3>1. held' \in [Callers -> Calls]
      BY <2>1, <2>3
    <3>2. QED
      BY <1>2, <2>1, <2>2, <3>1 DEF EstimateTypes
  <2>5. DirsInv'
    <3>1. DirsInv /\ workDirs' = workDirs /\ estep' = estep
          /\ \A c \in Callers : held'[c].dir = held[c].dir
      BY <1>1, <2>1, <2>3 DEF EstimateInv
    <3>2. QED
      BY <3>1 DEF DirsInv
  <2>6. CallInv'
    <3>1. SUFFICES ASSUME NEW c \in Callers
                   PROVE  CallOk(c)'
      BY DEF CallInv
    <3>2. CallOk(c)
      BY <1>1 DEF EstimateInv, CallInv
    <3>3. CASE estep[c] = "parse"
      <4>1. held'[c].touched /\ estep'[c] = "parse"
        BY <2>1, <2>3, <3>3
      <4>2. PICK i \in Generations, n \in Splits, merged \in BOOLEAN :
              workDirs[held[c].dir] = Reports0(i, held[c].membw, n, merged)
        BY <3>2, <3>3 DEF CallOk
      <4>3. workDirs'[held'[c].dir] = Reports0(i, held'[c].membw, n, merged)
        BY <2>1, <2>3, <4>2
      <4>4. QED
        BY <4>1, <4>2, <4>3 DEF CallOk, Untouched
    <3>4. CASE estep[c] \in {"hash", "hashBin", "write"}
      <4>1. held'[c].touched /\ estep'[c] = estep[c]
        BY <2>1, <2>3, <3>4
      <4>2. PICK i \in Generations : held[c].fps = Line(i, held[c].membw, WholeGraph)
        BY <3>2, <3>4 DEF CallOk
      <4>3. held'[c].fps = Line(i, held'[c].membw, WholeGraph)
        BY <2>3, <4>2
      <4>4. QED
        BY <3>4, <4>1, <4>2, <4>3 DEF CallOk, Untouched
    <3>5. CASE estep[c] \notin {"parse", "hash", "hashBin", "write"}
      BY <2>1, <3>5 DEF CallOk
    <3>6. QED
      BY <3>3, <3>4, <3>5
  <2>7. QED
    BY <1>1, <2>1, <2>4, <2>5, <2>6 DEF EstimateInv, EstimateIsTraceable
<1>12. ASSUME NEW i \in 0 .. MaxGenerations, Manifest(i)
       PROVE  EstimateInv'
  <2>1. /\ ir' = [ir EXCEPT !.manifest = i] /\ UNCHANGED <<workDirs, estep, held, estimates>>
    BY <1>12 DEF Manifest
  <2>2. /\ ir' \in [xml : Generations, bin : Generations, manifest : 0 .. MaxGenerations]
        /\ ir'.xml = ir.xml /\ ir'.bin = ir.bin
    BY <1>2, <1>12, <2>1
  <2>3. EstimateTypes'
    BY <1>2, <2>1, <2>2 DEF EstimateTypes
  <2>4. DirsInv'
    BY <1>1, <2>1 DEF EstimateInv, DirsInv
  <2>5. CallInv'
    BY <1>1, <2>1, <2>2 DEF EstimateInv, CallInv, CallOk, Untouched
  <2>6. QED
    BY <1>1, <2>1, <2>3, <2>4, <2>5 DEF EstimateInv, EstimateIsTraceable
<1>13. CASE UNCHANGED estimateVars
  <2>1. UNCHANGED <<ir, workDirs, estep, held, estimates>>
    BY <1>13 DEF estimateVars
  <2>2. EstimateTypes'
    BY <1>1, <2>1 DEF EstimateInv, EstimateTypes
  <2>3. DirsInv'
    BY <1>1, <2>1 DEF EstimateInv, DirsInv
  <2>4. CallInv'
    BY <1>1, <2>1 DEF EstimateInv, CallInv, CallOk, Untouched
  <2>5. QED
    BY <1>1, <2>1, <2>2, <2>3, <2>4 DEF EstimateInv, EstimateIsTraceable
<1>14. QED
  BY <1>1, <1>4, <1>5, <1>6, <1>7, <1>8, <1>9, <1>10, <1>11, <1>12, <1>13 DEF EstimateNext

\* A result file of the estimator holds the throughput of the whole graph, at the
\* bandwidth it is named for, of the files whose hashes it gives, however many
\* estimates ran side by side, were killed, or kept their work directories, unless
\* the network was rewritten under this one.
THEOREM Traceable == EstimateSpec => []EstimateIsTraceable
<1>1. EstimateSpec => []EstimateInv
  BY InitEstimate, NextEstimate, PTL DEF EstimateSpec
<1>2. EstimateInv => EstimateIsTraceable
  BY DEF EstimateInv
<1>3. QED
  BY <1>1, <1>2, PTL

-------------------------------------------------------------------------------
(* Sweeps.                                                                  *)

Numbers == [util : Nat, fmax : Nat, text : Nat]
Results == Numbers \cup {NoResult}
Invocations ==
  [tool : Tools, skip : BOOLEAN, date : Dates, since : Nat, wanted : SUBSET Points,
   todo : SUBSET Points, pc : {"compile", "point", "exit0", "exit1"},
   stage : [Points -> 1 .. 4], built : [Points -> Nat],
   obtained : [Points -> Results], failed : SUBSET Points]

SweepsTypes ==
  /\ design \in Nat \ {0}
  /\ report \in [Tools -> [Points -> [Reports -> Nat]]]
  /\ result \in [Tools -> [Dates -> [Points -> Results]]]
  /\ curve \in [Tools -> [Points -> Nat]]
  /\ sweep = Idle \/ sweep \in Invocations

Running(t) == sweep # Idle /\ sweep.tool = t

\* The reports of a point under way that the stages so far have rewritten are all
\* of the design its synthesis took up, and that is no older than the sweep.
FlowOf(p) ==
  /\ sweep.stage[p] > 1 => sweep.built[p] >= sweep.since /\ report["l0b"][p]["syn"] = sweep.built[p]
  /\ sweep.stage[p] > 2 => report["l0b"][p]["fit"] = sweep.built[p]
  /\ sweep.stage[p] > 3 => report["l0b"][p]["sta"] = sweep.built[p]

FlowInv ==
  Running("l0b") /\ ~sweep.skip =>
    /\ sweep.since \in 1 .. design
    /\ \A p \in sweep.todo : FlowOf(p)

\* Each point asked for is still to do, has failed, or has its result file with all
\* numbers; a sweep that has drawn its curve has nothing left to do.
PointsInv ==
  Running("l0b") =>
    /\ sweep.wanted # {}
    /\ \A p \in sweep.wanted \ (sweep.todo \cup sweep.failed) : sweep.obtained[p] # NoResult
    /\ \A p \in Points : sweep.obtained[p] # NoResult =>
         /\ sweep.obtained[p] = result["l0b"][sweep.date][p]
         /\ Valid(sweep.obtained[p])
    /\ sweep.pc # "compile"
    /\ sweep.pc # "point" => sweep.todo = {}

SweepsInv == SweepsTypes /\ FlowInv /\ PointsInv /\ CleanExitIsComplete

LEMMA InitSweeps == SweepsInit => SweepsInv
<1> SUFFICES ASSUME SweepsInit
             PROVE  SweepsInv
  OBVIOUS
<1>1. SweepsTypes
  BY DEF SweepsInit, SweepsTypes, Missing, Results
<1>2. QED
  BY <1>1 DEF SweepsInit, SweepsInv, FlowInv, PointsInv, CleanExitIsComplete, Running

\* While no sweep runs there is nothing more to show.
LEMMA IdleSweep ==
  ASSUME SweepsTypes', sweep' = Idle
  PROVE  SweepsInv'
BY DEF SweepsInv, FlowInv, PointsInv, CleanExitIsComplete, Running

LEMMA BeginSweepStep ==
  ASSUME SweepsInv, NEW t \in Tools, NEW wanted \in SUBSET Points, NEW skip \in BOOLEAN, NEW d \in Dates,
         t = "l0b" => wanted # {},
         BeginSweep(t, wanted, skip, d)
  PROVE  SweepsInv'
<1>1. /\ UNCHANGED <<design, report, result, curve>>
      /\ sweep' = [tool |-> t, skip |-> skip, date |-> d, since |-> design,
                   wanted |-> wanted, todo |-> wanted,
                   pc |-> IF t = "l1" /\ ~ skip THEN "compile" ELSE "point",
                   stage |-> [p \in Points |-> IF p \in wanted /\ ~ skip THEN 1 ELSE 4],
                   built |-> [p \in Points |-> Missing],
                   obtained |-> [p \in Points |-> NoResult], failed |-> {}]
  BY DEF BeginSweep
<1>2. /\ sweep'.tool = t /\ sweep'.skip = skip /\ sweep'.since = design
      /\ sweep'.wanted = wanted /\ sweep'.todo = wanted
      /\ sweep'.pc = (IF t = "l1" /\ ~ skip THEN "compile" ELSE "point")
      /\ sweep'.stage = [p \in Points |-> IF p \in wanted /\ ~ skip THEN 1 ELSE 4]
      /\ sweep'.obtained = [p \in Points |-> NoResult]
  BY <1>1
<1>3. SweepsTypes'
  <2>1. sweep' \in Invocations
    <3>1. /\ [p \in Points |-> IF p \in wanted /\ ~ skip THEN 1 ELSE 4] \in [Points -> 1 .. 4]
          /\ [p \in Points |-> Missing] \in [Points -> Nat]
          /\ [p \in Points |-> NoResult] \in [Points -> Results]
          /\ design \in Nat
          /\ (IF t = "l1" /\ ~ skip THEN "compile" ELSE "point") \in {"compile", "point", "exit0", "exit1"}
      BY DEF SweepsInv, SweepsTypes, Missing, Results
    <3>2. QED
      BY <1>1, <3>1 DEF Invocations
  <2>2. QED
    BY <1>1, <2>1 DEF SweepsInv, SweepsTypes
<1>4. FlowInv'
  <2>1. ASSUME Running("l0b")', ~sweep'.skip, NEW p \in wanted
        PROVE  sweep'.stage[p] = 1
    BY <1>2, <2>1
  <2>2. design \in Nat \ {0}
    BY DEF SweepsInv, SweepsTypes
  <2>3. QED
    BY <1>1, <1>2, <2>1, <2>2 DEF FlowInv, FlowOf
<1>5. PointsInv'
  BY <1>2 DEF PointsInv, Running
<1>6. CleanExitIsComplete'
  BY <1>2 DEF CleanExitIsComplete
<1>7. QED
  BY <1>3, <1>4, <1>5, <1>6 DEF SweepsInv

\* What a stage leaves of the reports, and of the sweep.
LEMMA StageFacts ==
  ASSUME SweepsTypes, sweep # Idle, NEW p \in Points, sweep.stage[p] < 4,
         RunStage(p), UNCHANGED <<design, result, curve>>
  PROVE  /\ SweepsTypes' /\ sweep' \in Invocations
         /\ \A f \in {"tool", "skip", "date", "since", "wanted", "pc", "obtained"} : sweep'[f] = sweep[f]
         /\ \A t \in Tools, q \in Points : t # sweep.tool \/ q # p => report'[t][q] = report[t][q]
         /\ \A q \in Points \ {p} : sweep'.stage[q] = sweep.stage[q] /\ sweep'.built[q] = sweep.built[q]
         /\ \/ /\ sweep'.todo = sweep.todo /\ sweep'.failed = sweep.failed
               /\ sweep'.stage[p] = sweep.stage[p] + 1
               /\ sweep'.built[p] = IF sweep.stage[p] = 1 THEN design ELSE sweep.built[p]
               /\ \A k \in Reports : report'[sweep.tool][p][k] =
                    IF k \in Rewrites(Stages[sweep.stage[p]]) THEN sweep'.built[p] ELSE report[sweep.tool][p][k]
            \/ /\ sweep.tool = "l0b"
               /\ sweep'.todo = sweep.todo \ {p} /\ sweep'.failed = sweep.failed \cup {p}
            \/ sweep.tool = "l1"
<1>1. sweep \in Invocations /\ sweep.tool \in Tools /\ sweep.stage \in [Points -> 1 .. 4]
      /\ sweep.built \in [Points -> Nat] /\ sweep.todo \in SUBSET Points /\ sweep.failed \in SUBSET Points
      /\ report \in [Tools -> [Points -> [Reports -> Nat]]] /\ design \in Nat
  BY DEF SweepsTypes, Invocations
<1> DEFINE t == sweep.tool
           version == IF sweep.stage[p] = 1 THEN design ELSE sweep.built[p]
<1>2. version \in Nat
  BY <1>1
<1> HIDE DEF version
<1>3. ASSUME NEW new \in [Reports -> Nat], report' = [report EXCEPT ![t][p] = new]
      PROVE  /\ report' \in [Tools -> [Points -> [Reports -> Nat]]]
             /\ report'[t][p] = new
             /\ \A u \in Tools, q \in Points : u # t \/ q # p => report'[u][q] = report[u][q]
  BY <1>1, <1>3
<1>4. CASE Works(p, version) /\ sweep' = [sweep EXCEPT !.stage[p] = @ + 1, !.built[p] = version]
  <2> DEFINE new == [k \in Reports |-> IF k \in Rewrites(Stages[sweep.stage[p]]) THEN version ELSE report[t][p][k]]
  <2>1. new \in [Reports -> Nat]
    BY <1>1, <1>2
  <2>2. report' = [report EXCEPT ![t][p] = new]
    BY <1>1, <1>4 DEF Works
  <2> HIDE DEF new
  <2>3. /\ report' \in [Tools -> [Points -> [Reports -> Nat]]] /\ report'[t][p] = new
        /\ \A u \in Tools, q \in Points : u # t \/ q # p => report'[u][q] = report[u][q]
    BY <1>3, <2>1, <2>2
  <2>4. /\ sweep' \in Invocations
        /\ sweep'.stage = [sweep.stage EXCEPT ![p] = @ + 1]
        /\ sweep'.built = [sweep.built EXCEPT ![p] = version]
        /\ sweep'.todo = sweep.todo /\ sweep'.failed = sweep.failed
        /\ \A f \in {"tool", "skip", "date", "since", "wanted", "pc", "obtained"} : sweep'[f] = sweep[f]
    <3> DEFINE sg == [sweep.stage EXCEPT ![p] = @ + 1]
               bu == [sweep.built EXCEPT ![p] = version]
    <3>1. sg \in [Points -> 1 .. 4] /\ bu \in [Points -> Nat]
      <4> DEFINE n == sweep.stage[p]
      <4>1. n \in 1 .. 4 /\ n < 4
        BY <1>1
      <4> HIDE DEF n
      <4>2. n + 1 \in 1 .. 4
        BY <4>1
      <4>3. sg \in [Points -> 1 .. 4]
        BY <1>1, <4>2 DEF n
      <4>4. bu \in [Points -> Nat]
        BY <1>1, <1>2
      <4>5. QED
        BY <4>3, <4>4
    <3>2. sweep' = [sweep EXCEPT !.stage = sg, !.built = bu]
      BY <1>1, <1>4
    <3> HIDE DEF sg, bu
    <3>3. QED
      BY <1>1, <3>1, <3>2 DEF Invocations, sg, bu
  <2>5. SweepsTypes'
    BY <2>3, <2>4 DEF SweepsTypes
  <2>6. /\ sweep'.stage[p] = sweep.stage[p] + 1 /\ sweep'.built[p] = version
        /\ \A q \in Points \ {p} : sweep'.stage[q] = sweep.stage[q] /\ sweep'.built[q] = sweep.built[q]
    BY <1>1, <2>4
  <2>7. QED
    BY <2>3, <2>4, <2>5, <2>6 DEF new, version
<1>5. CASE Breaks(p) /\ sweep' = AfterFailure(p)
  <2>1. PICK kept \in BOOLEAN :
          report' = [report EXCEPT ![t][p] =
             [k \in Reports |-> IF k \in Rewrites(Stages[sweep.stage[p]]) /\ ~ kept THEN Missing ELSE @[k]]]
    BY <1>5 DEF Breaks
  <2> DEFINE new == [k \in Reports |-> IF k \in Rewrites(Stages[sweep.stage[p]]) /\ ~ kept THEN Missing ELSE report[t][p][k]]
  <2>2. new \in [Reports -> Nat]
    BY <1>1 DEF Missing
  <2>3. report' = [report EXCEPT ![t][p] = new]
    BY <1>1, <2>1
  <2> HIDE DEF new
  <2>4. /\ report' \in [Tools -> [Points -> [Reports -> Nat]]]
        /\ \A u \in Tools, q \in Points : u # t \/ q # p => report'[u][q] = report[u][q]
    BY <1>3, <2>2, <2>3
  <2>5. /\ sweep' \in Invocations
        /\ sweep'.stage = [sweep.stage EXCEPT ![p] = 4]
        /\ sweep'.built = sweep.built
        /\ t = "l0b" => sweep'.todo = sweep.todo \ {p} /\ sweep'.failed = sweep.failed \cup {p}
        /\ \A f \in {"tool", "skip", "date", "since", "wanted", "pc", "obtained"} : sweep'[f] = sweep[f]
    <3> DEFINE sg == [sweep.stage EXCEPT ![p] = 4]
    <3>1. sg \in [Points -> 1 .. 4]
      BY <1>1
    <3>2. \/ t = "l1" /\ sweep' = [sweep EXCEPT !.stage = sg]
          \/ t = "l0b" /\ sweep' = [sweep EXCEPT !.stage = sg, !.failed = @ \union {p}, !.todo = @ \ {p}]
      BY <1>1, <1>5 DEF AfterFailure, Tools
    <3> HIDE DEF sg
    <3>3. CASE t = "l1"
      BY <1>1, <3>1, <3>2, <3>3 DEF Invocations, sg
    <3>4. CASE t = "l0b"
      <4> DEFINE fa == sweep.failed \cup {p}
                 todo == sweep.todo \ {p}
      <4>1. fa \in SUBSET Points /\ todo \in SUBSET Points
        BY <1>1
      <4>2. sweep' = [sweep EXCEPT !.stage = sg, !.failed = fa, !.todo = todo]
        BY <3>2, <3>4
      <4> HIDE DEF fa, todo
      <4>3. QED
        BY <1>1, <3>1, <3>4, <4>1, <4>2 DEF Invocations, sg, fa, todo
    <3>5. QED
      BY <1>1, <3>3, <3>4 DEF Tools
  <2>6. SweepsTypes'
    BY <2>4, <2>5 DEF SweepsTypes
  <2>7. \A q \in Points \ {p} : sweep'.stage[q] = sweep.stage[q] /\ sweep'.built[q] = sweep.built[q]
    BY <1>1, <2>5
  <2>8. QED
    BY <1>1, <2>4, <2>5, <2>6, <2>7 DEF Tools
<1>6. QED
  BY <1>4, <1>5 DEF RunStage, version

LEMMA CompileStageStep ==
  ASSUME SweepsInv, sweep # Idle, CompileStage
  PROVE  SweepsInv'
<1>1. PICK p \in Points : /\ sweep.stage[p] < 4
                          /\ sweep.tool = "l0b" => Current(p)
                          /\ RunStage(p)
  BY DEF CompileStage
<1>2. UNCHANGED <<design, result, curve>>
  BY DEF CompileStage
<1>3. /\ SweepsTypes /\ FlowInv /\ PointsInv /\ CleanExitIsComplete
  BY DEF SweepsInv
<1>4. /\ SweepsTypes' /\ sweep' \in Invocations
      /\ sweep'.tool = sweep.tool /\ sweep'.skip = sweep.skip /\ sweep'.date = sweep.date
      /\ sweep'.since = sweep.since /\ sweep'.wanted = sweep.wanted /\ sweep'.pc = sweep.pc
      /\ sweep'.obtained = sweep.obtained
      /\ \A t \in Tools, q \in Points : t # sweep.tool \/ q # p => report'[t][q] = report[t][q]
      /\ \A q \in Points \ {p} : sweep'.stage[q] = sweep.stage[q] /\ sweep'.built[q] = sweep.built[q]
  BY <1>1, <1>2, <1>3, StageFacts
<1>5. sweep \in Invocations /\ sweep.tool \in Tools /\ sweep.stage[p] \in 1 .. 4 /\ design \in Nat
      /\ sweep.todo \in SUBSET Points
  BY <1>3 DEF SweepsTypes, Invocations
<1>6. \/ sweep.tool = "l1"
      \/ /\ sweep.tool = "l0b" /\ p \in sweep.todo
         /\ \/ /\ sweep'.todo = sweep.todo /\ sweep'.failed = sweep.failed
               /\ sweep'.stage[p] = sweep.stage[p] + 1
               /\ sweep'.built[p] = IF sweep.stage[p] = 1 THEN design ELSE sweep.built[p]
               /\ \A k \in Reports : report'["l0b"][p][k] =
                    IF k \in Rewrites(Stages[sweep.stage[p]]) THEN sweep'.built[p] ELSE report["l0b"][p][k]
            \/ /\ sweep'.todo = sweep.todo \ {p} /\ sweep'.failed = sweep.failed \cup {p}
  BY <1>1, <1>2, <1>3, <1>5, StageFacts DEF Tools, Current
<1>7. FlowInv'
  <2>1. SUFFICES ASSUME Running("l0b")', ~sweep'.skip
                 PROVE  sweep'.since \in 1 .. design' /\ \A q \in sweep'.todo : FlowOf(q)'
    BY DEF FlowInv
  <2>2. sweep.tool = "l0b" /\ sweep.since \in 1 .. design /\ \A q \in sweep.todo : FlowOf(q)
    BY <1>3, <1>4, <2>1 DEF FlowInv, Running
  <2>3. \A q \in sweep'.todo \ {p} : FlowOf(q)'
    BY <1>4, <1>5, <1>6, <2>2 DEF FlowOf, Tools
  <2>4. ASSUME p \in sweep'.todo
        PROVE  FlowOf(p)'
    <3>1. /\ sweep'.stage[p] = sweep.stage[p] + 1
          /\ sweep'.built[p] = IF sweep.stage[p] = 1 THEN design ELSE sweep.built[p]
          /\ \A k \in Reports : report'["l0b"][p][k] =
               IF k \in Rewrites(Stages[sweep.stage[p]]) THEN sweep'.built[p] ELSE report["l0b"][p][k]
          /\ FlowOf(p)
      BY <1>6, <2>2, <2>4
    <3>2. sweep.stage[p] = 1 \/ sweep.stage[p] = 2 \/ sweep.stage[p] = 3
      BY <1>1, <1>5
    <3>3. CASE sweep.stage[p] = 1
      BY <1>4, <2>2, <3>1, <3>3 DEF FlowOf, Rewrites, Stages, Reports
    <3>4. CASE sweep.stage[p] = 2
      BY <1>4, <2>2, <3>1, <3>4 DEF FlowOf, Rewrites, Stages, Reports
    <3>5. CASE sweep.stage[p] = 3
      BY <1>4, <2>2, <3>1, <3>5 DEF FlowOf, Rewrites, Stages, Reports
    <3>6. QED
      BY <3>2, <3>3, <3>4, <3>5
  <2>5. QED
    BY <1>2, <1>4, <2>2, <2>3, <2>4
<1>8. PointsInv'
  <2>1. SUFFICES ASSUME Running("l0b")'
                 PROVE  PointsInv'
    BY DEF PointsInv
  <2>2. Running("l0b")
    BY <1>4, <2>1 DEF Running
  <2>3. QED
    BY <1>2, <1>3, <1>4, <1>6, <2>2 DEF PointsInv, Running
<1>9. CleanExitIsComplete'
  BY <1>2, <1>3, <1>4 DEF CleanExitIsComplete
<1>10. QED
  BY <1>4, <1>7, <1>8, <1>9 DEF SweepsInv

\* A result that is written for a point is what its reports say; nothing else of the
\* result files changes.
LEMMA ExtractFacts ==
  ASSUME SweepsInv, sweep # Idle, Extract
  PROVE  \E p \in sweep.todo :
           /\ p \in Points /\ sweep.stage[p] = 4 /\ sweep.pc = "point"
           /\ \/ \E numbers \in Numbers :
                   /\ Write(p, numbers)
                   /\ sweep.tool = "l0b" => /\ numbers = NumbersL0b(report["l0b"][p])
                                            /\ Valid(numbers)
              \/ /\ sweep' = [sweep EXCEPT !.todo = @ \ {p}, !.failed = @ \union {p}]
                 /\ result' = result
<1>1. PICK p \in Points : /\ Current(p) /\ sweep.stage[p] = 4 /\ sweep.pc = "point"
                          /\ EmitJson(p) \/ WriteResultJson(p) \/ ParseError(p)
  BY DEF Extract
<1>2. p \in sweep.todo
  BY <1>1 DEF Current
<1>3. \A t \in Tools : report[t][p] \in [Reports -> Nat]
  BY DEF SweepsInv, SweepsTypes
<1>4. NumbersL1(report["l1"][p]) \in Numbers /\ NumbersL0b(report["l0b"][p]) \in Numbers
  BY <1>3 DEF NumbersL1, NumbersL0b, Numbers, Tools, Reports
<1>5. CASE EmitJson(p)
  BY <1>1, <1>2, <1>4, <1>5 DEF EmitJson
<1>6. CASE WriteResultJson(p)
  <2>1. sweep.tool = "l0b" /\ report["l0b"][p]["fit"] # Missing /\ report["l0b"][p]["sta"] # Missing
    BY <1>6 DEF WriteResultJson, ReportsParse
  <2>2. Valid(NumbersL0b(report["l0b"][p]))
    BY <2>1 DEF Valid, NumbersL0b
  <2>3. QED
    BY <1>1, <1>2, <1>4, <1>6, <2>2 DEF WriteResultJson
<1>7. CASE ParseError(p)
  BY <1>1, <1>2, <1>7 DEF ParseError
<1>8. QED
  BY <1>1, <1>5, <1>6, <1>7

\* A result file is never taken for none.
LEMMA NumbersAreAResult == \A n \in Numbers : n # NoResult
<1>1. SUFFICES ASSUME NEW n \in Numbers, n = NoResult
               PROVE  FALSE
  OBVIOUS
<1>2. DOMAIN n = {"util", "fmax", "text"} /\ DOMAIN NoResult = {"none"}
  BY DEF Numbers, NoResult
<1>3. QED
  BY <1>1, <1>2

\* What writing the result of a point changes.
LEMMA WriteFacts ==
  ASSUME SweepsTypes, sweep # Idle, NEW p \in Points, NEW numbers \in Numbers, Write(p, numbers),
         UNCHANGED <<design, report, curve>>
  PROVE  /\ SweepsTypes' /\ sweep' \in Invocations
         /\ \A f \in {"tool", "skip", "date", "since", "wanted", "pc", "stage", "built", "failed"} : sweep'[f] = sweep[f]
         /\ sweep'.todo = sweep.todo \ {p}
         /\ sweep'.obtained[p] = numbers
         /\ \A q \in Points \ {p} : sweep'.obtained[q] = sweep.obtained[q]
         /\ result'[sweep.tool][sweep.date][p] = numbers
         /\ \A t \in Tools, d \in Dates, q \in Points :
              t # sweep.tool \/ d # sweep.date \/ q # p => result'[t][d][q] = result[t][d][q]
<1>1. /\ sweep \in Invocations /\ sweep.tool \in Tools /\ sweep.date \in Dates
      /\ sweep.obtained \in [Points -> Results] /\ sweep.todo \in SUBSET Points
      /\ result \in [Tools -> [Dates -> [Points -> Results]]]
  BY DEF SweepsTypes, Invocations
<1>2. numbers \in Results
  BY DEF Results
<1>3. /\ result' \in [Tools -> [Dates -> [Points -> Results]]]
      /\ result'[sweep.tool][sweep.date][p] = numbers
      /\ \A t \in Tools, d \in Dates, q \in Points :
           t # sweep.tool \/ d # sweep.date \/ q # p => result'[t][d][q] = result[t][d][q]
  <2> DEFINE tool == sweep.tool
             date == sweep.date
  <2>1. result' = [result EXCEPT ![tool][date][p] = numbers] /\ tool \in Tools /\ date \in Dates
    BY <1>1 DEF Write
  <2> HIDE DEF tool, date, Tools, Results
  <2>2. QED
    BY <1>1, <1>2, <2>1 DEF tool, date
<1>4. /\ sweep' \in Invocations
      /\ sweep'.obtained = [sweep.obtained EXCEPT ![p] = numbers]
      /\ sweep'.todo = sweep.todo \ {p}
      /\ \A f \in {"tool", "skip", "date", "since", "wanted", "pc", "stage", "built", "failed"} : sweep'[f] = sweep[f]
  <2> DEFINE ob == [sweep.obtained EXCEPT ![p] = numbers]
  <2>1. ob \in [Points -> Results]
    BY <1>1, <1>2
  <2>2. sweep' = [sweep EXCEPT !.todo = @ \ {p}, !.obtained = ob]
    BY <1>1 DEF Write
  <2> HIDE DEF ob
  <2>3. QED
    BY <1>1, <2>1, <2>2 DEF Invocations, ob
<1>5. SweepsTypes'
  BY <1>3, <1>4 DEF SweepsTypes
<1>6. sweep'.obtained[p] = numbers /\ \A q \in Points \ {p} : sweep'.obtained[q] = sweep.obtained[q]
  BY <1>1, <1>4
<1>7. QED
  BY <1>3, <1>4, <1>5, <1>6

LEMMA ExtractStep ==
  ASSUME SweepsInv, sweep # Idle, Extract
  PROVE  SweepsInv'
<1>1. PICK p \in sweep.todo :
        /\ p \in Points /\ sweep.stage[p] = 4 /\ sweep.pc = "point"
        /\ \/ \E numbers \in Numbers :
                /\ Write(p, numbers)
                /\ sweep.tool = "l0b" => numbers = NumbersL0b(report["l0b"][p]) /\ Valid(numbers)
           \/ /\ sweep' = [sweep EXCEPT !.todo = @ \ {p}, !.failed = @ \union {p}]
              /\ result' = result
  BY ExtractFacts
<1>2. SweepsTypes /\ FlowInv /\ PointsInv /\ UNCHANGED <<design, report, curve>>
  BY DEF SweepsInv, Extract
<1>3. sweep \in Invocations /\ sweep.tool \in Tools /\ sweep.date \in Dates /\ sweep.todo \in SUBSET Points
      /\ sweep.wanted \in SUBSET Points
  BY <1>2 DEF SweepsTypes, Invocations
<1>4. CASE /\ sweep' = [sweep EXCEPT !.todo = @ \ {p}, !.failed = @ \union {p}]
           /\ result' = result
  <2>1. /\ sweep' \in Invocations /\ sweep'.todo = sweep.todo \ {p} /\ sweep'.failed = sweep.failed \cup {p}
        /\ sweep'.tool = sweep.tool /\ sweep'.skip = sweep.skip /\ sweep'.date = sweep.date
        /\ sweep'.since = sweep.since /\ sweep'.wanted = sweep.wanted /\ sweep'.pc = sweep.pc
        /\ sweep'.stage = sweep.stage /\ sweep'.built = sweep.built /\ sweep'.obtained = sweep.obtained
    BY <1>1, <1>3, <1>4 DEF Invocations
  <2>2. SweepsTypes'
    BY <1>2, <1>4, <2>1 DEF SweepsTypes
  <2>3. FlowInv'
    BY <1>2, <2>1 DEF FlowInv, FlowOf, Running
  <2>4. PointsInv'
    BY <1>1, <1>2, <1>4, <2>1 DEF PointsInv, Running
  <2>5. CleanExitIsComplete'
    BY <1>1, <2>1 DEF CleanExitIsComplete
  <2>6. QED
    BY <2>2, <2>3, <2>4, <2>5 DEF SweepsInv
<1>5. ASSUME NEW numbers \in Numbers, Write(p, numbers),
             sweep.tool = "l0b" => numbers = NumbersL0b(report["l0b"][p]) /\ Valid(numbers)
      PROVE  SweepsInv'
  <2>1. /\ SweepsTypes' /\ sweep' \in Invocations
        /\ sweep'.tool = sweep.tool /\ sweep'.skip = sweep.skip /\ sweep'.date = sweep.date
        /\ sweep'.since = sweep.since /\ sweep'.wanted = sweep.wanted /\ sweep'.pc = sweep.pc
        /\ sweep'.stage = sweep.stage /\ sweep'.built = sweep.built /\ sweep'.failed = sweep.failed
        /\ sweep'.todo = sweep.todo \ {p}
        /\ sweep'.obtained[p] = numbers
        /\ \A q \in Points \ {p} : sweep'.obtained[q] = sweep.obtained[q]
        /\ result'[sweep.tool][sweep.date][p] = numbers
        /\ \A t \in Tools, d \in Dates, q \in Points :
             t # sweep.tool \/ d # sweep.date \/ q # p => result'[t][d][q] = result[t][d][q]
    BY <1>1, <1>2, <1>5, WriteFacts
  <2>2. FlowInv'
    BY <1>2, <2>1 DEF FlowInv, FlowOf, Running
  <2>3. PointsInv'
    <3>1. SUFFICES ASSUME Running("l0b")'
                   PROVE  PointsInv'
      BY DEF PointsInv
    <3>2. Running("l0b") /\ sweep.tool = "l0b"
      BY <2>1, <3>1 DEF Running
    <3>3. /\ sweep.wanted # {}
          /\ \A q \in sweep.wanted \ (sweep.todo \cup sweep.failed) : sweep.obtained[q] # NoResult
          /\ \A q \in Points : sweep.obtained[q] # NoResult =>
               sweep.obtained[q] = result["l0b"][sweep.date][q] /\ Valid(sweep.obtained[q])
          /\ sweep.pc # "compile"
      BY <1>2, <3>2 DEF PointsInv
    <3>4. sweep'.obtained[p] # NoResult
      BY <2>1, NumbersAreAResult
    <3>5. \A q \in Points : sweep'.obtained[q] # NoResult =>
            sweep'.obtained[q] = result'["l0b"][sweep'.date][q] /\ Valid(sweep'.obtained[q])
      BY <1>3, <1>5, <2>1, <3>2, <3>3 DEF Tools
    <3>6. \A q \in sweep'.wanted \ (sweep'.todo \cup sweep'.failed) : sweep'.obtained[q] # NoResult
      BY <1>3, <2>1, <3>3, <3>4
    <3>7. QED
      BY <1>1, <2>1, <3>3, <3>5, <3>6 DEF PointsInv
  <2>4. CleanExitIsComplete'
    BY <1>1, <2>1 DEF CleanExitIsComplete
  <2>5. QED
    BY <2>1, <2>2, <2>3, <2>4 DEF SweepsInv
<1>6. QED
  BY <1>1, <1>4, <1>5

LEMMA DrawCurveStep ==
  ASSUME SweepsInv, sweep # Idle, DrawCurve
  PROVE  SweepsInv'
<1>1. /\ sweep.pc = "point" /\ sweep.todo = {} /\ UNCHANGED <<design, report, result>>
      /\ curve' = [curve EXCEPT ![sweep.tool] = IF sweep.tool = "l1" THEN CurveOfL1 ELSE CurveOfL0b]
      /\ sweep' = [sweep EXCEPT !.pc = IF sweep.failed = {} THEN "exit0" ELSE "exit1"]
  BY DEF DrawCurve
<1>2. SweepsTypes /\ FlowInv /\ PointsInv
  BY DEF SweepsInv
<1>3. /\ sweep \in Invocations /\ sweep.tool \in Tools /\ sweep.date \in Dates
      /\ sweep.obtained \in [Points -> Results] /\ sweep.wanted \in SUBSET Points
      /\ result \in [Tools -> [Dates -> [Points -> Results]]]
      /\ curve \in [Tools -> [Points -> Nat]]
  BY <1>2 DEF SweepsTypes, Invocations
<1>4. /\ sweep' \in Invocations /\ sweep'.todo = {} /\ sweep'.failed = sweep.failed
      /\ sweep'.tool = sweep.tool /\ sweep'.skip = sweep.skip /\ sweep'.date = sweep.date
      /\ sweep'.since = sweep.since /\ sweep'.wanted = sweep.wanted
      /\ sweep'.pc = (IF sweep.failed = {} THEN "exit0" ELSE "exit1")
      /\ sweep'.stage = sweep.stage /\ sweep'.built = sweep.built /\ sweep'.obtained = sweep.obtained
  BY <1>1, <1>3 DEF Invocations
<1>5. \A r \in Results : Shown(r) \in Nat
  BY DEF Shown, Results, Numbers, Missing
<1>6. CurveOfL1 \in [Points -> Nat] /\ CurveOfL0b \in [Points -> Nat]
  BY <1>3, <1>5 DEF CurveOfL1, CurveOfL0b, Tools
<1>7. SweepsTypes'
  <2>1. curve' \in [Tools -> [Points -> Nat]]
    BY <1>1, <1>3, <1>6
  <2>2. QED
    BY <1>1, <1>2, <1>4, <2>1 DEF SweepsTypes
<1>8. FlowInv'
  BY <1>1, <1>2, <1>4 DEF FlowInv, FlowOf, Running
<1>9. PointsInv'
  BY <1>1, <1>2, <1>4 DEF PointsInv, Running
<1>10. CleanExitIsComplete'
  <2>1. SUFFICES ASSUME sweep.failed = {}
                 PROVE  CleanExitIsComplete'
    BY <1>4 DEF CleanExitIsComplete
  <2>2. CASE sweep.tool = "l1"
    <3>1. curve'["l1"] = CurveOfL1
      BY <1>1, <1>3, <2>2
    <3>2. QED
      BY <1>1, <1>4, <2>2, <3>1 DEF CleanExitIsComplete, CurveOfL1
  <2>3. CASE sweep.tool = "l0b"
    <3>1. /\ sweep.wanted # {}
          /\ \A p \in sweep.wanted : sweep.obtained[p] # NoResult
          /\ \A p \in Points : sweep.obtained[p] # NoResult =>
               sweep.obtained[p] = result["l0b"][sweep.date][p] /\ Valid(sweep.obtained[p])
      BY <1>1, <1>2, <2>1, <2>3 DEF PointsInv, Running
    <3>2. curve'["l0b"] = CurveOfL0b
      BY <1>1, <1>3, <2>3
    <3>3. CurveOfL0b = [p \in Points |-> Shown(sweep.obtained[p])]
      BY <1>3, <3>1 DEF CurveOfL0b
    <3>4. \A p \in sweep.wanted : curve'["l0b"][p] = sweep.obtained[p].fmax
      BY <1>3, <3>1, <3>2, <3>3 DEF Shown
    <3>5. QED
      BY <1>1, <1>3, <1>4, <2>3, <3>1, <3>4 DEF CleanExitIsComplete
  <2>4. QED
    BY <1>3, <2>2, <2>3 DEF Tools
<1>11. QED
  BY <1>7, <1>8, <1>9, <1>10 DEF SweepsInv

LEMMA NextSweeps == SweepsInv /\ [SweepsNext]_sweepVars => SweepsInv'
<1>1. SUFFICES ASSUME SweepsInv, [SweepsNext]_sweepVars
               PROVE  SweepsInv'
  OBVIOUS
<1>2. CASE BeginL1
  <2>1. PICK wanted \in SUBSET Points, skip \in BOOLEAN, d \in Dates : BeginSweep("l1", wanted, skip, d)
    BY <1>2 DEF BeginL1
  <2>2. QED
    BY <1>1, <2>1, BeginSweepStep DEF Tools
<1>3. CASE BeginL0b
  <2>1. PICK wanted \in (SUBSET Points) \ {{}}, skip \in BOOLEAN, d \in Dates : BeginSweep("l0b", wanted, skip, d)
    BY <1>3 DEF BeginL0b
  <2>2. QED
    BY <1>1, <2>1, BeginSweepStep DEF Tools
<1>4. CASE Edit
  <2>1. design' = design + 1 /\ UNCHANGED <<report, result, curve, sweep>>
    BY <1>4 DEF Edit
  <2>2. design \in Nat \ {0}
    BY <1>1 DEF SweepsInv, SweepsTypes
  <2>3. SweepsTypes'
    BY <1>1, <2>1, <2>2 DEF SweepsInv, SweepsTypes
  <2>4. FlowInv'
    BY <1>1, <2>1, <2>2 DEF SweepsInv, FlowInv, FlowOf, Running
  <2>5. QED
    BY <1>1, <2>1, <2>3, <2>4 DEF SweepsInv, PointsInv, CleanExitIsComplete, Running
<1>5. CASE MakeReport \/ UNCHANGED sweepVars
  <2>1. UNCHANGED <<design, report, result, curve, sweep>>
    BY <1>5 DEF MakeReport, sweepVars
  <2>2. QED
    BY <1>1, <2>1 DEF SweepsInv, SweepsTypes, FlowInv, FlowOf, PointsInv, CleanExitIsComplete, Running
<1>6. CASE sweep # Idle /\ CompileStage
  BY <1>1, <1>6, CompileStageStep
<1>7. CASE sweep # Idle /\ Compiled
  <2>1. /\ sweep.pc = "compile" /\ sweep' = [sweep EXCEPT !.pc = "point"]
        /\ UNCHANGED <<design, report, result, curve>>
    BY <1>7 DEF Compiled
  <2>2. sweep \in Invocations
    BY <1>1, <1>7 DEF SweepsInv, SweepsTypes
  <2>3. /\ sweep' \in Invocations /\ sweep'.pc = "point" /\ sweep'.tool = sweep.tool
        /\ sweep'.skip = sweep.skip /\ sweep'.todo = sweep.todo
    BY <2>1, <2>2 DEF Invocations
  <2>4. SweepsTypes'
    BY <1>1, <2>1, <2>3 DEF SweepsInv, SweepsTypes
  <2>5. sweep.tool # "l0b"
    BY <1>1, <1>7, <2>1 DEF SweepsInv, PointsInv, Running
  <2>6. QED
    BY <2>3, <2>4, <2>5 DEF SweepsInv, FlowInv, PointsInv, CleanExitIsComplete, Running
<1>8. CASE sweep # Idle /\ Extract
  BY <1>1, <1>8, ExtractStep
<1>9. CASE sweep # Idle /\ DrawCurve
  BY <1>1, <1>9, DrawCurveStep
<1>10. CASE sweep # Idle /\ (Exit \/ KillSweep)
  <2>1. sweep' = Idle /\ UNCHANGED <<design, report, result, curve>>
    BY <1>10 DEF Exit, KillSweep
  <2>2. SweepsTypes'
    BY <1>1, <2>1 DEF SweepsInv, SweepsTypes
  <2>3. QED
    BY <2>1, <2>2, IdleSweep
<1>11. QED
  BY <1>1, <1>2, <1>3, <1>4, <1>5, <1>6, <1>7, <1>8, <1>9, <1>10 DEF SweepsNext

\* Whatever fails or is killed, and whatever reports and results earlier runs left:
\* a sweep that exits with 0 has given every point asked for its result, and drawn the
\* curve from the files (main of sweep_l0b.py, generate_report of sweep_l1.py).
THEOREM CleanExit == SweepsSpec => []CleanExitIsComplete
<1>1. SweepsSpec => []SweepsInv
  BY InitSweeps, NextSweeps, PTL DEF SweepsSpec
<1>2. SweepsInv => CleanExitIsComplete
  BY DEF SweepsInv
<1>3. QED
  BY <1>1, <1>2, PTL

\* The numbers of a result file that L0b writes after compiling are those of one
\* compile, and that compile took up the design no earlier than the sweep began.
THEOREM OneCompile == SweepsSpec => ResultIsOneCompile
<1>1. SweepsSpec => []SweepsInv
  BY InitSweeps, NextSweeps, PTL DEF SweepsSpec
<1>2. ASSUME SweepsInv, SweepsNext, sweep # Idle, sweep.tool = "l0b", ~sweep.skip,
             NEW d \in Dates, NEW p \in Points, result'["l0b"][d][p] # result["l0b"][d][p]
      PROVE  LET r == result'["l0b"][d][p]
             IN  r.util = r.fmax /\ r.text = r.fmax /\ r.fmax >= sweep.since
  <2>1. Extract
    BY <1>2 DEF SweepsNext, BeginL1, BeginL0b, BeginSweep, Edit, MakeReport, CompileStage, Compiled,
                DrawCurve, Exit, KillSweep
  <2>2. PICK q \in sweep.todo, numbers \in Numbers :
          /\ q \in Points /\ sweep.stage[q] = 4
          /\ Write(q, numbers) /\ numbers = NumbersL0b(report["l0b"][q])
    BY <1>2, <2>1, ExtractFacts
  <2>3. UNCHANGED <<design, report, curve>> /\ SweepsTypes
    BY <1>2, <2>1 DEF Extract, SweepsInv
  <2>4. /\ result'[sweep.tool][sweep.date][q] = numbers
        /\ \A t \in Tools, e \in Dates, s \in Points :
             t # sweep.tool \/ e # sweep.date \/ s # q => result'[t][e][s] = result[t][e][s]
    BY <1>2, <2>2, <2>3, WriteFacts
  <2>5. p = q /\ d = sweep.date /\ result'["l0b"][d][p] = numbers
    BY <1>2, <2>4 DEF Tools
  <2>6. FlowOf(q)
    BY <1>2, <2>2 DEF SweepsInv, FlowInv, Running
  <2>7. /\ report["l0b"][q]["syn"] = sweep.built[q] /\ report["l0b"][q]["fit"] = sweep.built[q]
        /\ report["l0b"][q]["sta"] = sweep.built[q] /\ sweep.built[q] >= sweep.since
    BY <2>2, <2>6 DEF FlowOf
  <2>8. QED
    BY <2>2, <2>5, <2>7 DEF NumbersL0b
<1>3. SweepsInv /\ [SweepsNext]_sweepVars =>
        [(sweep # Idle /\ sweep.tool = "l0b" /\ ~ sweep.skip) =>
           \A d \in Dates, p \in Points : result'["l0b"][d][p] # result["l0b"][d][p] =>
              LET r == result'["l0b"][d][p]
              IN  r.util = r.fmax /\ r.text = r.fmax /\ r.fmax >= sweep.since]_sweepVars
  BY <1>2
<1>4. QED
  BY <1>1, <1>3, PTL DEF SweepsSpec, ResultIsOneCompile

-------------------------------------------------------------------------------
(* Shmoo.                                                                   *)

Scans == [i : 0 .. DelayTaps, active : BOOLEAN, start : Nat, len : Nat, lo : Nat, hi : Nat, width : Nat]
Trainers ==
  [st : {"IDLE", "SWEEP", "COMPUTE", "SET_CENTER", "DONE"}, tap : Taps, pass : SUBSET Taps,
   lo : Nat, hi : Nat, width : Nat, center : Nat, valid : BOOLEAN, scan : Scans]
Rows == [width : Nat, center : Nat, valid : BOOLEAN, errorFree : BOOLEAN]

ShmooTypes ==
  /\ eye \in [Clocks -> SUBSET Taps]
  /\ clock \in Clocks
  /\ trainer \in Trainers
  /\ rows \in [Clocks -> Rows \cup {NoRow}]

\* The taps below n: lo .. hi is a run of passing ones of this width, and no run of
\* passing ones is wider.
ScanWindow(lo, hi, width, set) == width > 0 => lo <= hi /\ width = hi - lo + 1 /\ lo .. hi \subseteq set
Widest(width, n, pass) ==
  \A a, b \in Nat : a <= b /\ b < n /\ a .. b \subseteq pass => b - a + 1 <= width

\* The run the scan is in begins behind a failing tap.
RunOf(s, pass) ==
  IF s.active THEN /\ s.start < s.i /\ s.len = s.i - s.start
                   /\ s.start .. (s.i - 1) \subseteq pass
                   /\ s.start = 0 \/ (s.start - 1) \notin pass
  ELSE s.i = 0 \/ (s.i - 1) \notin pass

ScanInv(s, pass) ==
  /\ RunOf(s, pass)
  /\ ScanWindow(s.lo, s.hi, s.width, pass) /\ (s.width > 0 => s.hi < s.i)
  /\ Widest(s.width, s.i, pass)

\* The registers hold a run at which the bus works, of this sweep or an earlier one
\* at the same clock, whatever was given up in between.
TrainerInv ==
  /\ trainer.pass \subseteq eye[clock]
  /\ ScanWindow(trainer.lo, trainer.hi, trainer.width, eye[clock])
  /\ trainer.width > 0 => trainer.center = trainer.lo + (trainer.width \div 2)
  /\ trainer.st = "COMPUTE" => ScanInv(trainer.scan, trainer.pass)
  /\ trainer.st \in {"SET_CENTER", "DONE"} =>
       /\ ScanWindow(trainer.lo, trainer.hi, trainer.width, trainer.pass)
       /\ Widest(trainer.width, DelayTaps, trainer.pass)

Margin(width, center, set) ==
  width >= OperatingPointMinMargin => {center - 1, center, center + 1} \subseteq set

RowsInv == \A c \in Clocks : rows[c] # NoRow => Margin(rows[c].width, rows[c].center, eye[c])

ShmooInv == ShmooTypes /\ TrainerInv /\ RowsInv

\* One more tap: the widest run below it is the widest so far or the one it ends.
LEMMA ScanStep ==
  ASSUME NEW s \in Scans, NEW pass \in SUBSET Taps, s.i < DelayTaps, ScanInv(s, pass)
  PROVE  Scan(s, pass) \in Scans /\ ScanInv(Scan(s, pass), pass)
<1>1. /\ s.i \in Nat /\ s.i + 1 \in 0 .. DelayTaps /\ s.active \in BOOLEAN /\ s.start \in Nat /\ s.len \in Nat
      /\ s.lo \in Nat /\ s.hi \in Nat /\ s.width \in Nat
  BY ShmooAssumption DEF Scans
<1>2. RunOf(s, pass) /\ ScanWindow(s.lo, s.hi, s.width, pass) /\ (s.width > 0 => s.hi < s.i)
      /\ Widest(s.width, s.i, pass)
  BY DEF ScanInv
<1> DEFINE r == Scan(s, pass)
           start == IF s.active THEN s.start ELSE s.i
           len == IF s.active THEN s.len + 1 ELSE 1
<1>3. CASE s.i \notin pass
  <2>1. /\ r \in Scans /\ r.i = s.i + 1 /\ r.active = FALSE
        /\ r.lo = s.lo /\ r.hi = s.hi /\ r.width = s.width
    BY <1>1, <1>3 DEF Scan, Failed, Scans
  <2>2. Widest(s.width, s.i + 1, pass)
    <3>1. SUFFICES ASSUME NEW a \in Nat, NEW b \in Nat, a <= b, b < s.i + 1, a .. b \subseteq pass
                   PROVE  b - a + 1 <= s.width
      BY DEF Widest
    <3>2. b # s.i
      BY <1>1, <1>3, <3>1
    <3>3. QED
      BY <1>1, <1>2, <3>1, <3>2 DEF Widest
  <2> HIDE DEF r
  <2>3. QED
    BY <1>1, <1>2, <1>3, <2>1, <2>2 DEF ScanInv, RunOf, r
<1>4. CASE s.i \in pass
  <2>1. /\ start \in Nat /\ len \in Nat /\ start <= s.i /\ len = s.i - start + 1
        /\ start .. s.i \subseteq pass
        /\ start = 0 \/ (start - 1) \notin pass
    BY <1>1, <1>2, <1>4 DEF RunOf
  <2>2. /\ r \in Scans /\ r.i = s.i + 1 /\ r.active = TRUE /\ r.start = start /\ r.len = len
        /\ IF len > s.width THEN r.lo = start /\ r.hi = s.i /\ r.width = len
           ELSE r.lo = s.lo /\ r.hi = s.hi /\ r.width = s.width
    <3> DEFINE ext == [s EXCEPT !.i = @ + 1, !.active = TRUE, !.start = start, !.len = len]
    <3>1. r = IF len > s.width THEN [ext EXCEPT !.lo = start, !.hi = s.i, !.width = len] ELSE ext
      BY <1>4 DEF Scan, Passed
    <3>2. start \in Nat /\ len \in Nat
      BY <2>1
    <3> HIDE DEF start, len, r
    <3>3. QED
      BY <1>1, <3>1, <3>2 DEF Scans
  <2> HIDE DEF r, start, len
  <2>3. Widest(r.width, s.i + 1, pass)
    <3>1. SUFFICES ASSUME NEW a \in Nat, NEW b \in Nat, a <= b, b < s.i + 1, a .. b \subseteq pass
                   PROVE  b - a + 1 <= r.width
      BY DEF Widest
    <3>2. r.width >= len /\ r.width >= s.width
      BY <1>1, <2>1, <2>2
    <3>3. CASE b < s.i
      BY <1>1, <1>2, <2>2, <3>1, <3>2, <3>3 DEF Widest, Scans
    <3>4. CASE b = s.i
      <4>1. a >= start
        BY <1>1, <2>1, <3>1, <3>4
      <4>2. QED
        BY <1>1, <2>1, <2>2, <3>1, <3>2, <3>4, <4>1 DEF Scans
    <3>5. QED
      BY <1>1, <3>1, <3>3, <3>4
  <2>4. ScanWindow(r.lo, r.hi, r.width, pass) /\ (r.width > 0 => r.hi < s.i + 1)
    BY <1>1, <1>2, <2>1, <2>2 DEF ScanWindow
  <2>5. RunOf(r, pass)
    BY <1>1, <2>1, <2>2 DEF RunOf
  <2>6. QED
    BY <2>2, <2>3, <2>4, <2>5 DEF ScanInv, r
<1>5. QED
  BY <1>3, <1>4

LEMMA InitShmoo == ShmooInit => ShmooInv
<1> SUFFICES ASSUME ShmooInit
             PROVE  ShmooInv
  OBVIOUS
<1>1. TrainerReset \in Trainers
  BY ShmooAssumption DEF TrainerReset, Trainers, ScanStart, Scans, Taps
<1>2. ShmooTypes
  BY <1>1 DEF ShmooInit, ShmooTypes
<1>3. TrainerInv
  BY DEF ShmooInit, TrainerInv, TrainerReset, ScanWindow
<1>4. RowsInv
  BY DEF ShmooInit, RowsInv
<1>5. QED
  BY <1>2, <1>3, <1>4 DEF ShmooInv

LEMMA NextShmoo == ShmooInv /\ [ShmooNext]_shmooVars => ShmooInv'
<1> SUFFICES ASSUME ShmooInv, [ShmooNext]_shmooVars
             PROVE  ShmooInv'
  OBVIOUS
<1>1. /\ ShmooTypes /\ TrainerInv /\ RowsInv
      /\ eye \in [Clocks -> SUBSET Taps] /\ clock \in Clocks /\ trainer \in Trainers
      /\ rows \in [Clocks -> Rows \cup {NoRow}]
  BY DEF ShmooInv, ShmooTypes
<1>2. /\ trainer.st \in {"IDLE", "SWEEP", "COMPUTE", "SET_CENTER", "DONE"} /\ trainer.tap \in Taps
      /\ trainer.pass \in SUBSET Taps /\ trainer.lo \in Nat /\ trainer.hi \in Nat /\ trainer.width \in Nat
      /\ trainer.center \in Nat /\ trainer.valid \in BOOLEAN /\ trainer.scan \in Scans
  BY <1>1 DEF Trainers
<1>3. ASSUME UNCHANGED <<eye, clock, trainer, rows>>
      PROVE  ShmooInv'
  BY <1>1, <1>3 DEF ShmooInv, ShmooTypes, TrainerInv, RowsInv
<1>4. CASE Reprogram
  <2>1. clock' \in Clocks /\ trainer' = TrainerReset /\ UNCHANGED <<eye, rows>>
    BY <1>4 DEF Reprogram
  <2>2. TrainerReset \in Trainers
    BY ShmooAssumption DEF TrainerReset, Trainers, ScanStart, Scans, Taps
  <2>3. TrainerInv'
    BY <2>1 DEF TrainerInv, TrainerReset, ScanWindow
  <2>4. QED
    BY <1>1, <2>1, <2>2, <2>3 DEF ShmooInv, ShmooTypes, RowsInv
<1>5. CASE ShmooPoint
  <2>1. UNCHANGED <<eye, clock, rows>> /\ trainer' = StartTrainer
    BY <1>5 DEF ShmooPoint
  <2>2. CASE trainer.st \notin {"IDLE", "DONE"}
    BY <1>3, <2>1, <2>2 DEF StartTrainer
  <2>3. CASE trainer.st \in {"IDLE", "DONE"}
    <3>1. trainer' = [trainer EXCEPT !.st = "SWEEP", !.tap = 0, !.pass = {}, !.valid = FALSE]
      BY <2>1, <2>3 DEF StartTrainer
    <3>2. 0 \in Taps
      BY ShmooAssumption DEF Taps
    <3>3. /\ trainer' \in Trainers /\ trainer'.st = "SWEEP" /\ trainer'.pass = {}
          /\ trainer'.lo = trainer.lo /\ trainer'.hi = trainer.hi /\ trainer'.width = trainer.width
          /\ trainer'.center = trainer.center
      BY <1>1, <3>1, <3>2 DEF Trainers
    <3>4. TrainerInv'
      BY <1>1, <2>1, <3>3 DEF TrainerInv
    <3>5. QED
      BY <1>1, <2>1, <3>3, <3>4 DEF ShmooInv, ShmooTypes, RowsInv
  <2>4. QED
    BY <2>2, <2>3
<1>6. CASE TapDone
  <2>1. PICK ok \in Verifies(memtest.st) :
          LET pass == trainer.pass \union (IF ok THEN {trainer.tap} ELSE {})
          IN  trainer' = IF trainer.tap < DelayTaps - 1
                         THEN [trainer EXCEPT !.pass = pass, !.tap = @ + 1]
                         ELSE [trainer EXCEPT !.pass = pass, !.st = "COMPUTE", !.scan = ScanStart]
    BY <1>6 DEF TapDone
  <2>2. trainer.st = "SWEEP" /\ capDelay = trainer.tap /\ UNCHANGED <<eye, clock, rows>>
    BY <1>6 DEF TapDone
  <2> DEFINE pass == trainer.pass \union (IF ok THEN {trainer.tap} ELSE {})
  <2>3. pass \in SUBSET Taps
    BY <1>2
  <2>4. pass \subseteq eye[clock]
    <3>1. ok => trainer.tap \in eye[clock]
      BY <2>1, <2>2 DEF Verifies
    <3>2. QED
      BY <1>1, <3>1 DEF TrainerInv
  <2>5. trainer' = IF trainer.tap < DelayTaps - 1
                   THEN [trainer EXCEPT !.pass = pass, !.tap = @ + 1]
                   ELSE [trainer EXCEPT !.pass = pass, !.st = "COMPUTE", !.scan = ScanStart]
    BY <2>1
  <2> HIDE DEF pass
  <2>6. ScanStart \in Scans /\ ScanInv(ScanStart, pass)
    <3>1. ScanStart \in Scans
      BY ShmooAssumption DEF ScanStart, Scans
    <3>2. RunOf(ScanStart, pass) /\ ScanWindow(0, 0, 0, pass) /\ Widest(0, 0, pass)
      BY DEF RunOf, ScanStart, ScanWindow, Widest
    <3>3. QED
      BY <3>1, <3>2 DEF ScanInv, ScanStart
  <2>7. /\ trainer' \in Trainers /\ trainer'.pass = pass
        /\ trainer'.lo = trainer.lo /\ trainer'.hi = trainer.hi /\ trainer'.width = trainer.width
        /\ trainer'.center = trainer.center
        /\ trainer'.st \in {"SWEEP", "COMPUTE"}
        /\ trainer'.st = "COMPUTE" => trainer'.scan = ScanStart
    <3>1. CASE trainer.tap < DelayTaps - 1
      <4> DEFINE tap == trainer.tap + 1
      <4>1. tap \in Taps
        BY <1>2, <3>1, ShmooAssumption DEF Taps
      <4>2. trainer' = [trainer EXCEPT !.pass = pass, !.tap = tap]
        BY <2>5, <3>1
      <4> HIDE DEF tap
      <4>3. QED
        BY <1>1, <2>2, <2>3, <4>1, <4>2 DEF Trainers
    <3>2. CASE ~(trainer.tap < DelayTaps - 1)
      BY <1>1, <2>3, <2>5, <2>6, <3>2 DEF Trainers
    <3>3. QED
      BY <3>1, <3>2
  <2>8. TrainerInv'
    BY <1>1, <2>2, <2>4, <2>6, <2>7 DEF TrainerInv
  <2>9. QED
    BY <1>1, <2>2, <2>7, <2>8 DEF ShmooInv, ShmooTypes, RowsInv
<1>7. CASE Compute
  <2>1. trainer.st = "COMPUTE" /\ UNCHANGED <<eye, clock, rows>> /\ ScanInv(trainer.scan, trainer.pass)
    BY <1>1, <1>7 DEF Compute, TrainerInv
  <2> DEFINE s == trainer.scan
  <2>2. CASE s.i < DelayTaps
    <3>1. trainer' = [trainer EXCEPT !.scan = Scan(s, trainer.pass)]
      BY <1>7, <2>2 DEF Compute
    <3>2. Scan(s, trainer.pass) \in Scans /\ ScanInv(Scan(s, trainer.pass), trainer.pass)
      BY <1>2, <2>1, <2>2, ScanStep
    <3>3. /\ trainer' \in Trainers /\ trainer'.scan = Scan(s, trainer.pass) /\ trainer'.st = "COMPUTE"
          /\ trainer'.pass = trainer.pass /\ trainer'.lo = trainer.lo /\ trainer'.hi = trainer.hi
          /\ trainer'.width = trainer.width /\ trainer'.center = trainer.center
      BY <1>1, <2>1, <3>1, <3>2 DEF Trainers
    <3>4. TrainerInv'
      BY <1>1, <2>1, <3>2, <3>3 DEF TrainerInv
    <3>5. QED
      BY <1>1, <2>1, <3>3, <3>4 DEF ShmooInv, ShmooTypes, RowsInv
  <2>3. CASE ~(s.i < DelayTaps)
    <3>1. trainer' = [trainer EXCEPT !.st = "SET_CENTER", !.lo = s.lo, !.hi = s.hi,
                        !.width = s.width, !.center = Center(s), !.valid = s.width >= MinWindow]
      BY <1>7, <2>3 DEF Compute
    <3>2. s.i = DelayTaps /\ s.lo \in Nat /\ s.hi \in Nat /\ s.width \in Nat
      BY <1>2, <2>3, ShmooAssumption DEF Scans
    <3>3. Center(s) \in Nat /\ Center(s) = s.lo + (s.width \div 2)
      <4> DEFINE lo == s.lo
                 width == s.width
      <4>1. lo \in Nat /\ width \in Nat
        BY <3>2
      <4> HIDE DEF lo, width
      <4>2. lo + (width \div 2) \in Nat
        BY <4>1
      <4>3. QED
        BY <4>2 DEF Center, lo, width
    <3>4. (s.width >= MinWindow) \in BOOLEAN
      OBVIOUS
    <3> DEFINE center == Center(s)
               valid == s.width >= MinWindow
    <3>5. center \in Nat /\ valid \in BOOLEAN
      BY <3>3, <3>4
    <3> HIDE DEF center, valid, s
    <3>6. /\ trainer' \in Trainers /\ trainer'.st = "SET_CENTER" /\ trainer'.pass = trainer.pass
          /\ trainer'.lo = s.lo /\ trainer'.hi = s.hi /\ trainer'.width = s.width /\ trainer'.center = center
      BY <1>1, <3>1, <3>2, <3>5 DEF Trainers, center, valid
    <3>7. ScanWindow(s.lo, s.hi, s.width, trainer.pass) /\ Widest(s.width, DelayTaps, trainer.pass)
      BY <2>1, <3>2 DEF ScanInv, s
    <3>8. ScanWindow(s.lo, s.hi, s.width, eye[clock])
      BY <1>1, <3>7 DEF TrainerInv, ScanWindow
    <3>9. TrainerInv'
      BY <1>1, <2>1, <3>3, <3>6, <3>7, <3>8 DEF TrainerInv, center
    <3>10. QED
      BY <1>1, <2>1, <3>6, <3>9 DEF ShmooInv, ShmooTypes, RowsInv
  <2>4. QED
    BY <2>2, <2>3
<1>8. CASE SetCenter
  <2>1. /\ trainer.st = "SET_CENTER" /\ UNCHANGED <<eye, clock, rows>>
        /\ trainer' = [trainer EXCEPT !.st = "DONE"]
    BY <1>8 DEF SetCenter
  <2>2. /\ trainer' \in Trainers /\ trainer'.st = "DONE" /\ trainer'.pass = trainer.pass
        /\ trainer'.lo = trainer.lo /\ trainer'.hi = trainer.hi /\ trainer'.width = trainer.width
        /\ trainer'.center = trainer.center
    BY <1>1, <2>1 DEF Trainers
  <2>3. TrainerInv'
    BY <1>1, <2>1, <2>2 DEF TrainerInv
  <2>4. QED
    BY <1>1, <2>1, <2>2, <2>3 DEF ShmooInv, ShmooTypes, RowsInv
<1>9. CASE ResultsRead
  <2> DEFINE row == [width |-> trainer.width, center |-> trainer.center,
                     valid |-> trainer.valid, errorFree |-> ~ memtest.errors]
  <2>1. UNCHANGED <<eye, clock, trainer>> /\ rows' = [rows EXCEPT ![clock] = row]
    BY <1>9 DEF ResultsRead
  <2>2. row \in Rows /\ row.width = trainer.width /\ row.center = trainer.center
    <3>1. (~ memtest.errors) \in BOOLEAN
      OBVIOUS
    <3>2. QED
      BY <1>2, <3>1 DEF Rows
  <2> HIDE DEF row
  <2>3. Margin(trainer.width, trainer.center, eye[clock])
    <3> DEFINE lo == trainer.lo
               hi == trainer.hi
               width == trainer.width
               center == trainer.center
    <3>1. SUFFICES ASSUME width >= 3
                   PROVE  {center - 1, center, center + 1} \subseteq eye[clock]
      BY DEF Margin, OperatingPointMinMargin
    <3>2. /\ lo \in Nat /\ hi \in Nat /\ width \in Nat /\ width = hi - lo + 1
          /\ center = lo + (width \div 2) /\ lo .. hi \subseteq eye[clock]
      BY <1>1, <1>2, <3>1 DEF TrainerInv, ScanWindow
    <3> HIDE DEF lo, hi, width, center
    <3>3. width \div 2 >= 1 /\ (width \div 2) + 1 <= width - 1 /\ width \div 2 \in Nat
      BY <3>1, <3>2
    <3>4. center - 1 \in lo .. hi /\ center \in lo .. hi /\ center + 1 \in lo .. hi
      BY <3>2, <3>3
    <3>5. QED
      BY <3>2, <3>4
  <2>4. rows' \in [Clocks -> Rows \cup {NoRow}]
    BY <1>1, <2>1, <2>2
  <2>5. RowsInv'
    <3>1. rows'[clock] = row /\ \A c \in Clocks \ {clock} : rows'[c] = rows[c]
      BY <1>1, <2>1
    <3>2. QED
      BY <1>1, <2>1, <2>2, <2>3, <3>1 DEF RowsInv
  <2>6. QED
    BY <1>1, <2>1, <2>4, <2>5 DEF ShmooInv, ShmooTypes, TrainerInv
<1>10. CASE SetDelay \/ MemtestPass \/ WindowRead \/ GiveUp \/ UNCHANGED shmooVars
  <2>1. UNCHANGED <<eye, clock, trainer, rows>>
    BY <1>10 DEF SetDelay, MemtestPass, WindowRead, GiveUp, shmooVars
  <2>2. QED
    BY <1>3, <2>1
<1>11. QED
  BY <1>4, <1>5, <1>6, <1>7, <1>8, <1>9, <1>10 DEF ShmooNext

\* The registers that COMPUTE leaves in hb_trainer are a widest run of passing taps,
\* for every number of taps and every eye.
THEOREM WidestRun == ShmooSpec => []WindowIsWidestRun
<1>1. ShmooSpec => []ShmooInv
  BY InitShmoo, NextShmoo, PTL DEF ShmooSpec
<1>2. ShmooInv => WindowIsWidestRun
  <2> SUFFICES ASSUME ShmooInv, trainer.st = "DONE"
               PROVE  WindowIsWidestRun
    BY DEF WindowIsWidestRun
  <2> DEFINE lo == trainer.lo
             hi == trainer.hi
             width == trainer.width
             center == trainer.center
             runs == {r \in Taps \X Taps : r[1] <= r[2] /\ r[1]..r[2] \subseteq trainer.pass}
  <2>1. /\ lo \in Nat /\ hi \in Nat /\ width \in Nat /\ trainer.pass \in SUBSET Taps
        /\ ScanWindow(lo, hi, width, trainer.pass) /\ Widest(width, DelayTaps, trainer.pass)
        /\ width > 0 => center = lo + (width \div 2)
    BY DEF ShmooInv, ShmooTypes, Trainers, TrainerInv
  <2> HIDE DEF lo, hi, width, center
  <2>2. ASSUME NEW r \in runs
        PROVE  r[2] - r[1] + 1 <= width
    <3>1. /\ r[1] \in Nat /\ r[2] \in Nat /\ r[1] <= r[2] /\ r[2] < DelayTaps
          /\ r[1] .. r[2] \subseteq trainer.pass
      BY <2>2, ShmooAssumption DEF Taps
    <3>2. QED
      BY <2>1, <3>1 DEF Widest
  <2>3. ASSUME width > 0
        PROVE  <<lo, hi>> \in runs /\ width = hi - lo + 1 /\ center \in lo .. hi
    <3>1. lo <= hi /\ width = hi - lo + 1 /\ lo .. hi \subseteq trainer.pass /\ center = lo + (width \div 2)
      BY <2>1, <2>3 DEF ScanWindow
    <3>2. lo \in Taps /\ hi \in Taps
      BY <2>1, <3>1
    <3>3. width \div 2 \in Nat /\ width \div 2 <= width - 1
      BY <2>1, <2>3
    <3>4. center \in lo .. hi
      BY <2>1, <3>1, <3>3
    <3>5. QED
      BY <3>1, <3>2, <3>4
  <2>4. QED
    BY <2>2, <2>3 DEF WindowIsWidestRun, lo, hi, width, center
<1>3. QED
  BY <1>1, <1>2, PTL

\* The report chooses no clock at which a neighbour of the parked delay fails, whatever
\* commands were given up and left the trainer or the memory test at work.
THEOREM PointHasMargin == ShmooSpec => []OperatingPointHasMargin
<1>1. ShmooSpec => []ShmooInv
  BY InitShmoo, NextShmoo, PTL DEF ShmooSpec
<1>2. ShmooInv => OperatingPointHasMargin
  <2> SUFFICES ASSUME ShmooInv, NEW c \in OperatingPoint
               PROVE  {rows[c].center - 1, rows[c].center, rows[c].center + 1} \subseteq eye[c]
    BY DEF OperatingPointHasMargin
  <2>1. c \in Clocks /\ rows[c] # NoRow /\ rows[c].width >= OperatingPointMinMargin
    BY DEF OperatingPoint, Recorded, Qualifies
  <2>2. QED
    BY <2>1 DEF ShmooInv, RowsInv, Margin
<1>3. QED
  BY <1>1, <1>2, PTL

-------------------------------------------------------------------------------
(* Artifacts.                                                               *)

Samples == Int \X Nat
Contents == Samples \cup {<<>>}
Entries == [file : 0 .. Items - 1, label : Samples]

FilesTypes ==
  /\ source \in Nat /\ size \in 1 .. Items /\ lines \in 0 .. Items
  /\ records \in [0 .. Items - 1 -> Contents]
  /\ inputs \in [0 .. Items - 1 -> Contents]
  /\ reference \in Seq(Entries)

Labelled(entries) == \A j \in 1 .. Len(entries) : records[entries[j].file] = entries[j].label
OwnInputs(n) == \A i \in 0 .. n - 1 : inputs[i] = <<i, source>>

\* The bundle under way has a number left for each item it has still to write, and its
\* entries name files it is past.
BundleInv ==
  IF builder.what = "bundle"
  THEN /\ builder.todo \in SUBSET Int /\ IsFiniteSet(builder.todo)
       /\ builder.k \in Nat /\ builder.k + Cardinality(builder.todo) <= Items
       /\ builder.entries \in Seq(Entries)
       /\ DOMAIN builder = {"what", "todo", "k", "entries"}
       /\ \A j \in 1 .. Len(builder.entries) : builder.entries[j].file < builder.k
       /\ Labelled(builder.entries)
  ELSE "bundle" \notin mixed => Labelled(reference)

InputsInv ==
  IF builder.what = "inputs"
  THEN builder = [what |-> "inputs", k |-> builder.k] /\ builder.k \in 0 .. size /\ OwnInputs(builder.k)
  ELSE "inputs" \notin mixed /\ lines = size => OwnInputs(size)

FilesInv == FilesTypes /\ BundleInv /\ InputsInv

\* A selection of n items has at most n.
LEMMA SpreadFacts ==
  ASSUME size \in 1 .. Items, NEW n \in 1 .. size
  PROVE  Spread(n) \in SUBSET Int /\ IsFiniteSet(Spread(n)) /\ Cardinality(Spread(n)) <= Items
<1>1. size \in Nat \ {0} /\ n \in Nat \ {0} /\ n <= Items /\ size <= Items /\ Items \in Nat
  BY ArtifactsAssumption
<1>2. CASE n = size
  <2>1. Spread(n) = 0 .. size - 1
    BY <1>2 DEF Spread
  <2>2. IsFiniteSet(0 .. size - 1) /\ Cardinality(0 .. size - 1) = size
    BY <1>1, FS_Interval
  <2>3. QED
    BY <1>1, <2>1, <2>2
<1>3. CASE n # size /\ n = 1
  BY <1>1, <1>3, FS_Singleton DEF Spread
<1>4. CASE n # size /\ n # 1
  <2> DEFINE f == [j \in 0 .. n - 1 |-> Rounded(j * (size - 1), n - 1)]
  <2>1. Spread(n) = {f[j] : j \in 0 .. n - 1}
    BY <1>4 DEF Spread
  <2>2. \A a \in Int, b \in Nat \ {0} : Rounded(a, b) \in Int
    BY DEF Rounded
  <2>3. \A j \in 0 .. n - 1 : f[j] \in Int
    <3>1. ASSUME NEW j \in 0 .. n - 1
          PROVE  Rounded(j * (size - 1), n - 1) \in Int
      <4> DEFINE a == j * (size - 1)
                 b == n - 1
      <4>1. a \in Int /\ b \in Nat \ {0}
        BY <1>1, <1>4
      <4> HIDE DEF a, b
      <4>2. Rounded(a, b) \in Int
        BY <2>2, <4>1
      <4>3. QED
        BY <4>2 DEF a, b
    <3>2. QED
      BY <3>1
  <2>4. f \in Surjection(0 .. n - 1, Spread(n))
    BY <2>1 DEF Surjection
  <2>5. IsFiniteSet(0 .. n - 1) /\ Cardinality(0 .. n - 1) = n
    BY <1>1, FS_Interval
  <2> HIDE DEF f
  <2>6. IsFiniteSet(Spread(n)) /\ Cardinality(Spread(n)) <= n
    BY <2>4, <2>5, FS_Surjection
  <2>7. Cardinality(Spread(n)) \in Nat
    BY <2>6, FS_CardinalityType
  <2>8. QED
    BY <1>1, <2>1, <2>3, <2>6, <2>7
<1>5. QED
  BY <1>2, <1>3, <1>4

\* Whatever does not touch the files and ends no build leaves them as they are.
LEMMA OtherFiles ==
  ASSUME FilesInv, UNCHANGED <<source, size, records, reference, inputs, lines, mixed>>,
         builder' = builder \/ (builder.what \notin {"bundle", "inputs"} /\ builder'.what \notin {"bundle", "inputs"})
  PROVE  FilesInv'
<1>1. FilesTypes'
  BY DEF FilesInv, FilesTypes
<1>2. BundleInv'
  BY DEF FilesInv, BundleInv, Labelled
<1>3. InputsInv'
  BY DEF FilesInv, InputsInv, OwnInputs
<1>4. QED
  BY <1>1, <1>2, <1>3 DEF FilesInv

LEMMA InitFiles == ArtifactsInit => FilesInv
<1> SUFFICES ASSUME ArtifactsInit
             PROVE  FilesInv
  OBVIOUS
<1>1. FilesTypes
  <2>1. <<>> \in Seq(Entries) /\ <<>> \in Contents
    BY DEF Contents
  <2>2. Items \in 1 .. Items /\ 0 \in 0 .. Items /\ 1 \in Nat
    BY ArtifactsAssumption
  <2>3. QED
    BY <2>1, <2>2 DEF ArtifactsInit, FilesTypes
<1>2. builder.what = "none" /\ reference = <<>> /\ lines = 0 /\ size = Items
  BY DEF ArtifactsInit, NoBuild
<1>3. BundleInv
  BY <1>2 DEF BundleInv, Labelled
<1>4. InputsInv
  BY <1>2, ArtifactsAssumption DEF InputsInv
<1>5. QED
  BY <1>1, <1>3, <1>4 DEF FilesInv

LEMMA NextFiles == FilesInv /\ [ImageNext \/ BundleNext \/ InputsNext]_artifactVars => FilesInv'
<1> SUFFICES ASSUME FilesInv, [ImageNext \/ BundleNext \/ InputsNext]_artifactVars
             PROVE  FilesInv'
  OBVIOUS
<1>1. FilesTypes /\ BundleInv /\ InputsInv
  BY DEF FilesInv
<1>2. /\ source \in Nat /\ size \in 1 .. Items /\ lines \in 0 .. Items
      /\ records \in [0 .. Items - 1 -> Contents] /\ inputs \in [0 .. Items - 1 -> Contents]
      /\ reference \in Seq(Entries) /\ Items \in Nat \ {0}
  BY <1>1, ArtifactsAssumption DEF FilesTypes
<1>3. NoBuild.what = "none"
  BY DEF NoBuild
<1>4. CASE Pack
  <2>1. builder = NoBuild /\ builder'.what = "recimg"
        /\ UNCHANGED <<source, size, records, reference, inputs, lines, mixed>>
    BY <1>4 DEF Pack, BeginBuild
  <2>2. QED
    BY <1>3, <2>1, OtherFiles
<1>5. CASE LoadAndVerify \/ WriteImage \/ UNCHANGED artifactVars
  <2>1. UNCHANGED <<source, size, records, reference, inputs, lines, mixed, builder>>
    BY <1>5 DEF LoadAndVerify, WriteImage, artifactVars
  <2>2. QED
    BY <2>1, OtherFiles
<1>6. CASE WriteManifest
  <2>1. builder.what = "recimg" /\ builder' = NoBuild
        /\ UNCHANGED <<source, size, records, reference, inputs, lines, mixed>>
    BY <1>6 DEF WriteManifest
  <2>2. QED
    BY <1>3, <2>1, OtherFiles
<1>7. CASE NewSource
  <2>1. /\ builder = NoBuild /\ source' = source + 1 /\ size' \in 1 .. Items
        /\ mixed' = IF lines # 0 THEN mixed \union {"inputs"} ELSE mixed
        /\ UNCHANGED <<records, reference, inputs, lines, builder>>
    BY <1>7 DEF NewSource
  <2>2. FilesTypes'
    BY <1>2, <2>1 DEF FilesTypes
  <2>3. BundleInv'
    <3>1. "bundle" \notin mixed' => "bundle" \notin mixed
      BY <2>1
    <3>2. QED
      BY <1>1, <1>3, <2>1, <3>1 DEF BundleInv, Labelled
  <2>4. InputsInv'
    BY <1>2, <1>3, <2>1 DEF InputsInv
  <2>5. QED
    BY <2>2, <2>3, <2>4 DEF FilesInv
<1>8. CASE KillBuild
  <2>1. /\ builder' = NoBuild
        /\ mixed' = mixed \union (IF builder.what = "bundle" /\ reference # <<>> THEN {"bundle"}
                                  ELSE IF builder.what = "inputs" /\ lines # 0 THEN {"inputs"} ELSE {})
        /\ UNCHANGED <<source, size, records, reference, inputs, lines>>
    BY <1>8 DEF KillBuild
  <2>2. FilesTypes'
    BY <1>2, <2>1 DEF FilesTypes
  <2>3. BundleInv'
    <3>1. ASSUME "bundle" \notin mixed'
          PROVE  Labelled(reference)'
      <4>1. CASE builder.what = "bundle"
        BY <2>1, <3>1, <4>1 DEF Labelled
      <4>2. CASE builder.what # "bundle"
        BY <1>1, <2>1, <3>1, <4>2 DEF BundleInv, Labelled
      <4>3. QED
        BY <4>1, <4>2
    <3>2. QED
      BY <1>3, <2>1, <3>1 DEF BundleInv
  <2>4. InputsInv'
    <3>1. ASSUME "inputs" \notin mixed', lines = size
          PROVE  OwnInputs(size)'
      <4>1. builder.what # "inputs"
        BY <1>2, <2>1, <3>1
      <4>2. QED
        BY <1>1, <2>1, <3>1, <4>1 DEF InputsInv, OwnInputs
    <3>2. QED
      BY <1>3, <2>1, <3>1 DEF InputsInv
  <2>5. QED
    BY <2>2, <2>3, <2>4 DEF FilesInv
<1>9. CASE BuildBundle
  <2>1. PICK n \in 1 .. size :
          builder' = [what |-> "bundle", todo |-> Spread(n), k |-> 0, entries |-> <<>>]
    BY <1>9 DEF BuildBundle, BeginBuild
  <2>2. builder = NoBuild /\ UNCHANGED <<source, size, records, reference, inputs, lines, mixed>>
    BY <1>9 DEF BuildBundle, BeginBuild
  <2>3. Spread(n) \in SUBSET Int /\ IsFiniteSet(Spread(n)) /\ Cardinality(Spread(n)) <= Items
    BY <1>2, SpreadFacts
  <2>4. /\ builder'.what = "bundle" /\ builder'.todo = Spread(n) /\ builder'.k = 0 /\ builder'.entries = <<>>
        /\ DOMAIN builder' = {"what", "todo", "k", "entries"}
    BY <2>1
  <2>5. Cardinality(Spread(n)) \in Nat
    BY <2>3, FS_CardinalityType
  <2>6. BundleInv'
    BY <2>3, <2>4, <2>5 DEF BundleInv, Labelled
  <2>7. InputsInv'
    BY <1>1, <1>3, <2>2, <2>4 DEF InputsInv, OwnInputs
  <2>8. FilesTypes'
    BY <1>2, <2>2 DEF FilesTypes
  <2>9. QED
    BY <2>6, <2>7, <2>8 DEF FilesInv
<1>10. CASE WriteRecord
  <2>1. builder.what = "bundle" /\ UNCHANGED <<source, size, reference, inputs, lines, mixed>>
    BY <1>10 DEF WriteRecord
  <2>2. PICK i \in builder.todo :
          LET sample == <<i, source>>
              next   == [builder EXCEPT !.todo = @ \ {i}, !.k = @ + 1]
          IN  \/ /\ records' = [records EXCEPT ![builder.k] = sample]
                 /\ builder' = [next EXCEPT !.entries = Append(@, Entry(builder, sample))]
              \/ builder' = next /\ UNCHANGED records
    BY <1>10 DEF WriteRecord
  <2> DEFINE k == builder.k
             todo == builder.todo
             entries == builder.entries
             sample == <<i, source>>
             entry == [file |-> k, label |-> sample]
  <2>3. /\ todo \in SUBSET Int /\ IsFiniteSet(todo) /\ k \in Nat /\ k + Cardinality(todo) <= Items
        /\ entries \in Seq(Entries)
        /\ DOMAIN builder = {"what", "todo", "k", "entries"}
        /\ \A j \in 1 .. Len(entries) : entries[j].file < k
        /\ Labelled(entries)
    BY <1>1, <2>1 DEF BundleInv
  <2>4. /\ IsFiniteSet(todo \ {i}) /\ Cardinality(todo \ {i}) = Cardinality(todo) - 1
        /\ Cardinality(todo) \in Nat /\ Cardinality(todo \ {i}) \in Nat
    BY <2>3, FS_RemoveElement, FS_CardinalityType
  <2>5. k + 1 + Cardinality(todo \ {i}) <= Items /\ k \in 0 .. Items - 1 /\ k + 1 \in Nat
    BY <1>2, <2>3, <2>4
  <2>6. sample \in Samples /\ entry \in Entries
    BY <1>2, <2>3, <2>5 DEF Samples, Entries
  <2> DEFINE more == Append(entries, entry)
  <2>7. /\ more \in Seq(Entries) /\ Len(more) = Len(entries) + 1 /\ Len(entries) \in Nat
        /\ \A j \in 1 .. Len(entries) : more[j] = entries[j]
        /\ more[Len(entries) + 1] = entry
    BY <2>3, <2>6, AppendProperties
  <2>8. /\ builder'.what = "bundle" /\ builder'.todo = todo \ {i} /\ builder'.k = k + 1
        /\ DOMAIN builder' = {"what", "todo", "k", "entries"}
        /\ \/ records' = [records EXCEPT ![k] = sample] /\ builder'.entries = more
           \/ records' = records /\ builder'.entries = entries
    BY <2>1, <2>2, <2>3 DEF Entry
  <2> HIDE DEF k, todo, entries, sample, more
  <2>9. FilesTypes'
    BY <1>2, <2>1, <2>5, <2>6, <2>8 DEF FilesTypes, Contents
  <2>10. /\ builder'.entries \in Seq(Entries)
         /\ \A j \in 1 .. Len(builder'.entries) : builder'.entries[j].file < k + 1
         /\ \A j \in 1 .. Len(builder'.entries) : records'[builder'.entries[j].file] = builder'.entries[j].label
    <3>1. CASE records' = [records EXCEPT ![k] = sample] /\ builder'.entries = more
      <4>1. records'[k] = sample /\ \A f \in 0 .. Items - 1 : f # k => records'[f] = records[f]
        BY <1>2, <2>5, <3>1
      <4>2. \A j \in 1 .. Len(entries) : entries[j] \in Entries /\ entries[j].file \in 0 .. Items - 1
        <5>1. \A j \in 1 .. Len(entries) : entries[j] \in Entries
          BY <2>3, ElementOfSeq
        <5>2. QED
          BY <5>1 DEF Entries
      <4>3. \A j \in 1 .. Len(more) : more[j].file < k + 1
        <5>1. SUFFICES ASSUME NEW j \in 1 .. Len(more)
                       PROVE  more[j].file < k + 1
          OBVIOUS
        <5>2. CASE j \in 1 .. Len(entries)
          BY <2>3, <2>7, <4>2, <5>2
        <5>3. CASE j = Len(entries) + 1
          BY <2>3, <2>7, <5>3
        <5>4. QED
          BY <2>7, <5>1, <5>2, <5>3
      <4>4. ASSUME NEW j \in 1 .. Len(more)
            PROVE  records'[more[j].file] = more[j].label
        <5>2. CASE j \in 1 .. Len(entries)
          <6>1. more[j] = entries[j] /\ entries[j].file \in 0 .. Items - 1 /\ entries[j].file < k
            BY <2>3, <2>7, <4>2, <5>2
          <6>2. records[entries[j].file] = entries[j].label
            BY <2>3, <5>2 DEF Labelled
          <6>3. entries[j].file # k
            BY <2>3, <6>1
          <6>4. QED
            BY <4>1, <6>1, <6>2, <6>3
        <5>3. CASE j = Len(entries) + 1
          BY <2>7, <4>1, <5>3
        <5>4. QED
          BY <2>7, <4>4, <5>2, <5>3
      <4>5. QED
        BY <2>7, <3>1, <4>3, <4>4
    <3>2. CASE records' = records /\ builder'.entries = entries
      <4>1. \A j \in 1 .. Len(entries) : entries[j].file \in Nat
        <5>1. \A j \in 1 .. Len(entries) : entries[j] \in Entries
          BY <2>3, ElementOfSeq
        <5>2. QED
          BY <1>2, <5>1 DEF Entries
      <4>2. \A j \in 1 .. Len(entries) : entries[j].file < k + 1
        BY <2>3, <4>1
      <4>3. QED
        BY <2>3, <3>2, <4>2 DEF Labelled
    <3>3. QED
      BY <2>8, <3>1, <3>2
  <2>11. BundleInv'
    BY <2>3, <2>4, <2>5, <2>8, <2>10, ZenonT(60) DEF BundleInv, Labelled
  <2>12. InputsInv'
    BY <1>1, <2>1, <2>8 DEF InputsInv, OwnInputs
  <2>13. QED
    BY <2>9, <2>11, <2>12 DEF FilesInv
<1>11. CASE WriteReference
  <2>1. /\ builder.what = "bundle" /\ reference' = builder.entries /\ builder' = NoBuild
        /\ mixed' = mixed \ {"bundle"} /\ UNCHANGED <<source, size, records, inputs, lines>>
    BY <1>11 DEF WriteReference
  <2>2. builder.entries \in Seq(Entries) /\ Labelled(builder.entries)
    BY <1>1, <2>1 DEF BundleInv
  <2>3. FilesTypes'
    BY <1>2, <2>1, <2>2 DEF FilesTypes
  <2>4. BundleInv'
    BY <1>3, <2>1, <2>2 DEF BundleInv, Labelled
  <2>5. InputsInv'
    BY <1>1, <1>3, <2>1 DEF InputsInv, OwnInputs
  <2>6. QED
    BY <2>3, <2>4, <2>5 DEF FilesInv
<1>12. CASE PackInputs
  <2>1. builder = NoBuild /\ builder' = [what |-> "inputs", k |-> 0]
        /\ UNCHANGED <<source, size, records, reference, inputs, lines, mixed>>
    BY <1>12 DEF PackInputs, BeginBuild
  <2>2. builder'.what = "inputs" /\ builder'.k = 0
    BY <2>1
  <2>3. BundleInv'
    BY <1>1, <1>3, <2>1, <2>2 DEF BundleInv, Labelled
  <2>4. InputsInv'
    BY <1>2, <2>1, <2>2 DEF InputsInv, OwnInputs
  <2>5. FilesTypes'
    BY <1>2, <2>1 DEF FilesTypes
  <2>6. QED
    BY <2>3, <2>4, <2>5 DEF FilesInv
<1>13. CASE WriteInputFile
  <2> DEFINE k == builder.k
  <2>1. /\ builder.what = "inputs" /\ k < size
        /\ inputs' = [inputs EXCEPT ![k] = <<k, source>>]
        /\ builder' = [builder EXCEPT !.k = @ + 1]
        /\ UNCHANGED <<source, size, records, reference, lines, mixed>>
    BY <1>13 DEF WriteInputFile
  <2>2. builder = [what |-> "inputs", k |-> k] /\ k \in 0 .. size /\ OwnInputs(k)
    BY <1>1, <2>1 DEF InputsInv
  <2>3. builder'.what = "inputs" /\ builder'.k = k + 1 /\ builder' = [what |-> "inputs", k |-> k + 1]
    BY <2>1, <2>2
  <2> HIDE DEF k
  <2>4. k \in 0 .. Items - 1 /\ k \in Int /\ k + 1 \in 0 .. size
    BY <1>2, <2>1, <2>2
  <2>5. <<k, source>> \in Contents
    BY <1>2, <2>4 DEF Contents, Samples
  <2>6. /\ inputs' \in [0 .. Items - 1 -> Contents] /\ inputs'[k] = <<k, source>>
        /\ \A i \in 0 .. Items - 1 : i # k => inputs'[i] = inputs[i]
    BY <1>2, <2>1, <2>4, <2>5
  <2>7. \A i \in 0 .. k : inputs'[i] = <<i, source'>>
    <3>1. \A i \in 0 .. k : i = k \/ (i \in 0 .. k - 1 /\ i \in 0 .. Items - 1)
      BY <1>2, <2>4
    <3>2. QED
      BY <2>1, <2>2, <2>6, <3>1 DEF OwnInputs
  <2>8. FilesTypes'
    BY <1>2, <2>1, <2>6 DEF FilesTypes
  <2>9. BundleInv'
    BY <1>1, <2>1, <2>3 DEF BundleInv, Labelled
  <2>10. InputsInv'
    <3>1. 0 .. builder'.k - 1 = 0 .. k
      BY <2>3, <2>4
    <3>2. OwnInputs(builder.k)'
      BY <2>7, <3>1 DEF OwnInputs
    <3>3. QED
      BY <2>1, <2>3, <2>4, <3>2 DEF InputsInv
  <2>11. QED
    BY <2>8, <2>9, <2>10 DEF FilesInv
<1>14. CASE WriteLines
  <2>1. /\ builder.what = "inputs" /\ builder.k = size /\ lines' = size /\ builder' = NoBuild
        /\ mixed' = mixed \ {"inputs"} /\ UNCHANGED <<source, size, records, reference, inputs>>
    BY <1>14 DEF WriteLines
  <2>2. OwnInputs(size)
    BY <1>1, <2>1 DEF InputsInv
  <2>3. FilesTypes'
    BY <1>2, <2>1 DEF FilesTypes
  <2>4. BundleInv'
    BY <1>1, <1>3, <2>1 DEF BundleInv, Labelled
  <2>5. InputsInv'
    BY <1>3, <2>1, <2>2 DEF InputsInv, OwnInputs
  <2>6. QED
    BY <2>3, <2>4, <2>5 DEF FilesInv
<1>15. QED
  BY <1>4, <1>5, <1>6, <1>7, <1>8, <1>9, <1>10, <1>11, <1>12, <1>13, <1>14
     DEF ImageNext, BundleNext, InputsNext

\* For every data set and every order of builds, kills and changes of the data: a bundle
\* that loads labels its records right, and a pack taken for finished holds its own images,
\* but for the two cases that FilesAreOwn names.
THEOREM OwnFiles == ArtifactsSpec => []FilesAreOwn
<1>1. ArtifactsSpec => []FilesInv
  BY InitFiles, NextFiles, PTL DEF ArtifactsSpec
<1>2. FilesInv => FilesAreOwn
  <2> SUFFICES ASSUME FilesInv, builder = NoBuild
               PROVE  FilesAreOwn
    BY DEF FilesAreOwn
  <2>1. builder.what = "none"
    BY DEF NoBuild
  <2>2. QED
    BY <2>1 DEF FilesInv, FilesTypes, BundleInv, InputsInv, Labelled, OwnInputs, FilesAreOwn, Reusable
<1>3. QED
  BY <1>1, <1>2, PTL

\* What is built or described holds no sample twice, and at least one.
Whole(m) ==
  /\ m.n \in InputBytes /\ m.samples \in Seq(Samples) /\ m.samples # <<>>
  /\ \A j, k \in 1 .. Len(m.samples) : m.samples[j] = m.samples[k] => j = k

\* The stride leaves room for the tensor and its label.
LEMMA StrideFacts ==
  ASSUME NEW n \in InputBytes
  PROVE  StrideFor(n) \in Nat \ {0} /\ n < StrideFor(n) /\ n \in Nat \ {0}
<1>1. n \in Nat \ {0} /\ BurstAlign \in Nat \ {0} /\ n + BurstAlign \in Nat
  BY ArtifactsAssumption
<1> DEFINE q == (n + BurstAlign) \div BurstAlign
           r == (n + BurstAlign) % BurstAlign
<1>2. q \in Nat /\ r \in 0 .. BurstAlign - 1 /\ n + BurstAlign = BurstAlign * q + r
  BY <1>1, ModParts, Zenon
<1> HIDE DEF q, r
<1>3. q * BurstAlign = BurstAlign * q /\ q * BurstAlign \in Nat
  BY <1>1, <1>2
<1>4. q * BurstAlign = n + BurstAlign - r
  BY <1>1, <1>2, <1>3
<1>5. n < q * BurstAlign
  BY <1>1, <1>2, <1>4
<1>6. QED
  BY <1>1, <1>3, <1>5 DEF q, StrideFor

\* The first byte of an image is found nowhere else in it.
LEMMA FirstByte ==
  ASSUME NEW m, Whole(m), NEW q \in 0 .. Len(m.samples) * StrideFor(m.n) - 1,
         Cell(m.samples, m.n, q) = Cell(m.samples, m.n, 0)
  PROVE  q = 0
<1> DEFINE s == m.samples
           n == m.n
           d == StrideFor(m.n)
           k == q \div d
           b == q % d
<1>1. /\ s \in Seq(Samples) /\ Len(s) \in Nat \ {0} /\ d \in Nat \ {0} /\ n \in Nat \ {0} /\ n < d
      /\ \A i, j \in 1 .. Len(s) : s[i] = s[j] => i = j
  BY StrideFacts DEF Whole
<1> HIDE DEF s, n, d
<1>2. q \in Nat /\ q < Len(s) * d
  <2>1. Len(s) * d \in Nat
    BY <1>1
  <2>2. q \in 0 .. Len(s) * d - 1
    BY DEF s, d
  <2>3. QED
    BY <2>1, <2>2
<1>3. k \in Nat /\ b \in 0 .. d - 1 /\ q = d * k + b
  BY <1>1, <1>2, ModParts, Zenon
<1>4. Cell(s, n, 0) = <<s[1], 0>>
  <2>1. StrideFor(n) = d
    BY DEF d, n
  <2>2. 0 \div d = 0 /\ 0 % d = 0 /\ 0 <= n /\ 0 + 1 = 1
    BY <1>1
  <2>3. QED
    BY <2>1, <2>2, Zenon DEF Cell
<1>5. Cell(s, n, q) = IF b <= n THEN <<s[k + 1], b>> ELSE <<>>
  BY Zenon DEF Cell, d, n
<1>6. Cell(s, n, q) = <<s[1], 0>>
  BY <1>4, Zenon DEF s, n
<1> HIDE DEF k, b
<1>7. b <= n
  <2>1. CASE ~(b <= n)
    <3>1. <<>> = <<s[1], 0>>
      BY <1>5, <1>6, <2>1, Zenon
    <3>2. QED
      BY <3>1
  <2>2. QED
    BY <2>1
<1>8. s[k + 1] = s[1] /\ b = 0
  BY <1>5, <1>6, <1>7
<1>9. k + 1 \in 1 .. Len(s)
  <2>1. CASE k >= Len(s)
    <3>1. d * k >= Len(s) * d
      <4>1. PICK e \in Nat : k = Len(s) + e
        <5>1. k - Len(s) \in Nat /\ k = Len(s) + (k - Len(s))
          BY <1>1, <1>3, <2>1
        <5>2. QED
          BY <5>1
      <4>2. d * (Len(s) + e) = Len(s) * d + d * e /\ d * e \in Nat /\ Len(s) * d \in Nat
        BY <1>1
      <4>3. QED
        BY <4>1, <4>2
    <3>2. d * k \in Nat /\ Len(s) * d \in Nat
      BY <1>1, <1>3
    <3>3. QED
      BY <1>2, <1>3, <3>1, <3>2
  <2>2. QED
    BY <1>1, <1>3, <2>1
<1>10. k = 0
  <2>1. 1 \in 1 .. Len(s)
    BY <1>1
  <2>2. k + 1 = 1
    BY <1>1, <1>8, <1>9, <2>1, Zenon
  <2>3. QED
    BY <1>3, <2>2
<1>11. d * k = 0
  BY <1>1, <1>10
<1>12. QED
  BY <1>3, <1>8, <1>11

\* Addresses that far apart do not wrap onto each other.
LEMMA NoAlias ==
  ASSUME NEW wrap \in Nat \ {0}, NEW a \in Nat, NEW d \in 1 .. wrap - 1
  PROVE  (a + d) % wrap # a % wrap
<1> DEFINE q == a \div wrap
           r == a % wrap
<1>1. q \in Nat /\ r \in 0 .. wrap - 1 /\ a = wrap * q + r
  BY ModParts
<1> HIDE DEF q, r
<1>2. wrap * (q + 1) = wrap * q + wrap
  BY <1>1
<1>3. CASE r + d < wrap
  <2>1. a + d \in Nat /\ a + d = wrap * q + (r + d) /\ r + d \in 0 .. wrap - 1
    BY <1>1, <1>3
  <2>2. (a + d) % wrap = r + d
    BY <1>1, <2>1, ModUnique, Zenon
  <2>3. r + d # r
    BY <1>1
  <2>4. QED
    BY <2>2, <2>3, Zenon DEF r
<1>4. CASE r + d >= wrap
  <2>1. a + d \in Nat /\ q + 1 \in Nat /\ a + d = wrap * (q + 1) + (r + d - wrap) /\ r + d - wrap \in 0 .. wrap - 1
    BY <1>1, <1>2, <1>4
  <2>2. (a + d) % wrap = r + d - wrap
    BY <2>1, ModUnique, Zenon
  <2>3. r + d - wrap # r
    BY <1>1
  <2>4. QED
    BY <2>2, <2>3, Zenon DEF r
<1>5. QED
  BY <1>1, <1>3, <1>4

\* A whole lap comes back to where it was.
LEMMA Lap ==
  ASSUME NEW wrap \in Nat \ {0}, NEW a \in Nat
  PROVE  (a + wrap) % wrap = a % wrap
<1> DEFINE q == a \div wrap
           r == a % wrap
<1>1. q \in Nat /\ r \in 0 .. wrap - 1 /\ a = wrap * q + r
  BY ModParts
<1> HIDE DEF q, r
<1>2. wrap * (q + 1) = wrap * q + wrap
  BY <1>1
<1>3. a + wrap \in Nat /\ q + 1 \in Nat /\ a + wrap = wrap * (q + 1) + r
  BY <1>1, <1>2
<1>4. (a + wrap) % wrap = r
  BY <1>1, <1>3, ModUnique, Zenon
<1>5. QED
  BY <1>4 DEF r

\* If the first byte reads back, the addresses do not wrap within the image, and then
\* every byte does.
LEMMA ReadsBack ==
  ASSUME NEW m, Whole(m), NEW base \in RecBases, NEW wrap \in Wraps,
         ReadBackCell(m, base, wrap, 0) = Cell(m.samples, m.n, 0),
         NEW p \in 0 .. Len(m.samples) * StrideFor(m.n) - 1
  PROVE  ReadBackCell(m, base, wrap, p) = Cell(m.samples, m.n, p)
<1> DEFINE bytes == Len(m.samples) * StrideFor(m.n)
           Same(x) == {q \in 0 .. bytes - 1 : (base + q) % wrap = (base + x) % wrap}
<1>1. bytes \in Nat /\ p \in 0 .. bytes - 1 /\ base \in Nat /\ wrap \in Nat \ {0}
  <2>1. StrideFor(m.n) \in Nat /\ Len(m.samples) \in Nat
    BY StrideFacts DEF Whole
  <2>2. QED
    BY <2>1, ArtifactsAssumption
<1>2. \A x \in 0 .. bytes - 1 : x \in Same(x)
  BY Zenon
<1>3. \A x \in 0 .. bytes - 1 : Max(Same(x)) \in Same(x) /\ \A q \in Same(x) : q <= Max(Same(x))
  <2> SUFFICES ASSUME NEW x \in 0 .. bytes - 1
               PROVE  Max(Same(x)) \in Same(x) /\ \A q \in Same(x) : q <= Max(Same(x))
    BY Zenon
  <2>1. bytes - 1 \in Nat
    BY <1>1
  <2>2. Same(x) \in SUBSET (0 .. bytes - 1)
    BY Zenon
  <2>3. Same(x) # {}
    BY <1>2, Zenon
  <2> HIDE DEF Same, bytes
  <2>4. QED
    BY <2>1, <2>2, <2>3, Greatest, Zenon
<1>4. \A x \in 0 .. bytes - 1 : ReadBackCell(m, base, wrap, x) = Cell(m.samples, m.n, Max(Same(x)))
  BY Zenon DEF ReadBackCell
<1>5. 0 \in 0 .. bytes - 1
  BY <1>1
<1>6. Max(Same(0)) = 0
  <2>1. Cell(m.samples, m.n, Max(Same(0))) = Cell(m.samples, m.n, 0)
    BY <1>4, <1>5, Zenon
  <2>2. Max(Same(0)) \in 0 .. bytes - 1
    BY <1>3, <1>5, Zenon
  <2>3. QED
    BY <2>1, <2>2, FirstByte, Zenon
<1>7. bytes <= wrap
  <2>1. CASE wrap < bytes
    <3>1. wrap \in 0 .. bytes - 1 /\ base + 0 = base
      BY <1>1, <2>1
    <3>2. wrap \in Same(0)
      BY <1>1, <3>1, Lap, Zenon
    <3>3. wrap <= 0
      BY <1>3, <1>5, <1>6, <3>2, Zenon
    <3>4. QED
      BY <1>1, <3>3
  <2>2. QED
    BY <1>1, <2>1
<1>8. \A q \in Same(p) : q = p
  <2> SUFFICES ASSUME NEW q \in Same(p) PROVE q = p
    OBVIOUS
  <2>1. q \in 0 .. bytes - 1 /\ (base + q) % wrap = (base + p) % wrap
    BY Zenon
  <2> HIDE DEF bytes, Same
  <2>2. CASE q < p
    <3>1. base + q \in Nat /\ p - q \in 1 .. wrap - 1 /\ (base + q) + (p - q) = base + p
      BY <1>1, <1>7, <2>1, <2>2
    <3>2. QED
      BY <1>1, <2>1, <3>1, NoAlias, Zenon
  <2>3. CASE p < q
    <3>1. base + p \in Nat /\ q - p \in 1 .. wrap - 1 /\ (base + p) + (q - p) = base + q
      BY <1>1, <1>7, <2>1, <2>3
    <3>2. QED
      BY <1>1, <2>1, <3>1, NoAlias, Zenon
  <2>4. QED
    BY <1>1, <2>1, <2>2, <2>3
<1>9. Max(Same(p)) = p
  BY <1>1, <1>3, <1>8, Zenon
<1>10. QED
  BY <1>1, <1>4, <1>9, Zenon

\* What a build packs has every sample once; a manifest describes such an image and has
\* its hash; and the image in the memory reads back.
ImageInv ==
  /\ builder.what = "recimg" => Whole(builder)
  /\ manifest # Absent => Whole(manifest) /\ manifest.sha256 = [samples |-> manifest.samples, n |-> manifest.n]
  /\ LoadedIsTheImage

LEMMA PackedWhole ==
  ASSUME source \in Nat, size \in Nat, NEW k \in 1 .. size, NEW n \in InputBytes, NEW idx \in Selections(k)
  PROVE  Whole([what |-> "recimg", n |-> n, samples |-> Selected(idx)])
<1>1. k \in Nat \ {0} /\ idx \in [1 .. k -> 0 .. size - 1] /\ \A i, j \in 1 .. k : i < j => idx[i] < idx[j]
  BY DEF Selections
<1>2. Len(idx) = k
  BY <1>1
<1>3. Selected(idx) \in [1 .. k -> Samples]
  <2>1. \A i \in 1 .. k : <<idx[i], source>> \in Samples
    BY <1>1 DEF Samples
  <2>2. QED
    BY <1>2, <2>1, Zenon DEF Selected
<1>4. Selected(idx) \in Seq(Samples) /\ Len(Selected(idx)) = k
  BY <1>1, <1>3
<1>5. Selected(idx) # <<>>
  BY <1>1, <1>4
<1>6. ASSUME NEW i \in 1 .. k, NEW j \in 1 .. k, Selected(idx)[i] = Selected(idx)[j]
      PROVE  i = j
  <2>1. Selected(idx)[i] = <<idx[i], source>> /\ Selected(idx)[j] = <<idx[j], source>>
    BY <1>2, Zenon DEF Selected
  <2>2. idx[i] = idx[j] /\ idx[i] \in Int /\ idx[j] \in Int
    <3>1. <<idx[i], source>> = <<idx[j], source>>
      BY <1>6, <2>1, Zenon
    <3>2. idx[i] = idx[j]
      BY <3>1
    <3>3. idx[i] \in 0 .. size - 1 /\ idx[j] \in 0 .. size - 1
      BY <1>1, Zenon
    <3>4. QED
      BY <3>2, <3>3
  <2>3. ~(i < j) /\ ~(j < i)
    BY <1>1, <2>2
  <2>4. QED
    BY <2>3
<1>7. QED
  BY <1>4, <1>5, <1>6, Zenon DEF Whole

\* Whatever touches no image, manifest or memory and starts no image.
LEMMA OtherImages ==
  ASSUME ImageInv, UNCHANGED <<manifest, store>>, builder'.what = "recimg" => builder' = builder
  PROVE  ImageInv'
<1>1. LoadedIsTheImage'
  BY Zenon DEF ImageInv, LoadedIsTheImage
<1>2. QED
  BY <1>1, Zenon DEF ImageInv

LEMMA InitImage == ArtifactsInit => ImageInv
<1>1. NoBuild.what # "recimg"
  BY DEF NoBuild
<1>2. QED
  BY <1>1, Zenon DEF ArtifactsInit, ImageInv, LoadedIsTheImage

LEMMA NextImage ==
  ASSUME FilesInv, ImageInv, [ImageNext \/ BundleNext \/ InputsNext]_artifactVars
  PROVE  ImageInv'
<1>1. NoBuild.what # "recimg"
  BY DEF NoBuild
<1>2. CASE Pack
  <2>1. PICK k \in 1 .. size, n \in InputBytes : \E idx \in Selections(k) :
          /\ builder' = [what |-> "recimg", n |-> n, samples |-> Selected(idx)]
          /\ UNCHANGED <<manifest, store>>
    BY <1>2, Zenon DEF Pack, BeginBuild
  <2>2. source \in Nat /\ size \in Nat
    BY ArtifactsAssumption DEF FilesInv, FilesTypes
  <2>3. Whole(builder')
    BY <2>1, <2>2, PackedWhole, Zenon
  <2>4. LoadedIsTheImage'
    BY <2>1, Zenon DEF ImageInv, LoadedIsTheImage
  <2>5. QED
    BY <2>1, <2>3, <2>4, Zenon DEF ImageInv
<1>3. CASE WriteManifest
  <2>1. /\ builder.what = "recimg" /\ image = [samples |-> builder.samples, n |-> builder.n]
        /\ manifest' = [samples |-> builder.samples, n |-> builder.n, sha256 |-> image]
        /\ builder' = NoBuild /\ store' = store
    BY <1>3, Zenon DEF WriteManifest
  <2>2. manifest'.samples = builder.samples /\ manifest'.n = builder.n /\ manifest'.sha256 = image
    BY <2>1
  <2>3. Whole(manifest')
    BY <2>1, <2>2, Zenon DEF ImageInv, Whole
  <2>4. LoadedIsTheImage'
    BY <2>1, Zenon DEF ImageInv, LoadedIsTheImage
  <2>5. QED
    BY <1>1, <2>1, <2>2, <2>3, <2>4, Zenon DEF ImageInv
<1>4. CASE LoadAndVerify
  <2>1. manifest # Absent /\ manifest.sha256 = image /\ UNCHANGED <<manifest, builder>>
    BY <1>4, Zenon DEF LoadAndVerify, MatchesManifest
  <2>2. PICK base \in RecBases, wrap \in Wraps :
          /\ \A pos \in Positions(Len(image.samples) * StrideFor(image.n)), o \in 0 .. (ReadWindow - 1) :
                pos + o < Len(image.samples) * StrideFor(image.n) =>
                  ReadBackCell(image, base, wrap, pos + o) = Cell(image.samples, image.n, pos + o)
          /\ store' = [base |-> base, wrap |-> wrap, image |-> image, manifest |-> manifest]
    BY <1>4, Zenon DEF LoadAndVerify
  <2>3. Whole(manifest) /\ image = [samples |-> manifest.samples, n |-> manifest.n]
    BY <2>1, Zenon DEF ImageInv
  <2>4. image.samples = manifest.samples /\ image.n = manifest.n
    BY <2>3
  <2>5. Whole(image)
    BY <2>3, <2>4, Zenon DEF Whole
  <2> DEFINE bytes == Len(image.samples) * StrideFor(image.n)
  <2>6. bytes \in Nat \ {0}
    <3>1. Len(image.samples) \in Nat \ {0} /\ StrideFor(image.n) \in Nat \ {0}
      BY <2>5, StrideFacts DEF Whole
    <3>2. ASSUME NEW a \in Nat \ {0}, NEW b \in Nat \ {0} PROVE a * b \in Nat \ {0}
      OBVIOUS
    <3>3. QED
      BY <3>1, <3>2, Zenon
  <2>7. ReadBackCell(image, base, wrap, 0) = Cell(image.samples, image.n, 0)
    <3>1. 0 \in Positions(bytes)
      BY Zenon DEF Positions
    <3>2. 0 \in 0 .. (ReadWindow - 1) /\ 0 + 0 = 0 /\ 0 + 0 < bytes
      BY <2>6, ArtifactsAssumption
    <3>3. QED
      BY <2>2, <3>1, <3>2, Zenon
  <2>8. \A p \in 0 .. bytes - 1 : ReadBackCell(image, base, wrap, p) = Cell(image.samples, image.n, p)
    BY <2>5, <2>7, ReadsBack, Zenon
  <2>9. store'.base = base /\ store'.wrap = wrap /\ store'.image = image /\ store'.manifest = manifest
    BY <2>2
  <2>10. [samples |-> manifest.samples, n |-> manifest.n].samples = image.samples
         /\ [samples |-> manifest.samples, n |-> manifest.n].n = image.n
    BY <2>4
  <2>11. LoadedIsTheImage'
    BY <2>8, <2>9, <2>10, Zenon DEF LoadedIsTheImage
  <2>12. QED
    BY <2>1, <2>11, Zenon DEF ImageInv
<1>5. CASE WriteRecord
  <2>1. builder.what = "bundle" /\ UNCHANGED <<manifest, store>>
    BY <1>5, Zenon DEF WriteRecord
  <2>2. DOMAIN builder = {"what", "todo", "k", "entries"}
    BY <2>1, Zenon DEF FilesInv, BundleInv
  <2>3. builder'.what = builder.what
    BY <1>5, <2>2 DEF WriteRecord
  <2>4. QED
    BY <2>1, <2>3, OtherImages
<1>6. CASE WriteInputFile
  <2>1. builder.what = "inputs" /\ UNCHANGED <<manifest, store>> /\ builder' = [builder EXCEPT !.k = @ + 1]
    BY <1>6, Zenon DEF WriteInputFile
  <2>2. builder = [what |-> "inputs", k |-> builder.k]
    BY <2>1, Zenon DEF FilesInv, InputsInv
  <2>3. builder'.what = "inputs"
    BY <2>1, <2>2
  <2>4. QED
    BY <2>1, <2>3, OtherImages
<1>7. CASE BuildBundle \/ PackInputs
  <2>1. builder'.what \in {"bundle", "inputs"} /\ UNCHANGED <<manifest, store>>
    BY <1>7 DEF BuildBundle, PackInputs, BeginBuild
  <2>2. QED
    BY <2>1, OtherImages
<1>8. CASE WriteReference \/ WriteLines \/ KillBuild
  <2>1. builder' = NoBuild /\ UNCHANGED <<manifest, store>>
    BY <1>8, Zenon DEF WriteReference, WriteLines, KillBuild
  <2>2. QED
    BY <1>1, <2>1, OtherImages, Zenon
<1>9. CASE WriteImage \/ NewSource \/ UNCHANGED artifactVars
  <2>1. UNCHANGED <<manifest, store, builder>>
    BY <1>9, Zenon DEF WriteImage, NewSource, artifactVars
  <2>2. QED
    BY <2>1, OtherImages, Zenon
<1>10. QED
  BY <1>2, <1>3, <1>4, <1>5, <1>6, <1>7, <1>8, <1>9, Zenon DEF ImageNext, BundleNext, InputsNext

\* For every data set, shape of the records and memory, and every order of builds and
\* kills: an image that load_and_verify lets pass reads back as its manifest says in
\* every byte, wherever the addresses wrap.
THEOREM LoadedWhole == ArtifactsSpec => []LoadedIsTheImage
<1>1. ArtifactsSpec => []FilesInv
  BY InitFiles, NextFiles, PTL DEF ArtifactsSpec
<1>2. ImageInv => LoadedIsTheImage
  BY Zenon DEF ImageInv
<1>3. FilesInv /\ ImageInv /\ [ImageNext \/ BundleNext \/ InputsNext]_artifactVars => ImageInv'
  BY NextImage
<1>4. QED
  BY <1>1, <1>2, <1>3, InitImage, PTL DEF ArtifactsSpec
-------------------------------------------------------------------------------
\* What the layout of a network needs to keep it alive: numbers in the compiler's
\* report (the patterns of aot_layout.py match digits), a guard band as wide as the
\* wound of a write, and a memory that holds what is laid out, which nothing in the
\* code checks.
ReportShape ==
  \A n \in Networks :
    /\ InfoOf(n).inter \in Nat /\ InfoOf(n).configFilter \in Nat
    /\ Usable(InfoOf(n)) =>
         /\ InputSize(n) \in Nat /\ Size(n, "Output") \in Nat
         /\ Lines(InfoOf(n), "Output")[1].offset \in Nat

GuardsCover ==
  /\ Wound \in Nat /\ Aligns \subseteq Nat \ {0} /\ Guards \subseteq Nat
  /\ \A g \in Guards : Wound <= g

LayoutsFit ==
  /\ Capacity \in Nat
  /\ \A n \in Networks, a \in Aligns, g \in Guards : Usable(InfoOf(n)) =>
       /\ Resolved(n, a, g).input + InputSize(n) <= Capacity
       /\ Resolved(n, a, g).output + Size(n, "Output") <= Capacity

\* Rounding up to an alignment never goes below.
LEMMA RoundsUp ==
  ASSUME NEW n \in Nat, NEW a \in Nat \ {0}
  PROVE  RoundUp(n, a) \in Nat /\ n <= RoundUp(n, a)
<1> DEFINE q == (n + a - 1) \div a
           r == (n + a - 1) % a
<1>1. q \in Nat /\ r \in 0 .. (a - 1) /\ n + a - 1 = a * q + r
  BY SMTT(30)
<1> HIDE DEF q, r
<1>2. a * q \in Nat /\ a * q = q * a
  BY <1>1, SMTT(30)
<1>3. n <= q * a
  BY <1>1, <1>2
<1>4. QED
  BY <1>2, <1>3 DEF RoundUp, q

\* The places of one network are apart: scratch space below the weights, these below
\* the input by at least a guard band, the output not below the input.
LEMMA PlacesApart ==
  ASSUME ReportShape, GuardsCover, LayoutsFit,
         NEW n \in Networks, NEW a \in Aligns, NEW g \in Guards, Usable(InfoOf(n))
  PROVE  LET p == Resolved(n, a, g)
         IN  /\ p.network = n
             /\ p.scratch \in Nat /\ p.config \in Nat /\ p.input \in Nat /\ p.output \in Nat
             /\ p.scratch + InfoOf(n).inter <= p.config
             /\ p.config + InfoOf(n).configFilter + Wound <= p.input
             /\ p.input <= p.output
             /\ p.input + InputSize(n) <= Capacity
             /\ p.output + Size(n, "Output") <= Capacity
<1> DEFINE info == InfoOf(n)
           scratch == RoundUp(0, a)
           c1 == RoundUp(info.inter, a)
           config == RoundUp(scratch + c1 + g, a)
           i1 == RoundUp(info.configFilter, a)
           input == RoundUp(config + i1 + g, a)
           output == input + Lines(info, "Output")[1].offset
<1>1. /\ info.inter \in Nat /\ info.configFilter \in Nat
      /\ Lines(info, "Output")[1].offset \in Nat
      /\ a \in Nat \ {0} /\ g \in Nat /\ Wound \in Nat /\ Wound <= g
  BY DEF ReportShape, GuardsCover
<1>2. scratch \in Nat /\ c1 \in Nat /\ info.inter <= c1
  BY <1>1, RoundsUp
<1>3. i1 \in Nat /\ info.configFilter <= i1
  BY <1>1, RoundsUp
<1> HIDE DEF scratch, c1, i1
<1>4. config \in Nat /\ scratch + c1 + g <= config
  <2>1. scratch + c1 + g \in Nat
    BY <1>1, <1>2
  <2>2. QED
    BY <1>1, <2>1, RoundsUp
<1> HIDE DEF config
<1>5. input \in Nat /\ config + i1 + g <= input
  <2>1. config + i1 + g \in Nat
    BY <1>1, <1>3, <1>4
  <2>2. QED
    BY <1>1, <2>1, RoundsUp
<1> HIDE DEF input
<1>6. output \in Nat /\ input <= output
  BY <1>1, <1>5
<1> HIDE DEF output
<1>7. Resolved(n, a, g) = [network |-> n, scratch |-> scratch, config |-> config,
                           input |-> input, output |-> output]
  BY DEF Resolved, scratch, c1, i1, config, input, output
<1>8. /\ Resolved(n, a, g).input + InputSize(n) <= Capacity
      /\ Resolved(n, a, g).output + Size(n, "Output") <= Capacity
  BY DEF LayoutsFit
<1>9. scratch + info.inter <= config /\ config + info.configFilter + Wound <= input
  BY <1>1, <1>2, <1>3, <1>4, <1>5
<1>10. QED
  BY <1>2, <1>4, <1>5, <1>6, <1>7, <1>8, <1>9

\* A write leaves its data, and every word that is neither written nor wounded.
LEMMA PutWrites ==
  ASSUME NEW m, NEW base \in Nat, NEW len \in Nat, NEW data, DOMAIN data = 0 .. (len - 1),
         DOMAIN m = 0 .. (Capacity - 1), Capacity \in Nat, Wound \in Nat
  PROVE  /\ DOMAIN Put(m, base, data) = 0 .. (Capacity - 1)
         /\ base + len <= Capacity =>
              \A i \in 0 .. (len - 1) : Put(m, base, data)[base + i] = data[i]
         /\ \A c \in 0 .. (Capacity - 1) :
              (c < base - Wound \/ base + len <= c) => Put(m, base, data)[c] = m[c]
<1>1. DOMAIN Put(m, base, data) = 0 .. (Capacity - 1)
  BY DEF Put
<1>2. ASSUME base + len <= Capacity, NEW i \in 0 .. (len - 1)
      PROVE  Put(m, base, data)[base + i] = data[i]
  <2>1. base + i \in DOMAIN m /\ (base + i) - base = i
    BY <1>2
  <2>2. QED
    BY <1>2, <2>1 DEF Put
<1>3. ASSUME NEW c \in 0 .. (Capacity - 1), c < base - Wound \/ base + len <= c
      PROVE  Put(m, base, data)[c] = m[c]
  <2>1. c - base \notin DOMAIN data /\ c \notin (base - Wound) .. (base - 1)
    BY <1>3
  <2>2. QED
    BY <1>3, <2>1 DEF Put
<1>4. QED
  BY <1>1, <1>2, <1>3

\* The inductive invariant: behind the compile step the layout is this network's own,
\* its weights are in the memory from their load on, the input at the start of the
\* device, the output at the read.
Live == {"weights", "input", "run", "read", "parity"}

PlacementTypes ==
  /\ network \in Networks /\ align \in Aligns /\ guard \in Guards
  /\ dumps \in SUBSET Networks /\ IsFiniteSet(dumps)
  /\ DOMAIN mem = 0 .. (Capacity - 1)

PlacementInv ==
  /\ PlacementTypes
  /\ at \in Live => place = Resolved(network, align, guard) /\ Usable(InfoOf(network))
  /\ at \in Live \ {"weights"} => Holds(place.config, Weights(network))
  /\ at = "run" => Holds(place.input, InputOf(network, job))
  /\ at = "read" => Holds(place.output, OutputOf(network, job))
  /\ at = "parity" => out = OutputOf(network, job)

LEMMA InitPlacement == ReportShape /\ GuardsCover /\ LayoutsFit /\ PlaceInit => PlacementInv
<1> SUFFICES ASSUME PlaceInit
             PROVE  PlacementInv
  OBVIOUS
<1>1. PlacementTypes
  BY FS_EmptySet DEF PlaceInit, PlacementTypes
<1>2. QED
  BY <1>1 DEF PlaceInit, PlacementInv, Live

\* Where the words of a network lie while its layout is in use.
LEMMA Laid ==
  ASSUME ReportShape, GuardsCover, LayoutsFit, PlacementInv, at \in Live
  PROVE  /\ place.network = network
         /\ place.scratch \in Nat /\ place.config \in Nat /\ place.input \in Nat /\ place.output \in Nat
         /\ place.scratch + InfoOf(network).inter <= place.config
         /\ place.config + InfoOf(network).configFilter + Wound <= place.input
         /\ place.input <= place.output
         /\ place.input + InputSize(network) <= Capacity
         /\ place.output + Size(network, "Output") <= Capacity
         /\ InfoOf(network).inter \in Nat /\ InfoOf(network).configFilter \in Nat
         /\ InputSize(network) \in Nat /\ Size(network, "Output") \in Nat
         /\ Capacity \in Nat /\ Wound \in Nat
         /\ DOMAIN mem = 0 .. (Capacity - 1)
<1>1. /\ network \in Networks /\ align \in Aligns /\ guard \in Guards
      /\ place = Resolved(network, align, guard) /\ Usable(InfoOf(network))
      /\ DOMAIN mem = 0 .. (Capacity - 1)
  BY DEF PlacementInv, PlacementTypes
<1>2. /\ InfoOf(network).inter \in Nat /\ InfoOf(network).configFilter \in Nat
      /\ InputSize(network) \in Nat /\ Size(network, "Output") \in Nat
      /\ Capacity \in Nat /\ Wound \in Nat
  BY <1>1 DEF ReportShape, GuardsCover, LayoutsFit
<1>3. QED
  BY <1>1, <1>2, PlacesApart

LEMMA NextPlacement ==
  ASSUME ReportShape, GuardsCover, LayoutsFit, PlacementInv, [PlaceNext]_placeVars
  PROVE  PlacementInv'
<1>1. PlacementTypes
  BY DEF PlacementInv
<1>2. CASE Compile
  <2>1. /\ at = "compile"
        /\ dumps' \in {dumps, dumps \cup {network}}
        /\ UNCHANGED <<network, align, guard, dumpdir, job, out, mem>>
    BY <1>2 DEF Compile, Raise, Arguments
  <2>2. PlacementTypes'
    BY <1>1, <2>1, FS_AddElement DEF PlacementTypes
  <2>3. CASE Raise
    BY <2>2, <2>3 DEF Raise, Go, PlacementInv, Live
  <2>4. CASE ~ Raise
    <3>1. /\ dumps' = dumps \cup {network} /\ Found(dumps') /\ Usable(InfoOf(network))
          /\ \E n \in {CHOOSE d \in dumps' : TRUE} : place' = Resolved(n, align, guard)
          /\ at' = "weights"
      BY <1>2, <2>4 DEF Compile, Go
    <3>2. dumps' = {network}
      <4>1. IsFiniteSet(dumps') /\ Cardinality(dumps') = 1
        BY <2>2, <3>1 DEF PlacementTypes, Found
      <4>2. \E x : dumps' = {x}
        BY <4>1, FS_Singleton
      <4>3. QED
        BY <3>1, <4>2
    <3>3. (CHOOSE d \in dumps' : TRUE) = network
      BY <3>2
    <3>4. place' = Resolved(network, align, guard)
      BY <3>1, <3>3
    <3>5. place' = Resolved(network, align, guard)'
      BY <2>1, <3>4 DEF Resolved
    <3>6. Usable(InfoOf(network))'
      BY <2>1, <3>1
    <3>7. QED
      BY <2>2, <3>1, <3>5, <3>6 DEF PlacementInv, Live
  <2>5. QED
    BY <2>3, <2>4
<1>3. ASSUME at \in Live, UNCHANGED <<network, align, guard, dumps, place>>
      PROVE  /\ place' = Resolved(network, align, guard)' /\ Usable(InfoOf(network))'
             /\ DOMAIN mem' = 0 .. (Capacity - 1) => PlacementTypes'
  <2>1. place = Resolved(network, align, guard) /\ Usable(InfoOf(network))
    BY <1>3 DEF PlacementInv
  <2>2. place' = Resolved(network, align, guard)' /\ Usable(InfoOf(network))'
    BY <1>3, <2>1 DEF Resolved
  <2>3. QED
    BY <1>1, <1>3, <2>2 DEF PlacementTypes
<1>4. ASSUME Raise, UNCHANGED <<network, align, guard, dumps>>
      PROVE  PlacementInv'
  BY <1>1, <1>4 DEF Raise, Go, PlacementInv, PlacementTypes, Live
<1>5. CASE LoadConfigFilter
  <2>1. UNCHANGED <<network, align, guard, dumps, job, out>> /\ at = "weights"
    BY <1>5 DEF LoadConfigFilter, Arguments
  <2> DEFINE blob == Weights(network)
             base == place.config
             len == InfoOf(network).configFilter
  <2>2. CASE mem' = Put(mem, place.config, blob) /\ Go("input") /\ UNCHANGED place
    <3>1. DOMAIN blob = 0 .. (len - 1)
      BY DEF Weights, Blob
    <3>2. /\ base \in Nat /\ len \in Nat /\ base + len <= Capacity
          /\ Capacity \in Nat /\ Wound \in Nat /\ DOMAIN mem = 0 .. (Capacity - 1)
      <4>1. /\ base + len + Wound <= place.input /\ place.input + InputSize(network) <= Capacity
            /\ place.input \in Nat /\ InputSize(network) \in Nat
        BY <2>1, Laid DEF Live
      <4>2. /\ base \in Nat /\ len \in Nat
            /\ Capacity \in Nat /\ Wound \in Nat /\ DOMAIN mem = 0 .. (Capacity - 1)
        BY <2>1, Laid DEF Live
      <4> HIDE DEF base, len
      <4>3. QED
        BY <4>1, <4>2
    <3>3. /\ DOMAIN mem' = 0 .. (Capacity - 1)
          /\ \A i \in DOMAIN blob : mem'[base + i] = blob[i]
      <4>1. mem' = Put(mem, base, blob)
        BY <2>2
      <4> HIDE DEF blob, base, len
      <4>2. QED
        BY <3>1, <3>2, <4>1, PutWrites
    <3>4. Holds(place.config, Weights(network))'
      BY <2>1, <2>2, <3>3 DEF Holds, Weights
    <3>5. at' = "input"
      BY <2>2 DEF Go
    <3>6. QED
      BY <1>3, <2>1, <2>2, <3>3, <3>4, <3>5 DEF PlacementInv, Live
  <2>3. QED
    BY <1>4, <1>5, <2>1, <2>2 DEF LoadConfigFilter
<1>6. CASE LoadInput
  <2>1. UNCHANGED <<network, align, guard, dumps, out>> /\ at = "input"
    BY <1>6 DEF LoadInput, Arguments
  <2> DEFINE blob == InputOf(network, job + 1)
             base == place.input
             len == InputSize(network)
             below == InfoOf(network).configFilter
  <2>a. /\ base \in Nat /\ len \in Nat /\ base + len <= Capacity
        /\ Capacity \in Nat /\ Wound \in Nat /\ DOMAIN mem = 0 .. (Capacity - 1)
        /\ place.config \in Nat /\ below \in Nat /\ place.config + below + Wound <= base
    BY <2>1, Laid DEF Live
  <2>2. CASE mem' = Put(mem, place.input, blob) /\ job' = job + 1 /\ Go("run") /\ UNCHANGED place
    <3>1. DOMAIN blob = 0 .. (len - 1)
      BY DEF InputOf, Blob
    <3>2. blob = InputOf(network, job)'
      BY <2>1, <2>2
    <3>3. /\ DOMAIN mem' = 0 .. (Capacity - 1)
          /\ \A i \in DOMAIN blob : mem'[base + i] = blob[i]
          /\ \A c \in 0 .. (Capacity - 1) : c < base - Wound => mem'[c] = mem[c]
      <4>1. mem' = Put(mem, base, blob)
        BY <2>2
      <4> HIDE DEF blob, base, len
      <4>2. /\ DOMAIN Put(mem, base, blob) = 0 .. (Capacity - 1)
            /\ \A i \in 0 .. (len - 1) : Put(mem, base, blob)[base + i] = blob[i]
            /\ \A c \in 0 .. (Capacity - 1) : c < base - Wound => Put(mem, base, blob)[c] = mem[c]
        <5>1. /\ base \in Nat /\ len \in Nat /\ base + len <= Capacity /\ DOMAIN blob = 0 .. (len - 1)
              /\ Capacity \in Nat /\ Wound \in Nat /\ DOMAIN mem = 0 .. (Capacity - 1)
          BY <2>a, <3>1
        <5>2. DOMAIN Put(mem, base, blob) = 0 .. (Capacity - 1)
          BY ONLY <5>1 DEF Put
        <5>3. \A i \in 0 .. (len - 1) : Put(mem, base, blob)[base + i] = blob[i]
          BY ONLY <5>1, PutWrites
        <5>4. \A c \in 0 .. (Capacity - 1) : c < base - Wound => Put(mem, base, blob)[c] = mem[c]
          BY ONLY <5>1, PutWrites
        <5>5. QED
          BY <5>2, <5>3, <5>4
      <4>3. QED
        BY <3>1, <4>1, <4>2
    <3> HIDE DEF blob
    <3>4. Holds(place.input, InputOf(network, job))'
      BY <2>2, <3>2, <3>3 DEF Holds
    <3>5. Holds(place.config, Weights(network))'
      <4>1. Holds(place.config, Weights(network))
        BY <2>1 DEF PlacementInv, Live
      <4>2. DOMAIN Weights(network) = 0 .. (below - 1)
        BY DEF Weights, Blob
      <4>3. ASSUME NEW i \in DOMAIN Weights(network)
            PROVE  mem'[place.config + i] = mem[place.config + i]
        <5> HIDE DEF base, len, below
        <5>1. place.config + i \in 0 .. (Capacity - 1) /\ place.config + i < base - Wound
          BY <2>a, <4>2
        <5>2. QED
          BY <3>3, <5>1
      <4>4. QED
        BY <2>1, <2>2, <4>1, <4>3 DEF Holds, Weights
    <3>6. at' = "run"
      BY <2>2 DEF Go
    <3>7. QED
      BY <1>3, <2>1, <2>2, <3>3, <3>4, <3>5, <3>6 DEF PlacementInv, Live
  <2>3. QED
    BY <1>4, <1>6, <2>1, <2>2 DEF LoadInput
<1>7. CASE RunInference
  <2>1. UNCHANGED <<network, align, guard, dumps, job, out>> /\ at = "run"
    BY <1>7 DEF RunInference, Arguments
  <2> DEFINE base == place.output
             len == Size(network, "Output")
             lowest == place.scratch
             spill == InfoOf(network).inter
             below == InfoOf(network).configFilter
  <2>a. /\ base \in Nat /\ len \in Nat /\ base + len <= Capacity
        /\ lowest \in Nat /\ spill \in Nat /\ lowest + spill <= place.config
        /\ Capacity \in Nat /\ Wound \in Nat /\ DOMAIN mem = 0 .. (Capacity - 1)
        /\ place.config \in Nat /\ below \in Nat /\ place.input \in Nat
        /\ place.config + below + Wound <= place.input /\ place.input <= base
    BY <2>1, Laid DEF Live
  <2>2. CASE Device /\ Go("read") /\ UNCHANGED place
    <3> DEFINE blob == OutputOf(network, job)
               scratch == Blob("scratch", job, spill)
               scratched == Put(mem, lowest, scratch)
    <3>1. Holds(place.config, Weights(network)) /\ Holds(place.input, InputOf(network, job))
      BY <2>1 DEF PlacementInv, Live
    <3>2. mem' = Put(scratched, base, blob)
      BY <2>2, <3>1 DEF Device
    <3>3. DOMAIN blob = 0 .. (len - 1)
      BY DEF OutputOf, Blob
    <3>4. DOMAIN scratch = 0 .. (spill - 1)
      BY DEF Blob
    <3>5. /\ DOMAIN scratched = 0 .. (Capacity - 1)
          /\ \A c \in 0 .. (Capacity - 1) : lowest + spill <= c => scratched[c] = mem[c]
      <4> HIDE DEF scratch, lowest, spill
      <4>1. QED
        BY <2>a, <3>4, PutWrites
    <3>6. /\ DOMAIN mem' = 0 .. (Capacity - 1)
          /\ \A i \in DOMAIN blob : mem'[base + i] = blob[i]
          /\ \A c \in 0 .. (Capacity - 1) : c < base - Wound => mem'[c] = scratched[c]
      <4> HIDE DEF blob, scratched, base, len
      <4>1. QED
        BY <2>a, <3>2, <3>3, <3>5, PutWrites
    <3> HIDE DEF scratched
    <3>7. Holds(place.output, OutputOf(network, job))'
      BY <2>1, <2>2, <3>6 DEF Holds, blob
    <3>8. Holds(place.config, Weights(network))'
      <4>1. DOMAIN Weights(network) = 0 .. (below - 1)
        BY DEF Weights, Blob
      <4>2. ASSUME NEW i \in DOMAIN Weights(network)
            PROVE  mem'[place.config + i] = mem[place.config + i]
        <5> HIDE DEF base, len, below, lowest, spill
        <5>1. /\ place.config + i \in 0 .. (Capacity - 1)
              /\ lowest + spill <= place.config + i /\ place.config + i < base - Wound
          BY <2>a, <4>1
        <5>2. QED
          BY <3>5, <3>6, <5>1
      <4>3. QED
        BY <2>1, <2>2, <3>1, <4>2 DEF Holds, Weights
    <3>9. at' = "read"
      BY <2>2 DEF Go
    <3>10. QED
      BY <1>3, <2>1, <2>2, <3>6, <3>7, <3>8, <3>9 DEF PlacementInv, Live
  <2>3. QED
    BY <1>4, <1>7, <2>1, <2>2 DEF RunInference
<1>8. CASE ReadBack
  <2>1. /\ UNCHANGED <<network, align, guard, dumps, place, mem, job>> /\ at = "read" /\ at' = "parity"
        /\ out' = [i \in 0 .. (Size(place.network, "Output") - 1) |-> mem[place.output + i]]
    BY <1>8 DEF ReadBack, Arguments, Go
  <2>2. place.network = network /\ DOMAIN mem = 0 .. (Capacity - 1)
    BY <2>1, Laid DEF Live
  <2>3. out' = OutputOf(network, job)
    <3>1. Holds(place.output, OutputOf(network, job))
      BY <2>1 DEF PlacementInv
    <3>2. OutputOf(network, job) = [i \in 0 .. (Size(network, "Output") - 1) |-> OutputOf(network, job)[i]]
      BY DEF OutputOf, Blob
    <3>3. DOMAIN OutputOf(network, job) = 0 .. (Size(network, "Output") - 1)
      BY DEF OutputOf, Blob
    <3>4. QED
      BY <2>1, <2>2, <3>1, <3>2, <3>3 DEF Holds
  <2>4. Holds(place.config, Weights(network))'
    BY <2>1 DEF PlacementInv, Live, Holds, Weights
  <2>5. QED
    BY <1>3, <2>1, <2>2, <2>3, <2>4 DEF PlacementInv, Live
<1>9. CASE SameNetwork
  <2>1. /\ UNCHANGED <<network, align, guard, dumps, place, mem, job>> /\ at = "parity"
        /\ at' \in {"input", "weights"}
    BY <1>9 DEF SameNetwork, Again, Go
  <2>2. DOMAIN mem = 0 .. (Capacity - 1)
    BY <1>1 DEF PlacementTypes
  <2>3. Holds(place.config, Weights(network))'
    BY <2>1 DEF PlacementInv, Live, Holds, Weights
  <2>4. QED
    BY <1>3, <2>1, <2>2, <2>3 DEF PlacementInv, Live
<1>10. CASE NextNetwork
  <2>1. /\ UNCHANGED <<align, guard, mem>> /\ at' = "compile"
        /\ network' \in Networks /\ dumps' \in {{}, dumps}
    BY <1>10 DEF NextNetwork, Again, Go
  <2>2. PlacementTypes'
    BY <1>1, <2>1, FS_EmptySet DEF PlacementTypes
  <2>3. QED
    BY <2>1, <2>2 DEF PlacementInv, Live
<1>11. CASE UNCHANGED placeVars
  BY <1>11 DEF placeVars, PlacementInv, PlacementTypes, Live, Holds, Weights, InputOf, OutputOf, Resolved
<1>12. QED
  BY <1>2, <1>5, <1>6, <1>7, <1>8, <1>9, <1>10, <1>11 DEF PlaceNext

\* Whatever networks are placed and run one after the other on one memory, with any
\* alignment: the output that is read back is the network's own for its own input, if a
\* guard band is no narrower than a wound and the memory holds what is laid out.
THEOREM OutputsOwn ==
  ReportShape /\ GuardsCover /\ LayoutsFit => (PlaceSpec => []OutputsSurvive)
<1> SUFFICES ASSUME ReportShape, GuardsCover, LayoutsFit
             PROVE  PlaceSpec => []OutputsSurvive
  OBVIOUS
<1>1. PlaceInit => PlacementInv
  BY InitPlacement
<1>2. PlacementInv /\ [PlaceNext]_placeVars => PlacementInv'
  BY NextPlacement
<1>3. PlacementInv => OutputsSurvive
  BY Laid DEF PlacementInv, OutputsSurvive, Live
<1>4. QED
  BY <1>1, <1>2, <1>3, PTL DEF PlaceSpec

-------------------------------------------------------------------------------
(* L0: the loop of the golden model, and the run beside it.                 *)

\* The first m iterations of the loop.
Prefix(f, m, n) == f = [i \in 0 .. m |-> IF i = 0 THEN GoldenStart ELSE GoldenStep(f[i - 1], n)]

LEMMA PrefixFacts ==
  ASSUME NEW f, NEW m \in Nat, NEW n, Prefix(f, m, n)
  PROVE  /\ f[0] = GoldenStart
         /\ \A i \in Nat : i + 1 <= m => f[i + 1] = GoldenStep(f[i], n)
<1>1. \A i \in 0 .. m : f[i] = IF i = 0 THEN GoldenStart ELSE GoldenStep(f[i - 1], n)
  BY Zenon DEF Prefix
<1>2. 0 \in 0 .. m
  OBVIOUS
<1>3. ASSUME NEW i \in Nat, i + 1 <= m PROVE f[i + 1] = GoldenStep(f[i], n)
  <2>1. i + 1 \in 0 .. m /\ i + 1 # 0 /\ (i + 1) - 1 = i
    BY <1>3
  <2>2. QED
    BY <1>1, <2>1, Zenon
<1>4. QED
  BY <1>1, <1>2, <1>3, Zenon

LEMMA PrefixesAgree ==
  ASSUME NEW f, NEW g, NEW l \in Nat, NEW m \in Nat, NEW n, Prefix(f, l, n), Prefix(g, m, n)
  PROVE  \A i \in Nat : i <= l /\ i <= m => f[i] = g[i]
<1> DEFINE Bad == {i \in Nat : i <= l /\ i <= m /\ f[i] # g[i]}
<1>1. SUFFICES ASSUME Bad # {} PROVE FALSE
  BY Zenon
<1>2. PICK i \in Bad : \A j \in Bad : i <= j
  <2>1. Bad \in SUBSET Nat
    BY Zenon
  <2>2. QED
    BY <1>1, <2>1, Least, Zenon
<1>3. CASE i = 0
  BY <1>3, PrefixFacts, Zenon
<1>4. CASE i # 0
  <2>1. i \in Nat /\ i - 1 \in Nat /\ i - 1 <= l /\ i - 1 <= m /\ ~(i <= i - 1) /\ (i - 1) + 1 = i
    BY <1>4
  <2>2. f[i - 1] = g[i - 1]
    BY <1>2, <2>1, Zenon
  <2>3. f[(i - 1) + 1] = GoldenStep(f[i - 1], n) /\ g[(i - 1) + 1] = GoldenStep(g[i - 1], n)
    <3>1. (i - 1) + 1 <= l /\ (i - 1) + 1 <= m
      BY <1>4
    <3>2. QED
      BY <2>1, <3>1, PrefixFacts, Zenon
  <2>4. QED
    BY <2>1, <2>2, <2>3, Zenon
<1>5. QED
  BY <1>3, <1>4, Zenon

LEMMA PrefixExists == \A n : \A m \in Nat : \E f : Prefix(f, m, n)
<1> SUFFICES ASSUME NEW n PROVE \A m \in Nat : \E f : Prefix(f, m, n)
  OBVIOUS
<1> DEFINE Bad == {m \in Nat : ~\E f : Prefix(f, m, n)}
<1>1. SUFFICES ASSUME Bad # {} PROVE FALSE
  BY Zenon
<1>2. PICK m \in Bad : \A j \in Bad : m <= j
  <2>1. Bad \in SUBSET Nat
    BY Zenon
  <2>2. QED
    BY <1>1, <2>1, Least, Zenon
<1>3. CASE m = 0
  <2> DEFINE f == [i \in 0 .. 0 |-> GoldenStart]
  <2>1. \A i \in 0 .. 0 : i = 0
    OBVIOUS
  <2>2. f = [i \in 0 .. 0 |-> IF i = 0 THEN GoldenStart ELSE GoldenStep(f[i - 1], n)]
    BY <2>1, Zenon
  <2>3. QED
    BY <1>3, <2>2, Zenon DEF Prefix
<1>4. CASE m # 0
  <2>1. m - 1 \in Nat /\ ~(m <= m - 1)
    BY <1>4
  <2>2. PICK f : Prefix(f, m - 1, n)
    BY <1>2, <2>1, Zenon
  <2> DEFINE g == [i \in 0 .. m |-> IF i = m THEN GoldenStep(f[m - 1], n) ELSE f[i]]
  <2>3. ASSUME NEW i \in 0 .. m
        PROVE g[i] = IF i = 0 THEN GoldenStart ELSE GoldenStep(g[i - 1], n)
    <3>1. CASE i = 0
      <4>1. g[i] = f[0]
        BY <1>4, <3>1
      <4>2. QED
        BY <2>1, <2>2, <3>1, <4>1, PrefixFacts, Zenon
    <3>2. CASE i # 0
      <4>1. i - 1 \in Nat /\ i - 1 \in 0 .. m /\ i - 1 # m /\ (i - 1) + 1 = i
        BY <3>2
      <4>2. g[i - 1] = f[i - 1]
        BY <4>1, Zenon
      <4>3. CASE i = m
        BY <3>2, <4>2, <4>3, Zenon
      <4>4. CASE i # m
        <5>1. (i - 1) + 1 <= m - 1
          BY <3>2, <4>4
        <5>2. f[(i - 1) + 1] = GoldenStep(f[i - 1], n)
          BY <2>1, <2>2, <4>1, <5>1, PrefixFacts, Zenon
        <5>3. QED
          BY <3>2, <4>1, <4>2, <4>4, <5>2, Zenon
      <4>5. QED
        BY <4>3, <4>4, Zenon
    <3>3. QED
      BY <3>1, <3>2, Zenon
  <2>4. g = [i \in 0 .. m |-> g[i]]
    BY Zenon
  <2> HIDE DEF g
  <2>5. Prefix(g, m, n)
    BY <2>3, <2>4, Zenon DEF Prefix
  <2>6. QED
    BY <2>5, Zenon
<1>5. QED
  BY <1>3, <1>4, Zenon

\* The loop is what l0_golden's while computes, iteration by iteration.
LEMMA LoopFacts ==
  ASSUME NEW n
  PROVE  /\ GoldenLoop(n)[0] = GoldenStart
         /\ \A i \in Nat : GoldenLoop(n)[i + 1] = GoldenStep(GoldenLoop(n)[i], n)
<1> DEFINE P(i) == CHOOSE f : Prefix(f, i, n)
           F == [i \in Nat |-> P(i)[i]]
           Loop(f) == f = [i \in Nat |-> IF i = 0 THEN GoldenStart ELSE GoldenStep(f[i - 1], n)]
<1>1. \A i \in Nat : Prefix(P(i), i, n)
  BY PrefixExists, Zenon
<1> HIDE DEF P
<1>2. ASSUME NEW i \in Nat
      PROVE F[i] = IF i = 0 THEN GoldenStart ELSE GoldenStep(F[i - 1], n)
  <2>1. CASE i = 0
    BY <1>1, <2>1, PrefixFacts, Zenon
  <2>2. CASE i # 0
    <3>1. i - 1 \in Nat /\ (i - 1) + 1 = i /\ (i - 1) + 1 <= i /\ i - 1 <= i /\ i - 1 <= i - 1
      BY <2>2
    <3>2. P(i)[(i - 1) + 1] = GoldenStep(P(i)[i - 1], n)
      BY <1>1, <3>1, PrefixFacts, Zenon
    <3>3. P(i)[i - 1] = P(i - 1)[i - 1]
      BY <1>1, <3>1, PrefixesAgree, ZenonT(60)
    <3>4. F[i - 1] = P(i - 1)[i - 1] /\ F[i] = P(i)[i]
      BY <3>1, Zenon
    <3>5. QED
      BY <2>2, <3>1, <3>2, <3>3, <3>4, Zenon
  <2>3. QED
    BY <2>1, <2>2, Zenon
<1>3. F = [i \in Nat |-> F[i]]
  BY Zenon
<1> HIDE DEF F
<1>4. Loop(F)
  BY <1>2, <1>3, Zenon
<1>5. GoldenLoop(n) = CHOOSE f : Loop(f)
  BY Zenon DEF GoldenLoop
<1>6. Loop(GoldenLoop(n))
  BY <1>4, <1>5, Zenon
<1>7. \A i \in Nat : GoldenLoop(n)[i] = IF i = 0 THEN GoldenStart ELSE GoldenStep(GoldenLoop(n)[i - 1], n)
  BY <1>6, Zenon
<1>8. \A i \in Nat : i + 1 \in Nat /\ i + 1 # 0 /\ (i + 1) - 1 = i
  OBVIOUS
<1>9. 0 \in Nat
  OBVIOUS
<1>10. QED
  BY <1>7, <1>8, <1>9, Zenon

\* A run under way is the golden loop after as many iterations as it has clocks.
Replays(n, c, v, s, a) == GoldenLoop(n)[c] = [cycles |-> c, done |-> v, checksum |-> s, acc |-> a]

Alike ==
  /\ running /\ ~done /\ vector < l0Asked.n /\ shifted = cycle
  /\ vector = (IF cycle >= FillCycles THEN cycle - FillCycles ELSE 0)
  /\ Replays(l0Asked.n, cycle, vector, sum, cascade)

\* One that has ended is the loop at its end.
AtEnd == ~running /\ done /\ cycle # 0 /\ vector = l0Asked.n /\ Latched = GoldenL0(l0Asked.n)

L0Inv ==
  /\ cycle \in Nat /\ vector \in Nat
  /\ l0pc # "ended" => l0Asked.n \in Vectors /\ nVectors = l0Asked.n
  /\ l0pc \in {"poll", "latch", "conclude"} => Alike \/ AtEnd
  /\ l0pc \in {"latch", "conclude"} => done
  /\ l0pc = "conclude" => snap = Latched
  /\ L0RunsAreGolden

LEMMA FillFacts == FillCycles \in Nat /\ FillCycles # 0
BY L0Assumption DEF FillCycles

\* A clock of the chain is an iteration of the loop.
LEMMA EdgeIsStep ==
  ASSUME l0Asked.n \in Nat, nVectors = l0Asked.n, cycle \in Nat, vector \in Nat, Alike, L0Edge
  PROVE  Alike' \/ AtEnd'
<1> DEFINE n == l0Asked.n
           c == cycle
           g == GoldenLoop(n)[c]
           h == GoldenLoop(n)[c + 1]
<1>1. /\ running /\ ~done /\ vector < n /\ shifted = c
      /\ vector = (IF c >= FillCycles THEN c - FillCycles ELSE 0)
      /\ g = [cycles |-> c, done |-> vector, checksum |-> sum, acc |-> cascade]
  BY Zenon DEF Alike, Replays
<1>2. /\ cycle' = c + 1 /\ shifted' = c + 1
      /\ cascade' = Advanced0(cascade, c) /\ l0Asked' = l0Asked
  BY <1>1, Zenon DEF L0Edge
<1>3. h = GoldenStep(g, n)
  BY LoopFacts, Zenon
<1> HIDE DEF g, h
<1>4. g.cycles = c /\ g.done = vector /\ g.checksum = sum /\ g.acc = cascade
  BY <1>1
<1>5. ~(vector >= n)
  BY <1>1
<1>6. CASE ~(c >= FillCycles)
  <2>1. UNCHANGED <<sum, vector, running, done>>
    BY <1>6, Zenon DEF L0Edge, Retire
  <2>2. vector + 0 = vector /\ vector = 0 /\ 0 = IF c + 1 >= FillCycles THEN c + 1 - FillCycles ELSE 0
    BY <1>1, <1>6, FillFacts
  <2>3. h = [cycles |-> c + 1, done |-> vector, checksum |-> sum, acc |-> Advanced0(cascade, c)]
    BY <1>3, <1>4, <1>5, <1>6, <2>2, Zenon DEF GoldenStep
  <2>4. Replays(l0Asked.n, c + 1, vector, sum, Advanced0(cascade, c))
    BY <2>3, Zenon DEF Replays, h
  <2>5. Alike'
    <3>1. Replays(l0Asked'.n, cycle', vector', sum', cascade')
      BY <1>2, <2>1, <2>4, Zenon
    <3>2. vector' = IF cycle' >= FillCycles THEN cycle' - FillCycles ELSE 0
      BY <1>2, <1>6, <2>1, <2>2, FillFacts
    <3>3. running' /\ ~done' /\ vector' < l0Asked'.n /\ shifted' = cycle'
      BY <1>1, <1>2, <2>1, Zenon
    <3>4. QED
      BY <3>1, <3>2, <3>3, Zenon DEF Alike
  <2>6. QED
    BY <2>5, Zenon
<1>7. CASE c >= FillCycles
  <2>1. /\ sum' = SymDiff(sum, {cascade[LastBlock]}) /\ vector' = vector + 1
        /\ running' = (vector' < n) /\ done' = (vector' >= n)
    BY <1>7, Zenon DEF L0Edge, Retire
  <2>2. /\ h.cycles = c + 1 /\ h.done = vector + 1 /\ h.checksum = sum'
        /\ h = [cycles |-> c + 1, done |-> vector + 1, checksum |-> sum',
                acc |-> IF vector + 1 >= n THEN cascade ELSE Advanced0(cascade, c)]
    <3>1. h = [cycles |-> c + 1, done |-> vector + 1, checksum |-> sum',
               acc |-> IF vector + 1 >= n THEN cascade ELSE Advanced0(cascade, c)]
      BY <1>3, <1>4, <1>5, <1>7, <2>1, Zenon DEF GoldenStep
    <3>2. QED
      BY <3>1
  <2>3. CASE vector + 1 >= n
    <3>1. vector + 1 = n /\ c + 1 = FillCycles + n /\ c + 1 \in Nat /\ c + 1 # 0 /\ n >= n /\ ~(n < n)
      BY <1>1, <1>7, <2>3, FillFacts
    <3>2. GoldenLoop(n)[(c + 1) + 1] = GoldenStep(h, n)
      BY <3>1, LoopFacts, Zenon DEF h
    <3>3. GoldenStep(h, n) = h
      BY <2>2, <3>1, Zenon DEF GoldenStep
    <3>4. GoldenL0(n) = [cycles |-> c + 1, done |-> vector + 1, checksum |-> sum']
      BY <2>2, <3>1, <3>2, <3>3, Zenon DEF GoldenL0
    <3>5. AtEnd'
      BY <1>2, <2>1, <3>1, <3>4, Zenon DEF AtEnd, Latched
    <3>6. QED
      BY <3>5, Zenon
  <2>4. CASE ~(vector + 1 >= n)
    <3>1. vector + 1 < n /\ c + 1 >= FillCycles /\ vector + 1 = c + 1 - FillCycles
      BY <1>1, <1>7, <2>4, FillFacts
    <3>2. Replays(l0Asked.n, c + 1, vector + 1, sum', Advanced0(cascade, c))
      BY <2>2, <2>4, Zenon DEF Replays, h
    <3>3. Alike'
      <4>1. Replays(l0Asked'.n, cycle', vector', sum', cascade')
        BY <1>2, <2>1, <3>2, Zenon
      <4>2. vector' = IF cycle' >= FillCycles THEN cycle' - FillCycles ELSE 0
        BY <1>2, <2>1, <3>1, FillFacts
      <4>3. running' /\ ~done' /\ vector' < l0Asked'.n /\ shifted' = cycle'
        BY <1>2, <2>1, <2>4, <3>1, Zenon
      <4>4. QED
        BY <4>1, <4>2, <4>3, Zenon DEF Alike
    <3>4. QED
      BY <3>3, Zenon
  <2>5. QED
    BY <2>3, <2>4, Zenon
<1>8. QED
  BY <1>6, <1>7, Zenon

LEMMA InitL0 == L0Init => L0Inv
BY DEF L0Init, L0Inv, L0RunsAreGolden

LEMMA NextL0 == L0Inv /\ [L0Next]_l0vars => L0Inv'
<1> SUFFICES ASSUME L0Inv, [L0Next]_l0vars PROVE L0Inv'
  OBVIOUS
<1>1. CASE L0Edge
  <2>1. l0pc' = l0pc /\ l0Asked' = l0Asked /\ nVectors' = nVectors /\ snap' = snap /\ l0Runs' = l0Runs /\ running
    BY <1>1, Zenon DEF L0Edge
  <2>2. cycle' \in Nat /\ vector' \in Nat
    <3>1. cycle' = cycle + 1 /\ (vector' = vector \/ vector' = vector + 1)
      BY <1>1, Zenon DEF L0Edge
    <3>2. QED
      BY <3>1 DEF L0Inv
  <2>3. L0RunsAreGolden'
    BY <2>1, Zenon DEF L0Inv, L0RunsAreGolden
  <2>4. ASSUME l0pc \in {"poll", "latch", "conclude"} PROVE Alike /\ (Alike' \/ AtEnd')
    <3>1. Alike
      BY <2>1, <2>4, Zenon DEF L0Inv, AtEnd
    <3>2. l0Asked.n \in Nat /\ nVectors = l0Asked.n /\ cycle \in Nat /\ vector \in Nat
      <4>1. l0pc # "ended"
        BY <2>4
      <4>2. QED
        BY <4>1, L0Assumption DEF L0Inv
    <3>3. QED
      BY <1>1, <3>1, <3>2, EdgeIsStep, Zenon
  <2>5. ~(l0pc \in {"latch", "conclude"})
    BY <2>4, Zenon DEF L0Inv, Alike
  <2>6. QED
    BY <2>1, <2>2, <2>3, <2>4, <2>5 DEF L0Inv
<1>2. CASE \E n \in Vectors, verify \in BOOLEAN : BeginL0(n, verify)
  <2>1. PICK n \in Vectors, verify \in BOOLEAN : BeginL0(n, verify)
    BY <1>2, Zenon
  <2>2. /\ l0Asked' = [n |-> n, verify |-> verify] /\ l0pc' = "start" /\ nVectors' = n
        /\ cycle' = cycle /\ vector' = vector /\ l0Runs' = l0Runs
    BY <2>1, Zenon DEF BeginL0
  <2>3. l0Asked'.n = n
    BY <2>2, Zenon
  <2>4. QED
    BY <2>2, <2>3, Zenon DEF L0Inv, L0RunsAreGolden
<1>3. CASE StartL0
  <2>1. /\ l0pc = "start" /\ l0pc' = "poll" /\ l0Asked' = l0Asked /\ nVectors' = nVectors /\ l0Runs' = l0Runs
        /\ running' = TRUE /\ done' = FALSE /\ cycle' = 0 /\ vector' = 0 /\ sum' = {}
        /\ shifted' = 0 /\ cascade' = Empty
    BY <1>3, Zenon DEF StartL0, StartChain
  <2>2. GoldenLoop(l0Asked.n)[0] = [cycles |-> 0, done |-> 0, checksum |-> {}, acc |-> Empty]
    BY LoopFacts, Zenon DEF GoldenStart
  <2>3. Empty' = Empty
    BY Zenon DEF Empty
  <2>4. 0 < l0Asked.n /\ ~(0 >= FillCycles)
    <3>1. l0Asked.n \in Vectors
      BY <2>1 DEF L0Inv
    <3>2. l0Asked.n \in Nat \ {0}
      BY <3>1, L0Assumption, Zenon
    <3>3. 0 < l0Asked.n
      BY <3>2
    <3>4. ~(0 >= FillCycles)
      BY FillFacts
    <3>5. QED
      BY <3>3, <3>4, Zenon
  <2>5. Alike'
    <3>1. Replays(l0Asked.n, 0, 0, {}, Empty)
      BY <2>2, Zenon DEF Replays
    <3>2. 0 = IF 0 >= FillCycles THEN 0 - FillCycles ELSE 0
      BY <2>4, Zenon
    <3>3. QED
      BY <2>1, <2>4, <3>1, <3>2 DEF Alike
  <2>6. QED
    BY <2>1, <2>5 DEF L0Inv, L0RunsAreGolden
<1>4. CASE PollL0
  <2>1. l0pc = "poll" /\ done /\ l0pc' = "latch" /\ UNCHANGED <<chainVars, l0Asked, l0Runs>>
    BY <1>4, Zenon DEF PollL0
  <2>2. QED
    BY <2>1 DEF L0Inv, L0RunsAreGolden, Alike, AtEnd, Latched, chainVars
<1>5. CASE TimeOutL0
  BY <1>5 DEF TimeOutL0, L0Inv, L0RunsAreGolden, chainVars
<1>6. CASE LatchL0
  <2>1. /\ l0pc = "latch" /\ l0pc' = "conclude" /\ snap' = Latched
        /\ UNCHANGED <<running, done, cycle, vector, sum, nVectors, shifted, cascade, l0Asked, l0Runs>>
    BY <1>6, Zenon DEF LatchL0
  <2>2. Latched' = Latched /\ (Alike' <=> Alike) /\ (AtEnd' <=> AtEnd)
    BY <2>1 DEF Latched, Alike, AtEnd
  <2>3. QED
    BY <2>1, <2>2 DEF L0Inv, L0RunsAreGolden
<1>7. CASE ConcludeL0
  <2>1. /\ l0pc = "conclude" /\ l0pc' = "ended" /\ UNCHANGED <<cycle, vector>>
        /\ l0Runs' = l0Runs \cup {[n |-> l0Asked.n, verify |-> l0Asked.verify, counters |-> snap, reported |-> Accepts]}
    BY <1>7 DEF ConcludeL0, chainVars
  <2>2. AtEnd /\ snap = Latched
    <3>1. (Alike \/ AtEnd) /\ done /\ snap = Latched
      BY <2>1, Zenon DEF L0Inv
    <3>2. QED
      BY <3>1, Zenon DEF Alike
  <2>3. snap = GoldenL0(l0Asked.n) /\ snap.done = l0Asked.n /\ snap.cycles # 0
    <3>1. Latched.done = vector /\ Latched.cycles = cycle
      BY Zenon DEF Latched
    <3>2. QED
      BY <2>2, <3>1, Zenon DEF AtEnd
  <2>4. Accepts
    BY <2>3, Zenon DEF Accepts
  <2>5. \A r \in l0Runs' : r.reported /\ r.counters = GoldenL0(r.n)
    <3>1. \A r \in l0Runs : r.reported /\ r.counters = GoldenL0(r.n)
      BY Zenon DEF L0Inv, L0RunsAreGolden
    <3> DEFINE new == [n |-> l0Asked.n, verify |-> l0Asked.verify, counters |-> snap, reported |-> Accepts]
    <3>2. new.reported = Accepts /\ new.counters = snap /\ new.n = l0Asked.n
      OBVIOUS
    <3>3. new.reported /\ new.counters = GoldenL0(new.n)
      BY <2>3, <2>4, <3>2, Zenon
    <3> HIDE DEF new
    <3>4. l0Runs' = l0Runs \cup {new}
      BY <2>1, Zenon DEF new
    <3>5. QED
      BY <3>1, <3>3, <3>4, Zenon
  <2>6. QED
    BY <2>1, <2>5 DEF L0Inv, L0RunsAreGolden
<1>8. CASE UNCHANGED l0vars
  BY <1>8 DEF l0vars, chainVars, L0Inv, L0RunsAreGolden, Alike, AtEnd, Latched
<1>9. QED
  BY <1>1, <1>2, <1>3, <1>4, <1>5, <1>6, <1>7, <1>8, Zenon DEF L0Next

LEMMA L0Golden == L0Spec => []L0RunsAreGolden
<1>1. L0Inv => L0RunsAreGolden
  BY Zenon DEF L0Inv
<1>2. QED
  BY <1>1, InitL0, NextL0, PTL DEF L0Spec

-------------------------------------------------------------------------------
(* L2: what folding keeps.                                                  *)

Odd(S) == Cardinality(S) % 2 = 1

LEMMA Parity == \A n \in Nat : (n + 1) % 2 = 1 <=> ~(n % 2 = 1)
OBVIOUS

LEMMA OddAdds ==
  ASSUME NEW S, IsFiniteSet(S), NEW x, x \notin S
  PROVE  Odd(S \cup {x}) <=> ~Odd(S)
<1>1. Cardinality(S \cup {x}) = Cardinality(S) + 1
  BY FS_AddElement, Zenon
<1>2. Cardinality(S) \in Nat
  BY FS_CardinalityType, Zenon
<1>3. QED
  BY <1>1, <1>2, Parity, Zenon DEF Odd

LEMMA OddEmpty == ~Odd({})
<1>1. Cardinality({}) = 0
  BY FS_EmptySet, Zenon
<1>2. 0 % 2 # 1
  OBVIOUS
<1>3. QED
  BY <1>1, <1>2, Zenon DEF Odd

\* The words with an odd number of occurrences.
LEMMA FoldedHas ==
  ASSUME NEW f, NEW w
  PROVE  w \in Folded(f) <=> Odd({x \in DOMAIN f : w \in f[x]})
<1>1. ASSUME Odd({x \in DOMAIN f : w \in f[x]})
      PROVE w \in UNION {f[x] : x \in DOMAIN f}
  <2>1. {x \in DOMAIN f : w \in f[x]} # {}
    BY <1>1, OddEmpty, Zenon
  <2>2. QED
    BY <2>1, Zenon
<1>2. QED
  BY <1>1, Zenon DEF Folded, Odd

\* The first n words of a bank, in turns, folded.
Kept(b, n) == Folded([p \in 0 .. n - 1 |-> {<<b, p % Depth>>}])

Hits(b, n, w) == {p \in 0 .. n - 1 : w = <<b, p % Depth>>}

LEMMA KeptHas == \A b, n, w : w \in Kept(b, n) <=> Odd(Hits(b, n, w))
<1> SUFFICES ASSUME NEW b, NEW n, NEW w PROVE w \in Kept(b, n) <=> Odd(Hits(b, n, w))
  OBVIOUS
<1> DEFINE f == [p \in 0 .. n - 1 |-> {<<b, p % Depth>>}]
<1>1. {x \in DOMAIN f : w \in f[x]} = Hits(b, n, w)
  BY Zenon DEF Hits
<1> HIDE DEF f
<1>2. Kept(b, n) = Folded(f)
  BY Zenon DEF Kept, f
<1>3. QED
  BY <1>1, <1>2, FoldedHas, Zenon

LEMMA HitsFinite == \A b, w : \A n \in Nat : IsFiniteSet(Hits(b, n, w))
<1> SUFFICES ASSUME NEW b, NEW w, NEW n \in Nat PROVE IsFiniteSet(Hits(b, n, w))
  OBVIOUS
<1>1. IsFiniteSet(0 .. n - 1)
  <2>1. 0 \in Int /\ n - 1 \in Int
    OBVIOUS
  <2>2. QED
    BY <2>1, FS_Interval, Zenon
<1>2. Hits(b, n, w) \in SUBSET (0 .. n - 1)
  BY Zenon DEF Hits
<1>3. QED
  BY <1>1, <1>2, FS_Subset, Zenon

LEMMA KeptNone == \A b : Kept(b, 0) = {}
<1> SUFFICES ASSUME NEW b, NEW w PROVE w \notin Kept(b, 0)
  BY Zenon
<1>1. 0 .. 0 - 1 = {}
  OBVIOUS
<1>2. Hits(b, 0, w) = {}
  BY <1>1, Zenon DEF Hits
<1>3. QED
  BY <1>2, KeptHas, OddEmpty, Zenon

LEMMA FoldHas == \A A, B, w : w \in Fold(A, B) <=> ~(w \in A <=> w \in B)
BY Zenon DEF Fold, SymDiff

\* One more read, one more word folded in.
LEMMA KeptNext == \A b : \A n \in Nat : Kept(b, n + 1) = Fold(Kept(b, n), {<<b, n % Depth>>})
<1> SUFFICES ASSUME NEW b, NEW n \in Nat
             PROVE  Kept(b, n + 1) = Fold(Kept(b, n), {<<b, n % Depth>>})
  OBVIOUS
<1> SUFFICES ASSUME NEW w
             PROVE  w \in Kept(b, n + 1) <=> w \in Fold(Kept(b, n), {<<b, n % Depth>>})
  BY Zenon
<1> DEFINE new == {<<b, n % Depth>>}
<1>0. /\ w \in Kept(b, n + 1) <=> Odd(Hits(b, n + 1, w))
      /\ w \in Kept(b, n) <=> Odd(Hits(b, n, w))
      /\ w \in Fold(Kept(b, n), new) <=> ~(w \in Kept(b, n) <=> w \in new)
  BY KeptHas, FoldHas, ZenonT(60)
<1>1. 0 .. (n + 1) - 1 = (0 .. n - 1) \cup {n} /\ n \notin 0 .. n - 1
  OBVIOUS
<1>2. CASE w = <<b, n % Depth>>
  <2>1. Hits(b, n + 1, w) = Hits(b, n, w) \cup {n} /\ n \notin Hits(b, n, w)
    BY <1>1, <1>2, Zenon DEF Hits
  <2>2. IsFiniteSet(Hits(b, n, w))
    BY HitsFinite, Zenon
  <2>3. Odd(Hits(b, n, w) \cup {n}) <=> ~Odd(Hits(b, n, w))
    BY <2>1, <2>2, OddAdds, Zenon
  <2>4. w \in new
    BY <1>2, Zenon
  <2> HIDE DEF new
  <2>5. Odd(Hits(b, n + 1, w)) <=> ~Odd(Hits(b, n, w))
    BY <2>1, <2>3, Zenon
  <2>6. w \in Fold(Kept(b, n), new) <=> ~(w \in Kept(b, n))
    BY <1>0, <2>4, Zenon
  <2>7. QED
    BY <1>0, <2>5, <2>6, Zenon DEF new
<1>3. CASE w # <<b, n % Depth>>
  <2>1. Hits(b, n + 1, w) = Hits(b, n, w)
    BY <1>1, <1>3, Zenon DEF Hits
  <2>2. w \notin new
    BY <1>3, Zenon
  <2> HIDE DEF new
  <2>3. w \in Fold(Kept(b, n), new) <=> w \in Kept(b, n)
    BY <1>0, <2>2, Zenon
  <2>4. QED
    BY <1>0, <2>1, <2>3, Zenon DEF new
<1>4. QED
  BY <1>2, <1>3, Zenon

\* Reads of a bank, its p-th read the E[p]-th of all, fold to the same.
LEMMA ReadsKept ==
  ASSUME NEW b, NEW k \in Nat, NEW E, NEW R, R = {<<b, p, E[p]>> : p \in 0 .. k - 1}
  PROVE  Folded([r \in R |-> {<<b, r[2] % Depth>>}]) = Kept(b, k)
<1> DEFINE f == [r \in R |-> {<<b, r[2] % Depth>>}]
<1> SUFFICES ASSUME NEW w PROVE w \in Folded(f) <=> w \in Kept(b, k)
  BY Zenon
<1> DEFINE H == {x \in DOMAIN f : w \in f[x]}
           P == Hits(b, k, w)
           h == [p \in P |-> <<b, p, E[p]>>]
<1>1. H = {r \in R : w = <<b, r[2] % Depth>>}
  BY Zenon
<1>2. \A p : <<b, p, E[p]>>[2] = p
  OBVIOUS
<1>3. \A p \in P : p \in 0 .. k - 1 /\ w = <<b, p % Depth>>
  BY Zenon DEF Hits
<1>4. h \in Bijection(P, H)
  <2>1. ASSUME NEW p \in P PROVE h[p] \in H
    <3>1. h[p] = <<b, p, E[p]>> /\ h[p] \in R /\ h[p][2] = p
      BY <1>2, <1>3, Zenon
    <3>2. QED
      BY <1>1, <1>3, <3>1, Zenon
  <2>2. h \in [P -> H]
    BY <2>1, Zenon
  <2>3. \A p, q \in P : h[p] = h[q] => p = q
    <3>1. \A p \in P : h[p][2] = p
      BY <1>2, Zenon
    <3>2. QED
      BY <3>1, Zenon
  <2>4. ASSUME NEW r \in H PROVE \E p \in P : h[p] = r
    <3>1. PICK p \in 0 .. k - 1 : r = <<b, p, E[p]>>
      BY <1>1, Zenon
    <3>2. r[2] = p
      BY <1>2, <3>1, Zenon
    <3>3. p \in P
      BY <1>1, <3>2, Zenon DEF Hits
    <3>4. QED
      BY <3>1, <3>3, Zenon
  <2> HIDE DEF h
  <2>5. h \in Injection(P, H)
    BY <2>2, <2>3, Zenon DEF Injection, IsInjective
  <2>6. h \in Surjection(P, H)
    BY <2>2, <2>4, Zenon DEF Surjection
  <2>7. QED
    BY <2>5, <2>6, Zenon DEF Bijection
<1>5. Cardinality(H) = Cardinality(P)
  <2>1. ExistsBijection(P, H)
    BY <1>4, Zenon DEF ExistsBijection
  <2>2. QED
    BY <2>1, HitsFinite, FS_Bijection, Zenon
<1>6. Odd(H) <=> Odd(P)
  BY <1>5, Zenon DEF Odd
<1>7. w \in Folded(f) <=> Odd(H)
  BY FoldedHas, Zenon
<1>8. QED
  BY <1>6, <1>7, KeptHas, Zenon

\* Where in a bank and when in the run the p-th read of bank b is.
LEMMA BankReads ==
  ASSUME NEW k \in Nat, NEW g \in {"banked", "shared"}, NEW b \in Bank
  PROVE  \E E : {r \in Replayed(k, g) : r[1] = b} = {<<b, p, E[p]>> : p \in 0 .. k - 1}
<1> DEFINE R == {r \in Replayed(k, g) : r[1] = b}
           T(E) == {<<b, p, E[p]>> : p \in 0 .. k - 1}
<1>1. \A x, y, z : <<x, y, z>>[1] = x
  OBVIOUS
<1>2. CASE g = "banked"
  <2> DEFINE E == [p \in 0 .. k - 1 |-> p]
  <2>1. Replayed(k, g) = {<<c, p, p>> : c \in Bank, p \in 0 .. k - 1}
    <3>1. g # "shared"
      BY <1>2
    <3>2. QED
      BY <3>1 DEF Replayed
  <2>2. ASSUME NEW r \in R PROVE r \in T(E)
    <3>0. r \in Replayed(k, g) /\ r[1] = b
      BY Zenon
    <3>1. PICK c \in Bank, p \in 0 .. k - 1 : r = <<c, p, p>>
      BY <2>1, <3>0
    <3>2. c = b
      BY <1>1, <3>0, <3>1, Zenon
    <3>3. QED
      BY <3>1, <3>2, Zenon
  <2>3. ASSUME NEW r \in T(E) PROVE r \in R
    <3>1. PICK p \in 0 .. k - 1 : r = <<b, p, E[p]>>
      BY Zenon
    <3>2. r = <<b, p, p>>
      BY <3>1, Zenon
    <3>3. <<b, p, p>> \in Replayed(k, g)
      BY <2>1
    <3>4. QED
      BY <1>1, <3>2, <3>3, Zenon
  <2> HIDE DEF R, E
  <2>4. R = T(E)
    BY <2>2, <2>3, Zenon
  <2>5. QED
    BY <2>4, Zenon DEF R
<1>3. CASE g = "shared"
  <2> DEFINE E == [p \in 0 .. k - 1 |-> p * Banks + b]
  <2>1. Replayed(k, g) = {<<q % Banks, q \div Banks, q>> : q \in 0 .. k * Banks - 1}
    BY <1>3 DEF Replayed
  <2>2. Banks \in Nat \ {0} /\ b \in 0 .. Banks - 1
    BY L2Assumption DEF Bank
  <2>3. ASSUME NEW r \in R PROVE r \in T(E)
    <3>1. PICK q \in 0 .. k * Banks - 1 : r = <<q % Banks, q \div Banks, q>>
      BY <2>1, Zenon
    <3>2. q % Banks = b
      BY <1>1, <3>1, Zenon
    <3>3. q \in Nat /\ q < k * Banks
      BY <2>2
    <3>4. q \div Banks \in Nat /\ q = Banks * (q \div Banks) + b
      BY <2>2, <3>2, <3>3, ModParts, Zenon
    <3> DEFINE p == q \div Banks
    <3>5. p \in 0 .. k - 1 /\ p * Banks + b = q
      <4> HIDE DEF p
      <4>1. p \in Nat /\ q = Banks * p + b
        BY <3>4, Zenon DEF p
      <4>2. ~(p >= k)
        <5>1. SUFFICES ASSUME p >= k PROVE FALSE
          OBVIOUS
        <5>2. PICK d \in Nat : p = k + d
          BY <4>1, <5>1
        <5>3. Banks * p = k * Banks + Banks * d /\ Banks * d \in Nat
          BY <2>2, <5>2
        <5>4. k * Banks \in Nat
          BY <2>2
        <5>5. QED
          BY <2>2, <3>3, <4>1, <5>3, <5>4
      <4>3. QED
        BY <2>2, <4>1, <4>2
    <3> HIDE DEF p
    <3>6. r = <<b, p, E[p]>>
      BY <3>1, <3>2, <3>5, Zenon DEF p
    <3>7. QED
      BY <3>5, <3>6, Zenon
  <2>4. ASSUME NEW r \in T(E) PROVE r \in R
    <3>1. PICK p \in 0 .. k - 1 : r = <<b, p, E[p]>>
      BY Zenon
    <3> DEFINE q == p * Banks + b
    <3>2. r = <<b, p, q>>
      BY <3>1, Zenon
    <3>3. q \in 0 .. k * Banks - 1 /\ q \in Nat /\ q = Banks * p + b
      <4>1. PICK d \in Nat : k = p + 1 + d
        <5>1. k - p - 1 \in Nat /\ k = p + 1 + (k - p - 1)
          OBVIOUS
        <5>2. QED
          BY <5>1, Zenon
      <4>2. k * Banks = p * Banks + Banks + d * Banks /\ d * Banks \in Nat /\ p * Banks \in Nat /\ Banks * p = p * Banks
        BY <2>2, <4>1
      <4>3. QED
        BY <2>2, <4>2
    <3>4. q % Banks = b /\ q \div Banks = p
      <4>1. p \in Nat
        OBVIOUS
      <4>2. QED
        BY <2>2, <3>3, <4>1, ModUnique, Zenon
    <3> HIDE DEF q
    <3>5. QED
      BY <1>1, <2>1, <3>2, <3>3, <3>4, Zenon
  <2> HIDE DEF R, E
  <2>5. R = T(E)
    BY <2>3, <2>4, Zenon
  <2>6. QED
    BY <2>5, Zenon DEF R
<1>4. QED
  BY <1>2, <1>3, Zenon

Sums(n) == [b \in Bank |-> Kept(b, n)]

\* What the golden model predicts, bank by bank.
LEMMA GoldenKeeps ==
  ASSUME NEW k \in Nat, NEW g \in {"banked", "shared"}, NEW o
  PROVE  /\ Golden(k, g, o).sums = Sums(k)
         /\ GoldenAgg(k, g, o) = Folded(Sums(k))
         /\ Golden(k, g, o).cycles = (IF g = "shared" THEN k * Banks ELSE k) + (IF o THEN 2 ELSE 1)
<1> DEFINE R(b) == {r \in Replayed(k, g) : r[1] = b}
           S == [b \in Bank |-> Folded([r \in R(b) |-> {<<b, r[2] % Depth>>}])]
           C == (IF g = "shared" THEN k * Banks ELSE k) + (IF o THEN 2 ELSE 1)
<1>1. ASSUME NEW b \in Bank PROVE Folded([r \in R(b) |-> {<<b, r[2] % Depth>>}]) = Kept(b, k)
  <2>1. PICK E : R(b) = {<<b, p, E[p]>> : p \in 0 .. k - 1}
    BY BankReads, Zenon
  <2> DEFINE Rb == R(b)
  <2>2. Rb = {<<b, p, E[p]>> : p \in 0 .. k - 1}
    BY <2>1, Zenon
  <2> HIDE DEF Rb
  <2>3. Folded([r \in Rb |-> {<<b, r[2] % Depth>>}]) = Kept(b, k)
    BY <2>2, ReadsKept, ZenonT(60)
  <2>4. QED
    BY <2>3, Zenon DEF Rb
<1>2. S = Sums(k)
  BY <1>1, Zenon DEF Sums
<1>3. Golden(k, g, o) = [cycles |-> C, sums |-> S]
  BY Zenon DEF Golden
<1> HIDE DEF S, C
<1>4. Golden(k, g, o).sums = S /\ Golden(k, g, o).cycles = C
  BY <1>3
<1>5. QED
  BY <1>2, <1>4, Zenon DEF GoldenAgg, C

\* A word of bank c is in the aggregate when the bank has kept it.
LEMMA AggHas ==
  ASSUME NEW n \in Nat, NEW c \in Bank, NEW x
  PROVE  <<c, x>> \in Folded(Sums(n)) <=> <<c, x>> \in Kept(c, n)
<1> DEFINE w == <<c, x>>
           H == {b \in Bank : w \in Kept(b, n)}
<1>1. w \in Folded(Sums(n)) <=> Odd(H)
  <2>1. {b \in DOMAIN Sums(n) : w \in Sums(n)[b]} = H
    BY Zenon DEF Sums
  <2>2. QED
    BY <2>1, FoldedHas, Zenon
<1> HIDE DEF H
<1>2. ASSUME NEW b \in Bank, w \in Kept(b, n) PROVE b = c
  <2>1. Hits(b, n, w) # {}
    BY <1>2, KeptHas, OddEmpty, Zenon
  <2>2. PICK p \in Hits(b, n, w) : TRUE
    BY <2>1, Zenon
  <2>3. <<c, x>> = <<b, p % Depth>>
    BY <2>2, Zenon DEF Hits
  <2>4. QED
    BY <2>3
<1>3. CASE w \in Kept(c, n)
  <2>1. H = {c}
    BY <1>2, <1>3, Zenon DEF H
  <2>2. Cardinality(H) = 1
    BY <2>1, FS_Singleton, Zenon
  <2>3. 1 % 2 = 1
    OBVIOUS
  <2>4. QED
    BY <1>1, <1>3, <2>2, <2>3, Zenon DEF Odd
<1>4. CASE w \notin Kept(c, n)
  <2>1. H = {}
    BY <1>2, <1>4, Zenon DEF H
  <2>2. QED
    BY <1>1, <1>4, <2>1, OddEmpty, Zenon
<1>5. QED
  BY <1>3, <1>4, Zenon

\* One read more or less shows in the aggregate.
LEMMA AggsDiffer == \A n \in Nat : Folded(Sums(n + 1)) # Folded(Sums(n))
<1> SUFFICES ASSUME NEW n \in Nat PROVE Folded(Sums(n + 1)) # Folded(Sums(n))
  OBVIOUS
<1> DEFINE w == <<0, n % Depth>>
<1>1. 0 \in Bank /\ n + 1 \in Nat
  BY L2Assumption DEF Bank
<1>2. w \in Folded(Sums(n)) <=> w \in Kept(0, n)
  BY <1>1, AggHas, Zenon
<1>3. w \in Folded(Sums(n + 1)) <=> w \in Kept(0, n + 1)
  BY <1>1, AggHas, Zenon
<1>4. Kept(0, n + 1) = Fold(Kept(0, n), {w})
  BY KeptNext, Zenon
<1> HIDE DEF w
<1>5. w \in Fold(Kept(0, n), {w}) <=> ~(w \in Kept(0, n))
  BY Zenon DEF Fold, SymDiff
<1>6. QED
  BY <1>2, <1>3, <1>4, <1>5, Zenon

-------------------------------------------------------------------------------
(* L2: the core, clock by clock.                                            *)

\* How often bank b has been read after p pulses.
ReadsAt(b, p) ==
  IF geometry = "shared" THEN p \div Banks + (IF b < p % Banks THEN 1 ELSE 0) ELSE p

\* A bank's checksum once the output register has landed.
Pending(b) == Fold(checksum[b], IF outputReg THEN landed[b] ELSE {})

Total == IF geometry = "shared" THEN kReg * Banks ELSE kReg

CoreTypes ==
  /\ geometry \in {"banked", "shared"} /\ outputReg \in BOOLEAN
  /\ kReg \in 1 .. CounterSize - 1 /\ st \in {"idle", "run", "drain", "done"}
  /\ checksum = [b \in Bank |-> checksum[b]]
  /\ st \in {"idle", "done"} => \A b \in Bank : landed[b] = {}

AtWork ==
  /\ pulses \in Nat /\ pulses < Total /\ elapsedQ = pulses /\ rr = pulses % Banks /\ drain = 0
  /\ \A b \in Bank :
       /\ addr[b] = ReadsAt(b, pulses) % Depth
       /\ Pending(b) = Kept(b, ReadsAt(b, pulses))

Draining ==
  /\ drain \in {0, 1} /\ drain + 1 <= DrainCycles /\ elapsedQ = Total + drain
  /\ \A b \in Bank : Pending(b) = Kept(b, kReg) /\ (drain = 1 => landed[b] = {})

Done == elapsedQ = Total + DrainCycles /\ checksum = Sums(kReg) /\ agg = Folded(Sums(kReg))

CoreInv ==
  /\ CoreTypes
  /\ Fits(kReg) => /\ st = "run" => AtWork
                   /\ st = "drain" => Draining
                   /\ st = "done" /\ l2pc # "start" => Done

LEMMA ModNext ==
  ASSUME NEW m \in Nat \ {0}, NEW a \in Nat
  PROVE  ((a % m) + 1) % m = (a + 1) % m
<1> DEFINE q == a \div m
           r == a % m
<1>1. q \in Nat /\ r \in 0 .. m - 1 /\ a = m * q + r
  BY ModParts, Zenon
<1> HIDE DEF q, r
<1>2. r = m - 1 \/ r + 1 \in 0 .. m - 1
  BY <1>1
<1>3. CASE r + 1 \in 0 .. m - 1
  <2>1. a + 1 = m * q + (r + 1) /\ r + 1 = m * 0 + (r + 1)
    BY <1>1
  <2>2. a + 1 \in Nat /\ r + 1 \in Nat /\ 0 \in Nat
    BY <1>1
  <2>3. (a + 1) % m = r + 1 /\ (r + 1) % m = r + 1
    BY <1>1, <1>3, <2>1, <2>2, ModUnique, Zenon
  <2>4. QED
    BY <2>3, Zenon DEF r
<1>4. CASE r = m - 1
  <2>1. a + 1 = m * (q + 1) + 0 /\ r + 1 = m * 1 + 0
    BY <1>1, <1>4
  <2>2. a + 1 \in Nat /\ r + 1 \in Nat /\ q + 1 \in Nat /\ 1 \in Nat /\ 0 \in 0 .. m - 1
    BY <1>1
  <2>3. (a + 1) % m = 0 /\ (r + 1) % m = 0
    BY <2>1, <2>2, ModUnique, Zenon
  <2>4. QED
    BY <2>3, Zenon DEF r
<1>5. QED
  BY <1>2, <1>3, <1>4, Zenon

LEMMA Small == \A m \in Nat \ {0} : \A a \in 0 .. m - 1 : a % m = a /\ a \div m = 0
<1> SUFFICES ASSUME NEW m \in Nat \ {0}, NEW a \in 0 .. m - 1 PROVE a % m = a /\ a \div m = 0
  OBVIOUS
<1>1. a \in Nat /\ 0 \in Nat /\ a = m * 0 + a
  OBVIOUS
<1>2. QED
  BY <1>1, ModUnique, Zenon

LEMMA BanksPositive == Banks \in Nat \ {0} /\ Banks >= 3 /\ Depth \in Nat \ {0} /\ CounterSize \in Nat \ {0}
BY L2Assumption

\* One more pulse, one more read of every bank, or of the bank whose turn it is.
LEMMA ReadsNext ==
  ASSUME geometry \in {"banked", "shared"}, NEW p \in Nat, NEW b \in Bank
  PROVE  /\ ReadsAt(b, p) \in Nat
         /\ ReadsAt(b, p + 1) = IF geometry = "shared" /\ b # p % Banks THEN ReadsAt(b, p) ELSE ReadsAt(b, p) + 1
<1>1. CASE geometry = "shared"
  <2> DEFINE q == p \div Banks
             r == p % Banks
  <2>1. q \in Nat /\ r \in 0 .. Banks - 1 /\ p = Banks * q + r
    BY BanksPositive, ModParts, Zenon
  <2>2. ReadsAt(b, p) = q + (IF b < r THEN 1 ELSE 0)
    BY <1>1, Zenon DEF ReadsAt
  <2> HIDE DEF q, r
  <2>3. b \in 0 .. Banks - 1
    BY DEF Bank
  <2>4. ReadsAt(b, p) \in Nat
    BY <2>1, <2>2, <2>3
  <2>5. CASE r + 1 \in 0 .. Banks - 1
    <3>1. p + 1 = Banks * q + (r + 1) /\ p + 1 \in Nat
      BY <2>1, BanksPositive
    <3>2. (p + 1) % Banks = r + 1 /\ (p + 1) \div Banks = q
      BY <2>1, <2>5, <3>1, BanksPositive, ModUnique, Zenon
    <3>3. ReadsAt(b, p + 1) = q + (IF b < r + 1 THEN 1 ELSE 0)
      BY <1>1, <3>2, Zenon DEF ReadsAt
    <3>4. ReadsAt(b, p + 1) = IF b # r THEN ReadsAt(b, p) ELSE ReadsAt(b, p) + 1
      BY <2>1, <2>2, <2>3, <3>3
    <3>5. QED
      BY <1>1, <2>4, <3>4, Zenon DEF r
  <2>6. CASE r = Banks - 1
    <3>1. p + 1 = Banks * (q + 1) + 0 /\ p + 1 \in Nat /\ q + 1 \in Nat /\ 0 \in 0 .. Banks - 1
      BY <2>1, <2>6, BanksPositive
    <3>2. (p + 1) % Banks = 0 /\ (p + 1) \div Banks = q + 1
      BY <3>1, BanksPositive, ModUnique, Zenon
    <3>3. ReadsAt(b, p + 1) = (q + 1) + (IF b < 0 THEN 1 ELSE 0)
      BY <1>1, <3>2, Zenon DEF ReadsAt
    <3>4. ReadsAt(b, p + 1) = IF b # r THEN ReadsAt(b, p) ELSE ReadsAt(b, p) + 1
      BY <2>1, <2>2, <2>3, <2>6, <3>3
    <3>5. QED
      BY <1>1, <2>4, <3>4, Zenon DEF r
  <2>7. r + 1 \in 0 .. Banks - 1 \/ r = Banks - 1
    BY <2>1, BanksPositive
  <2>8. QED
    BY <2>5, <2>6, <2>7, Zenon
<1>2. CASE geometry # "shared"
  <2>1. \A x : ReadsAt(b, x) = x
    BY <1>2, Zenon DEF ReadsAt
  <2>2. QED
    BY <1>2, <2>1, Zenon
<1>3. QED
  BY <1>1, <1>2, Zenon

LEMMA ReadsEnds ==
  ASSUME kReg \in Nat, NEW b \in Bank
  PROVE  ReadsAt(b, 0) = 0 /\ ReadsAt(b, Total) = kReg
<1>1. CASE geometry = "shared"
  <2>1. kReg * Banks \in Nat /\ kReg * Banks = Banks * kReg + 0 /\ 0 = Banks * 0 + 0 /\ 0 \in 0 .. Banks - 1 /\ 0 \in Nat
    BY BanksPositive
  <2>2. /\ (kReg * Banks) % Banks = 0 /\ (kReg * Banks) \div Banks = kReg
        /\ 0 % Banks = 0 /\ 0 \div Banks = 0
    BY <2>1, BanksPositive, ModUnique, Zenon
  <2>3. ~(b < 0) /\ kReg + 0 = kReg /\ 0 + 0 = 0
    BY BanksPositive DEF Bank
  <2>4. QED
    BY <1>1, <2>2, <2>3, Zenon DEF ReadsAt, Total
<1>2. CASE geometry # "shared"
  BY <1>2, Zenon DEF ReadsAt, Total
<1>3. QED
  BY <1>1, <1>2, Zenon

LEMMA FitsFacts ==
  ASSUME CoreTypes, Fits(kReg)
  PROVE  TotalPulses = Total /\ Total \in Nat /\ 0 < Total /\ Total < CounterSize
<1>1. kReg \in 1 .. CounterSize - 1 /\ geometry \in {"banked", "shared"}
  BY Zenon DEF CoreTypes
<1>2. CASE geometry = "shared"
  <2>1. geometry # "banked"
    BY <1>2
  <2>2. kReg * Banks < CounterSize
    BY <2>1, Zenon DEF Fits
  <2>3. kReg * Banks \in Nat /\ 0 < kReg * Banks
    BY <1>1, BanksPositive
  <2>4. kReg * Banks \in 0 .. CounterSize - 1
    BY <2>2, <2>3, BanksPositive
  <2>5. (kReg * Banks) % CounterSize = kReg * Banks
    BY <2>4, Small, BanksPositive, Zenon
  <2>6. QED
    BY <1>2, <2>2, <2>3, <2>5, Zenon DEF Total, TotalPulses
<1>3. CASE geometry # "shared"
  <2>1. kReg \in Nat /\ 0 < kReg /\ kReg < CounterSize
    BY <1>1, BanksPositive
  <2>2. QED
    BY <1>3, <2>1, Zenon DEF Total, TotalPulses
<1>4. QED
  BY <1>2, <1>3, Zenon

LEMMA FoldNone == \A A : Fold(A, {}) = A
BY Zenon DEF Fold, SymDiff

\* What the banks do in a clock: a word more, if it is read, and the register lands.
LEMMA BanksStep ==
  ASSUME BanksEdge, outputReg' = outputReg, NEW b \in Bank
  PROVE  /\ Pending(b)' = Fold(Pending(b), IF b \in Reading THEN Word(b) ELSE {})
         /\ b \notin Reading => landed'[b] = {} /\ checksum'[b] = Pending(b)
<1> DEFINE new == IF b \in Reading THEN Word(b) ELSE {}
<1>1. /\ landed'[b] = new
      /\ checksum'[b] = Fold(checksum[b], IF outputReg THEN landed[b] ELSE new)
  BY Zenon DEF BanksEdge
<1>2. Pending(b)' = Fold(checksum'[b], IF outputReg THEN landed'[b] ELSE {})
  BY Zenon DEF Pending
<1>3. b \notin Reading => new = {}
  BY Zenon
<1>4. Pending(b) = Fold(checksum[b], IF outputReg THEN landed[b] ELSE {})
  BY Zenon DEF Pending
<1> HIDE DEF new
<1>5. CASE outputReg
  <2>1. checksum'[b] = Pending(b)
    BY <1>1, <1>4, <1>5, Zenon
  <2>2. Pending(b)' = Fold(Pending(b), new)
    BY <1>1, <1>2, <1>5, <2>1, Zenon
  <2>3. QED
    BY <1>1, <1>3, <2>1, <2>2, Zenon DEF new
<1>6. CASE ~outputReg
  <2>1. checksum[b] = Pending(b)
    BY <1>4, <1>6, FoldNone, Zenon
  <2>2. checksum'[b] = Fold(Pending(b), new)
    BY <1>1, <1>6, <2>1, Zenon
  <2>3. Pending(b)' = checksum'[b]
    BY <1>2, <1>6, FoldNone, Zenon
  <2>4. QED
    BY <1>1, <1>3, <2>2, <2>3, FoldNone, Zenon DEF new
<1>7. QED
  BY <1>5, <1>6, Zenon

LEMMA EdgeTypes == CoreTypes /\ L2Edge => CoreTypes'
<1> SUFFICES ASSUME CoreTypes, L2Edge PROVE CoreTypes'
  OBVIOUS
<1>1. geometry' = geometry /\ outputReg' = outputReg /\ kReg' = kReg
  BY Zenon DEF L2Edge
<1>2. st \in {"run", "drain"} /\ st' \in {"run", "drain", "done"} /\ (st' = "done" => st = "drain")
  BY DEF L2Edge, RunEdge, DrainEdge
<1>3. checksum' = [b \in Bank |-> checksum'[b]]
  BY Zenon DEF L2Edge, BanksEdge
<1>4. ASSUME st = "drain", NEW b \in Bank PROVE landed'[b] = {}
  <2>1. Reading = {}
    BY <1>4 DEF Reading
  <2>2. QED
    BY <2>1, <1>1, BanksStep, Zenon DEF L2Edge
<1>5. st' \in {"idle", "done"} => \A b \in Bank : landed'[b] = {}
  <2>1. st' # "idle"
    BY <1>2
  <2>2. QED
    BY <1>2, <1>4, <2>1, Zenon
<1>6. QED
  BY <1>1, <1>2, <1>3, <1>5 DEF CoreTypes

LEMMA RunStep ==
  ASSUME CoreTypes, Fits(kReg), AtWork, st = "run", L2Edge
  PROVE  (st' = "run" /\ AtWork') \/ (st' = "drain" /\ Draining')
<1>1. /\ geometry' = geometry /\ outputReg' = outputReg /\ kReg' = kReg /\ elapsedQ' = elapsedQ + 1 /\ BanksEdge
      /\ Total' = Total
  BY Zenon DEF L2Edge, Total
<1>2. RunEdge
  <2>1. st # "drain"
    BY DEF AtWork
  <2>2. QED
    BY <2>1, Zenon DEF L2Edge, DrainEdge
<1>3. /\ pulses \in Nat /\ pulses < Total /\ elapsedQ = pulses /\ rr = pulses % Banks /\ drain = 0
      /\ \A b \in Bank : addr[b] = ReadsAt(b, pulses) % Depth /\ Pending(b) = Kept(b, ReadsAt(b, pulses))
  BY Zenon DEF AtWork
<1>4. TotalPulses = Total /\ Total \in Nat /\ Total < CounterSize
  BY FitsFacts, Zenon
<1>5. pulses + 1 \in Nat /\ pulses + 1 <= Total /\ pulses + 1 \in 0 .. CounterSize - 1
  BY <1>3, <1>4, BanksPositive
<1>6. pulses' = pulses + 1 /\ rr' = (pulses + 1) % Banks /\ drain' = 0
  <2>1. (pulses + 1) % CounterSize = pulses + 1
    BY <1>5, BanksPositive, Small, Zenon
  <2>2. ((pulses % Banks) + 1) % Banks = (pulses + 1) % Banks
    BY <1>3, BanksPositive, ModNext, Zenon
  <2>3. QED
    BY <1>2, <1>3, <2>1, <2>2, Zenon DEF RunEdge
<1>7. ASSUME NEW b \in Bank
      PROVE  /\ addr'[b] = ReadsAt(b, pulses + 1) % Depth
             /\ Pending(b)' = Kept(b, ReadsAt(b, pulses + 1))
  <2> DEFINE n == ReadsAt(b, pulses)
  <2>1. /\ n \in Nat
        /\ ReadsAt(b, pulses + 1) = IF geometry = "shared" /\ b # pulses % Banks THEN n ELSE n + 1
    BY <1>3, ReadsNext, Zenon DEF CoreTypes
  <2>2. addr[b] = n % Depth /\ Pending(b) = Kept(b, n)
    BY <1>3, Zenon
  <2> HIDE DEF n
  <2>3. b \in Reading <=> ~(geometry = "shared" /\ b # pulses % Banks)
    BY <1>3, Zenon DEF Reading
  <2>4. /\ Pending(b)' = Fold(Pending(b), IF b \in Reading THEN Word(b) ELSE {})
        /\ addr'[b] = IF b \in Reading THEN (addr[b] + 1) % Depth ELSE addr[b]
    BY <1>1, BanksStep, Zenon DEF BanksEdge
  <2>5. CASE b \in Reading
    <3>1. ReadsAt(b, pulses + 1) = n + 1
      BY <2>1, <2>3, <2>5, Zenon
    <3>2. ((n % Depth) + 1) % Depth = (n + 1) % Depth
      BY <2>1, BanksPositive, ModNext, Zenon
    <3>3. Fold(Kept(b, n), {<<b, n % Depth>>}) = Kept(b, n + 1)
      BY <2>1, KeptNext, Zenon
    <3>4. QED
      BY <2>2, <2>4, <2>5, <3>1, <3>2, <3>3, Zenon DEF Word
  <2>6. CASE b \notin Reading
    <3>1. ReadsAt(b, pulses + 1) = n
      BY <2>1, <2>3, <2>6, Zenon
    <3>2. QED
      BY <2>2, <2>4, <2>6, <3>1, FoldNone, Zenon
  <2>7. QED
    BY <2>5, <2>6, Zenon
<1>8. \A b, p : ReadsAt(b, p)' = ReadsAt(b, p)
  BY <1>1, Zenon DEF ReadsAt
<1>9. CASE pulses + 1 = Total
  <2>1. st' = "drain"
    BY <1>2, <1>4, <1>6, <1>9, Zenon DEF RunEdge
  <2>2. \A b \in Bank : Pending(b)' = Kept(b, kReg)
    <3>1. kReg \in Nat
      BY BanksPositive DEF CoreTypes
    <3>2. \A b \in Bank : ReadsAt(b, Total) = kReg
      BY <3>1, ReadsEnds, Zenon
    <3>3. QED
      BY <1>7, <1>9, <3>2, Zenon
  <2>3. drain' = 0 /\ drain' \in {0, 1} /\ drain' # 1 /\ drain' + 1 <= DrainCycles'
    BY <1>6 DEF DrainCycles
  <2>4. elapsedQ' = Total' + drain'
    BY <1>1, <1>3, <1>4, <1>6, <1>9
  <2>5. Draining'
    BY <1>1, <2>2, <2>3, <2>4, Zenon DEF Draining
  <2>6. QED
    BY <2>1, <2>5, Zenon
<1>10. CASE pulses + 1 # Total
  <2>1. st' = "run"
    BY <1>2, <1>4, <1>6, <1>10, Zenon DEF RunEdge
  <2>2. pulses + 1 < Total
    BY <1>4, <1>5, <1>10
  <2>3. \A b \in Bank : addr'[b] = ReadsAt(b, pulses)' % Depth /\ Pending(b)' = Kept(b, ReadsAt(b, pulses)')
    <3>1. \A b : ReadsAt(b, pulses)' = ReadsAt(b, pulses + 1)
      BY <1>1, <1>6, Zenon DEF ReadsAt
    <3>2. QED
      BY <1>7, <3>1, Zenon
  <2>4. AtWork'
    BY <1>1, <1>3, <1>5, <1>6, <2>2, <2>3, Zenon DEF AtWork
  <2>5. QED
    BY <2>1, <2>4, Zenon
<1>11. QED
  BY <1>9, <1>10, Zenon

LEMMA DrainStep ==
  ASSUME CoreTypes, Fits(kReg), Draining, st = "drain", L2Edge
  PROVE  (st' = "drain" /\ Draining') \/ (st' = "done" /\ Done')
<1>1. /\ geometry' = geometry /\ outputReg' = outputReg /\ kReg' = kReg /\ elapsedQ' = elapsedQ + 1 /\ BanksEdge
      /\ Total' = Total /\ DrainCycles' = DrainCycles
  BY Zenon DEF L2Edge, Total, DrainCycles
<1>2. DrainEdge
  <2>1. st # "run"
    OBVIOUS
  <2>2. QED
    BY <2>1, Zenon DEF L2Edge, RunEdge
<1>3. /\ drain \in {0, 1} /\ drain + 1 <= DrainCycles /\ elapsedQ = Total + drain
      /\ \A b \in Bank : Pending(b) = Kept(b, kReg) /\ (drain = 1 => landed[b] = {})
  BY Zenon DEF Draining
<1>4. ASSUME NEW b \in Bank
      PROVE  Pending(b)' = Kept(b, kReg) /\ landed'[b] = {} /\ checksum'[b] = Kept(b, kReg)
  <2>1. b \notin Reading
    BY DEF Reading
  <2>2. Pending(b)' = Fold(Pending(b), {}) /\ landed'[b] = {} /\ checksum'[b] = Pending(b)
    BY <1>1, <2>1, BanksStep, Zenon
  <2>3. QED
    BY <1>3, <2>2, FoldNone, Zenon
<1>5. Total \in Nat /\ DrainCycles \in Nat
  BY FitsFacts DEF DrainCycles
<1>6. CASE drain + 1 >= DrainCycles
  <2>1. st' = "done" /\ agg' = Folded(checksum)
    BY <1>2, <1>6, Zenon DEF DrainEdge
  <2>2. ASSUME NEW b \in Bank PROVE checksum[b] = Kept(b, kReg)
    <3>1. outputReg => landed[b] = {}
      <4>1. outputReg => drain = 1
        BY <1>3, <1>6 DEF DrainCycles
      <4>2. QED
        BY <1>3, <4>1, Zenon
    <3>2. Pending(b) = Fold(checksum[b], {})
      BY <3>1, Zenon DEF Pending
    <3>3. checksum[b] = Pending(b)
      BY <3>2, FoldNone, Zenon
    <3>4. QED
      BY <1>3, <3>3, Zenon
  <2>3. checksum = Sums(kReg)
    BY <2>2, Zenon DEF CoreTypes, Sums
  <2>4. checksum' = Sums(kReg)
    <3>1. checksum' = [b \in Bank |-> checksum'[b]]
      BY <1>1, Zenon DEF BanksEdge
    <3>2. QED
      BY <1>4, <3>1, Zenon DEF Sums
  <2>5. elapsedQ' = Total + DrainCycles
    BY <1>1, <1>3, <1>5, <1>6
  <2>6. Done'
    BY <1>1, <2>1, <2>3, <2>4, <2>5, Zenon DEF Done
  <2>7. QED
    BY <2>1, <2>6, Zenon
<1>7. CASE ~(drain + 1 >= DrainCycles)
  <2>1. st' = "drain" /\ drain' = drain + 1
    BY <1>2, <1>7, Zenon DEF DrainEdge
  <2>2. drain' \in {0, 1} /\ drain' + 1 <= DrainCycles
    BY <1>3, <1>5, <1>7, <2>1 DEF DrainCycles
  <2>3. elapsedQ' = Total + drain'
    BY <1>1, <1>3, <1>5, <2>1
  <2>4. Draining'
    BY <1>1, <1>4, <2>2, <2>3, Zenon DEF Draining
  <2>5. QED
    BY <2>1, <2>4, Zenon
<1>8. QED
  BY <1>6, <1>7, Zenon

LEMMA EdgeCore == CoreInv /\ L2Edge => CoreInv'
<1> SUFFICES ASSUME CoreInv, L2Edge PROVE CoreInv'
  OBVIOUS
<1>1. CoreTypes /\ CoreTypes'
  BY EdgeTypes, Zenon DEF CoreInv
<1>2. Fits(kReg)' <=> Fits(kReg)
  BY Zenon DEF L2Edge, Fits
<1>3. ASSUME Fits(kReg)
      PROVE  (st' = "run" /\ AtWork') \/ (st' = "drain" /\ Draining') \/ (st' = "done" /\ Done')
  <2>1. CASE st = "run"
    BY <1>1, <1>3, <2>1, RunStep, Zenon DEF CoreInv
  <2>2. CASE st = "drain"
    BY <1>1, <1>3, <2>2, DrainStep, Zenon DEF CoreInv
  <2>3. st = "run" \/ st = "drain"
    BY Zenon DEF L2Edge, RunEdge, DrainEdge
  <2>4. QED
    BY <2>1, <2>2, <2>3, Zenon
<1>4. Fits(kReg) => (st' = "run" => AtWork') /\ (st' = "drain" => Draining') /\ (st' = "done" => Done')
  BY <1>3
<1>5. QED
  BY <1>1, <1>2, <1>4, Zenon DEF CoreInv

-------------------------------------------------------------------------------
(* L2: the runner and the recorder.                                         *)

HostInv ==
  /\ l2pc \in {"ended", "start", "poll", "read", "conclude"}
  /\ l2Taken /\ l2pc = "start" => ~Busy
  /\ l2Taken /\ l2pc # "ended" => kReg = l2Asked.k
  /\ l2pc \in {"read", "conclude"} => st = "done"
  /\ l2Seen = [cycles |-> l2Seen.cycles, sums |-> l2Seen.sums]
  /\ l2pc \in {"start", "poll"} => l2Seen = NothingSeen
  /\ l2pc = "read" =>
       /\ l2Seen.cycles \in {0, elapsedQ}
       /\ \E j \in 0 .. Banks - 1 :
            DOMAIN l2Seen.sums = 0 .. j - 1 /\ \A b \in 0 .. j - 1 : l2Seen.sums[b] = checksum[b]
  /\ l2pc = "conclude" => l2Seen.cycles = elapsedQ /\ l2Seen.sums = checksum

L2Inv == CoreInv /\ HostInv /\ L2NumbersAreGolden

\* What a run that is done shows is what the golden model says.
LEMMA DoneIsGolden ==
  ASSUME CoreInv, Fits(kReg), st = "done", l2pc # "start"
  PROVE  /\ checksum = Golden(kReg, geometry, outputReg).sums
         /\ elapsedQ = Golden(kReg, geometry, outputReg).cycles
         /\ agg = GoldenAgg(kReg, geometry, outputReg)
<1>1. Done
  BY Zenon DEF CoreInv
<1>2. kReg \in Nat /\ geometry \in {"banked", "shared"}
  BY BanksPositive DEF CoreInv, CoreTypes
<1>3. /\ Golden(kReg, geometry, outputReg).sums = Sums(kReg)
      /\ GoldenAgg(kReg, geometry, outputReg) = Folded(Sums(kReg))
      /\ Golden(kReg, geometry, outputReg).cycles
           = (IF geometry = "shared" THEN kReg * Banks ELSE kReg) + (IF outputReg THEN 2 ELSE 1)
  BY <1>2, GoldenKeeps, Zenon
<1>4. QED
  BY <1>1, <1>3, Zenon DEF Done, Total, DrainCycles

\* The gate lets k or geometry be wrong only together.
LEMMA GateHolds ==
  ASSUME CoreInv, Fits(kReg), st = "done", l2pc # "start",
         NEW k \in Ks, NEW g \in {"banked", "shared"}, NEW o \in BOOLEAN,
         Matches(k, g, o, [agg |-> agg, cycles |-> elapsedQ]),
         k = kReg \/ g = geometry
  PROVE  k = kReg /\ g = geometry /\ o = outputReg
<1>1. /\ kReg \in Nat \ {0} /\ geometry \in {"banked", "shared"} /\ outputReg \in BOOLEAN
      /\ k \in Nat \ {0}
  <2>1. k \in 1 .. CounterSize - 1
    BY L2Assumption, Zenon
  <2>2. QED
    BY <2>1, BanksPositive DEF CoreInv, CoreTypes
<1>2. agg = GoldenAgg(k, g, o) /\ elapsedQ = Golden(k, g, o).cycles
  <2> DEFINE s == [agg |-> agg, cycles |-> elapsedQ]
  <2>1. s.agg = agg /\ s.cycles = elapsedQ
    OBVIOUS
  <2> HIDE DEF s
  <2>2. Matches(k, g, o, s)
    BY Zenon DEF s
  <2>3. QED
    BY <2>1, <2>2, Zenon DEF Matches
<1>3. /\ agg = Folded(Sums(k)) /\ agg = Folded(Sums(kReg))
      /\ (IF g = "shared" THEN k * Banks ELSE k) + (IF o THEN 2 ELSE 1)
           = (IF geometry = "shared" THEN kReg * Banks ELSE kReg) + (IF outputReg THEN 2 ELSE 1)
  <2>1. k \in Nat /\ kReg \in Nat
    BY <1>1
  <2>2. Done
    BY Zenon DEF CoreInv
  <2>3. /\ GoldenAgg(k, g, o) = Folded(Sums(k))
        /\ Golden(k, g, o).cycles = (IF g = "shared" THEN k * Banks ELSE k) + (IF o THEN 2 ELSE 1)
    BY <2>1, GoldenKeeps, Zenon
  <2>4. QED
    BY <1>2, <2>2, <2>3, Zenon DEF Done, Total, DrainCycles
<1>4. CASE g = geometry
  <2>1. CASE geometry = "shared"
    <3>1. k * Banks + (IF o THEN 2 ELSE 1) = kReg * Banks + (IF outputReg THEN 2 ELSE 1)
      BY <1>3, <1>4, <2>1, Zenon
    <3>2. \A x, y \in Nat : x < y => x * Banks + Banks <= y * Banks /\ x * Banks \in Nat /\ y * Banks \in Nat
      <4> SUFFICES ASSUME NEW x \in Nat, NEW y \in Nat, x < y
                   PROVE  x * Banks + Banks <= y * Banks /\ x * Banks \in Nat /\ y * Banks \in Nat
        OBVIOUS
      <4>1. PICK d \in Nat : y = x + 1 + d
        <5>1. y - x - 1 \in Nat /\ y = x + 1 + (y - x - 1)
          OBVIOUS
        <5>2. QED
          BY <5>1, Zenon
      <4>2. y * Banks = x * Banks + Banks + d * Banks /\ d * Banks \in Nat /\ x * Banks \in Nat
        BY <4>1, BanksPositive
      <4>3. QED
        BY <4>2, BanksPositive
    <3>3. ~(k < kReg) /\ ~(kReg < k)
      BY <1>1, <3>1, <3>2, BanksPositive
    <3>4. k = kReg
      BY <1>1, <3>3
    <3>5. kReg * Banks \in Nat
      BY <1>1, BanksPositive
    <3>6. o = outputReg
      <4>1. (IF o THEN 2 ELSE 1) = (IF outputReg THEN 2 ELSE 1)
        BY <3>1, <3>4, <3>5
      <4>2. QED
        BY <1>1, <4>1
    <3>7. QED
      BY <1>4, <3>4, <3>6, Zenon
  <2>2. CASE geometry # "shared"
    <3>1. k + (IF o THEN 2 ELSE 1) = kReg + (IF outputReg THEN 2 ELSE 1)
      BY <1>3, <1>4, <2>2, Zenon
    <3>2. k = kReg \/ k = kReg + 1 \/ kReg = k + 1
      BY <1>1, <3>1
    <3>3. k # kReg + 1 /\ kReg # k + 1
      BY <1>1, <1>3, AggsDiffer, Zenon
    <3>4. k = kReg
      BY <3>2, <3>3, Zenon
    <3>5. o = outputReg
      BY <1>1, <3>1, <3>4
    <3>6. QED
      BY <1>4, <3>4, <3>5, Zenon
  <2>3. QED
    BY <2>1, <2>2, Zenon
<1>5. CASE g # geometry
  <2>1. k = kReg
    BY <1>5, Zenon
  <2>2. kReg * Banks >= kReg + 2
    <3>1. PICK d \in Nat : Banks = 3 + d
      <4>1. Banks - 3 \in Nat /\ Banks = 3 + (Banks - 3)
        BY BanksPositive
      <4>2. QED
        BY <4>1, Zenon
    <3>2. kReg * Banks = kReg * 3 + kReg * d /\ kReg * d \in Nat
      BY <1>1, <3>1
    <3>3. QED
      BY <1>1, <3>2
  <2>3. CASE g = "shared"
    <3>1. geometry # "shared"
      BY <1>5, <2>3, Zenon
    <3>2. kReg * Banks + (IF o THEN 2 ELSE 1) = kReg + (IF outputReg THEN 2 ELSE 1)
      BY <1>3, <2>1, <2>3, <3>1, Zenon
    <3>3. kReg * Banks \in Nat
      BY <1>1, BanksPositive
    <3>4. QED
      BY <1>1, <2>2, <3>2, <3>3
  <2>4. CASE g # "shared"
    <3>1. geometry = "shared"
      BY <1>1, <1>5, <2>4
    <3>2. kReg + (IF o THEN 2 ELSE 1) = kReg * Banks + (IF outputReg THEN 2 ELSE 1)
      BY <1>3, <2>1, <2>4, <3>1, Zenon
    <3>3. kReg * Banks \in Nat
      BY <1>1, BanksPositive
    <3>4. QED
      BY <1>1, <2>2, <3>2, <3>3
  <2>5. QED
    BY <2>3, <2>4, Zenon
<1>6. QED
  BY <1>4, <1>5, Zenon

LEMMA CoreSame == CoreInv /\ UNCHANGED coreVars /\ l2pc # "start" => CoreInv'
BY DEF CoreInv, CoreTypes, Fits, AtWork, Draining, Done, ReadsAt, Pending, Total, DrainCycles, coreVars, Sums, Kept

LEMMA RunsSame == L2NumbersAreGolden /\ UNCHANGED <<geometry, outputReg, l2Runs, l2Records>> => L2NumbersAreGolden'
BY Zenon DEF L2NumbersAreGolden, Fits

LEMMA InitL2 == L2Init => L2Inv
<1> SUFFICES ASSUME L2Init PROVE L2Inv
  OBVIOUS
<1>1. /\ geometry \in {"banked", "shared"} /\ outputReg \in BOOLEAN /\ st = "idle" /\ kReg = 1
      /\ checksum = [b \in Bank |-> {}] /\ landed = [b \in Bank |-> {}]
      /\ l2pc = "ended" /\ l2Seen = [cycles |-> 0, sums |-> <<>>] /\ l2Runs = {} /\ l2Records = {}
  BY Zenon DEF L2Init, NothingSeen
<1>2. 1 \in 1 .. CounterSize - 1
  BY L2Assumption
<1>3. checksum = [b \in Bank |-> checksum[b]] /\ \A b \in Bank : landed[b] = {}
  BY <1>1, Zenon
<1>4. CoreInv
  BY <1>1, <1>2, <1>3 DEF CoreInv, CoreTypes
<1>5. HostInv
  BY <1>1 DEF HostInv
<1>6. L2NumbersAreGolden
  BY <1>1, Zenon DEF L2NumbersAreGolden
<1>7. QED
  BY <1>4, <1>5, <1>6, Zenon DEF L2Inv

LEMMA BeginL2Core ==
  ASSUME CoreInv, NEW k \in Ks, NEW verify, BeginL2(k, verify)
  PROVE  CoreInv'
<1>1. /\ l2pc' = "start" /\ kReg' = (IF Busy THEN kReg ELSE k)
      /\ UNCHANGED <<geometry, outputReg, st, pulses, drain, rr, elapsedQ, agg, addr, checksum, landed>>
  BY Zenon DEF BeginL2, SetK
<1>2. k \in 1 .. CounterSize - 1
  BY L2Assumption, Zenon
<1>3. CoreTypes'
  BY <1>1, <1>2 DEF CoreInv, CoreTypes
<1>4. CASE Busy
  <2>1. kReg' = kReg
    BY <1>1, <1>4, Zenon
  <2>2. QED
    BY <1>1, <1>3, <2>1 DEF CoreInv, Fits, AtWork, Draining, ReadsAt, Pending, Total, DrainCycles
<1>5. CASE ~Busy
  <2>1. st' # "run" /\ st' # "drain"
    BY <1>1, <1>5 DEF Busy
  <2>2. QED
    BY <1>1, <1>3, <2>1, Zenon DEF CoreInv
<1>6. QED
  BY <1>4, <1>5, Zenon

LEMMA StartL2Core == CoreInv /\ StartL2 => CoreInv'
<1> SUFFICES ASSUME CoreInv, StartL2 PROVE CoreInv'
  OBVIOUS
<1>1. UNCHANGED <<geometry, outputReg, kReg, agg, landed>> /\ StartCore
  BY Zenon DEF StartL2, StartCore
<1>2. CASE Busy
  <2>1. UNCHANGED <<st, pulses, drain, rr, elapsedQ, addr, checksum>>
    BY <1>1, <1>2, Zenon DEF StartCore
  <2>2. st \in {"run", "drain"}
    BY <1>2, Zenon DEF Busy
  <2>3. QED
    BY <1>1, <2>1, <2>2 DEF CoreInv, CoreTypes, Fits, AtWork, Draining, ReadsAt, Pending, Total, DrainCycles
<1>3. CASE ~Busy
  <2>1. /\ st' = "run" /\ pulses' = 0 /\ drain' = 0 /\ rr' = 0 /\ elapsedQ' = 0
        /\ addr' = [b \in Bank |-> 0] /\ checksum' = [b \in Bank |-> {}]
    BY <1>1, <1>3, Zenon DEF StartCore
  <2>2. \A b \in Bank : landed[b] = {}
    BY <1>3 DEF CoreInv, CoreTypes, Busy
  <2>3. checksum' = [b \in Bank |-> checksum'[b]] /\ \A b \in Bank : addr'[b] = 0 /\ checksum'[b] = {} /\ landed'[b] = {}
    BY <1>1, <2>1, <2>2, Zenon
  <2>4. CoreTypes'
    BY <1>1, <2>1, <2>3 DEF CoreInv, CoreTypes
  <2>5. ASSUME NEW b \in Bank
        PROVE  ReadsAt(b, pulses)' = 0 /\ Pending(b)' = {}
    <3>1. \A x : ReadsAt(b, x)' = ReadsAt(b, x)
      BY <1>1, Zenon DEF ReadsAt
    <3>2. ReadsAt(b, 0) = 0
      <4>1. kReg \in Nat
        BY BanksPositive DEF CoreInv, CoreTypes
      <4>2. QED
        BY <4>1, ReadsEnds, Zenon
    <3>3. ReadsAt(b, pulses)' = ReadsAt(b, 0)
      BY <1>1, <2>1, Zenon DEF ReadsAt
    <3>4. Pending(b)' = Fold({}, IF outputReg' THEN {} ELSE {})
      BY <2>3, Zenon DEF Pending
    <3>5. (IF outputReg' THEN {} ELSE {}) = {}
      OBVIOUS
    <3>6. QED
      BY <3>2, <3>3, <3>4, <3>5, FoldNone, Zenon
  <2>6. ASSUME Fits(kReg) PROVE AtWork'
    <3>1. Total \in Nat /\ 0 < Total /\ Total' = Total
      <4>1. Total' = Total
        BY <1>1, Zenon DEF Total
      <4>2. QED
        BY <2>6, <4>1, FitsFacts, Zenon DEF CoreInv
    <3>2. 0 % Banks = 0 /\ 0 % Depth = 0 /\ 0 \in Nat
      <4>1. 0 \in 0 .. Banks - 1 /\ 0 \in 0 .. Depth - 1
        BY BanksPositive
      <4>2. QED
        BY <4>1, BanksPositive, Small, Zenon
    <3>3. \A b \in Bank : addr'[b] = ReadsAt(b, pulses)' % Depth /\ Pending(b)' = Kept(b, ReadsAt(b, pulses)')
      BY <2>3, <2>5, <3>2, KeptNone, Zenon
    <3>4. QED
      BY <2>1, <3>1, <3>2, <3>3, Zenon DEF AtWork
  <2>7. Fits(kReg)' <=> Fits(kReg)
    BY <1>1, Zenon DEF Fits
  <2>8. st' # "drain" /\ st' # "done"
    BY <2>1
  <2>9. QED
    BY <2>4, <2>6, <2>7, <2>8, Zenon DEF CoreInv
<1>4. QED
  BY <1>2, <1>3, Zenon

\* The next counter of a bank, after those of the banks before it.
LEMMA ReadStep ==
  ASSUME HostInv, CoreTypes, ReadCountersL2
  PROVE  HostInv'
<1>1. /\ l2pc = "read" /\ UNCHANGED coreVars /\ UNCHANGED <<l2Asked, l2Taken>>
      /\ l2pc' = IF DOMAIN l2Seen'.sums = Bank THEN "conclude" ELSE "read"
  BY Zenon DEF ReadCountersL2
<1>2. /\ st' = st /\ kReg' = kReg /\ elapsedQ' = elapsedQ /\ checksum' = checksum
  BY <1>1 DEF coreVars
<1>3. /\ l2Seen = [cycles |-> l2Seen.cycles, sums |-> l2Seen.sums]
      /\ l2Seen.cycles \in {0, elapsedQ} /\ st = "done"
      /\ l2Taken => kReg = l2Asked.k
  BY <1>1 DEF HostInv
<1>4. PICK j \in 0 .. Banks - 1 :
        DOMAIN l2Seen.sums = 0 .. j - 1 /\ \A b \in 0 .. j - 1 : l2Seen.sums[b] = checksum[b]
  BY <1>1, Zenon DEF HostInv
<1>5. \A i \in 0 .. Banks - 1 : 0 .. i = Bank <=> i = Banks - 1
  <2> SUFFICES ASSUME NEW i \in 0 .. Banks - 1 PROVE 0 .. i = Bank <=> i = Banks - 1
    OBVIOUS
  <2>1. CASE i = Banks - 1
    BY <2>1 DEF Bank
  <2>2. CASE i # Banks - 1
    <3>1. i + 1 \in Bank /\ i + 1 \notin 0 .. i
      BY <2>2, BanksPositive DEF Bank
    <3>2. QED
      BY <2>2, <3>1, Zenon
  <2>3. QED
    BY <2>1, <2>2, Zenon
<1>6. CASE l2Seen.cycles = 0
  <2>1. l2Seen' = [l2Seen EXCEPT !.cycles = elapsedQ]
    BY <1>6, Zenon DEF ReadCountersL2
  <2>2. l2Seen' = [cycles |-> elapsedQ, sums |-> l2Seen.sums]
    BY <1>3, <2>1
  <2>3. l2Seen'.cycles = elapsedQ /\ l2Seen'.sums = l2Seen.sums
    BY <2>2
  <2>4. 0 .. j - 1 # Bank
    <3>1. j \in Bank /\ j \notin 0 .. j - 1
      BY DEF Bank
    <3>2. QED
      BY <3>1, Zenon
  <2>5. l2pc' = "read"
    BY <1>1, <1>4, <2>3, <2>4, Zenon
  <2>6. \E i \in 0 .. Banks - 1 :
          DOMAIN l2Seen'.sums = 0 .. i - 1 /\ \A b \in 0 .. i - 1 : l2Seen'.sums[b] = checksum'[b]
    BY <1>2, <1>4, <2>3, Zenon
  <2>7. QED
    BY <1>1, <1>2, <1>3, <2>2, <2>3, <2>5, <2>6 DEF HostInv
<1>7. CASE l2Seen.cycles # 0
  <2> DEFINE D == DOMAIN l2Seen.sums
             S == [b \in 0 .. Cardinality(D) |-> IF b \in D THEN l2Seen.sums[b] ELSE checksum[b]]
  <2>1. l2Seen' = [l2Seen EXCEPT !.sums = S]
    BY <1>7, Zenon DEF ReadCountersL2
  <2>2. Cardinality(D) = j
    <3>1. 0 \in Int /\ j - 1 \in Int /\ (IF 0 > j - 1 THEN 0 ELSE (j - 1) - 0 + 1) = j
      OBVIOUS
    <3>2. QED
      BY <1>4, <3>1, FS_Interval, Zenon
  <2>3. DOMAIN S = 0 .. j /\ \A b \in 0 .. j : S[b] = checksum[b]
    BY <1>4, <2>2, Zenon
  <2>4. S = [b \in 0 .. j |-> checksum[b]]
    BY <1>4, <2>2, Zenon
  <2> HIDE DEF S
  <2>5. l2Seen' = [cycles |-> l2Seen.cycles, sums |-> S]
    BY <1>3, <2>1
  <2>6. l2Seen'.cycles = elapsedQ /\ l2Seen'.sums = S
    BY <1>3, <1>7, <2>5
  <2>7. l2Seen' = [cycles |-> l2Seen'.cycles, sums |-> l2Seen'.sums]
    BY <2>5
  <2>8. CASE j = Banks - 1
    <3>1. DOMAIN S = Bank
      BY <1>5, <2>3, <2>8, Zenon
    <3>2. l2pc' = "conclude"
      BY <1>1, <2>6, <3>1, Zenon
    <3>3. 0 .. j = Bank
      BY <1>5, <2>8, Zenon
    <3>4. S = checksum
      BY <2>4, <3>3, Zenon DEF CoreTypes
    <3>5. QED
      BY <1>1, <1>2, <1>3, <2>6, <2>7, <3>2, <3>4 DEF HostInv
  <2>9. CASE j # Banks - 1
    <3>1. DOMAIN S # Bank
      BY <1>5, <2>3, <2>9, Zenon
    <3>2. l2pc' = "read"
      BY <1>1, <2>6, <3>1, Zenon
    <3>3. j + 1 \in 0 .. Banks - 1 /\ 0 .. (j + 1) - 1 = 0 .. j
      BY <2>9, BanksPositive
    <3>4. \E i \in 0 .. Banks - 1 :
            DOMAIN l2Seen'.sums = 0 .. i - 1 /\ \A b \in 0 .. i - 1 : l2Seen'.sums[b] = checksum'[b]
      BY <1>2, <2>3, <2>6, <3>3, Zenon
    <3>5. QED
      BY <1>1, <1>2, <1>3, <2>6, <2>7, <3>2, <3>4 DEF HostInv
  <2>10. QED
    BY <2>8, <2>9, Zenon
<1>8. QED
  BY <1>6, <1>7, Zenon

LEMMA ConcludeStep == L2Inv /\ ConcludeL2 => L2NumbersAreGolden'
<1> SUFFICES ASSUME L2Inv, ConcludeL2 PROVE L2NumbersAreGolden'
  OBVIOUS
<1> DEFINE new == [k |-> l2Asked.k, cycles |-> l2Seen.cycles, taken |-> l2Taken,
                   agrees |-> Agrees, reported |-> l2Asked.verify => Agrees]
<1>1. l2pc = "conclude" /\ l2Runs' = l2Runs \cup {new} /\ l2Records' = l2Records /\ UNCHANGED coreVars
  BY Zenon DEF ConcludeL2
<1>2. geometry' = geometry /\ outputReg' = outputReg
  BY <1>1 DEF coreVars
<1>3. new.k = l2Asked.k /\ new.taken = l2Taken /\ new.agrees = Agrees /\ new.reported = (l2Asked.verify => Agrees)
  OBVIOUS
<1> HIDE DEF new
<1>4. ASSUME new.taken, Fits(new.k) PROVE new.agrees /\ new.reported
  <2>1. kReg = l2Asked.k /\ st = "done" /\ l2Seen.cycles = elapsedQ /\ l2Seen.sums = checksum /\ l2pc # "start"
    BY <1>1, <1>3, <1>4 DEF L2Inv, HostInv
  <2>2. /\ checksum = Golden(kReg, geometry, outputReg).sums
        /\ elapsedQ = Golden(kReg, geometry, outputReg).cycles
        /\ agg = GoldenAgg(kReg, geometry, outputReg)
    BY <1>3, <1>4, <2>1, DoneIsGolden, Zenon DEF L2Inv
  <2>3. Agrees
    BY <2>1, <2>2, Zenon DEF Agrees
  <2>4. QED
    BY <1>3, <2>3, Zenon
<1>5. \A r \in l2Runs' : (r.taken /\ Fits(r.k)') => r.agrees /\ r.reported
  <2>1. \A r \in l2Runs : (r.taken /\ Fits(r.k)) => r.agrees /\ r.reported
    BY Zenon DEF L2Inv, L2NumbersAreGolden
  <2>2. \A x : Fits(x)' <=> Fits(x)
    BY <1>2, Zenon DEF Fits
  <2>3. QED
    BY <1>1, <1>4, <2>1, <2>2, Zenon
<1>6. QED
  BY <1>1, <1>2, <1>5, Zenon DEF L2Inv, L2NumbersAreGolden, Fits

LEMMA RecordStep ==
  ASSUME L2Inv, NEW k \in Ks, NEW g \in {"banked", "shared"}, NEW o \in BOOLEAN, RecordL2(k, g, o)
  PROVE  L2NumbersAreGolden'
<1> DEFINE new == [k |-> k, geometry |-> g, outputReg |-> o, of |-> kReg]
<1>1. /\ st = "done" /\ l2pc = "ended" /\ Matches(k, g, o, [agg |-> agg, cycles |-> elapsedQ])
      /\ l2Records' = {new} /\ l2Runs' = l2Runs /\ UNCHANGED coreVars
  BY Zenon DEF RecordL2
<1>2. geometry' = geometry /\ outputReg' = outputReg
  BY <1>1 DEF coreVars
<1>3. new.k = k /\ new.geometry = g /\ new.outputReg = o /\ new.of = kReg /\ l2pc # "start"
  BY <1>1
<1> HIDE DEF new
<1>4. ASSUME Fits(new.of), new.k = new.of \/ new.geometry = geometry
      PROVE  new.k = new.of /\ new.geometry = geometry /\ new.outputReg = outputReg
  BY <1>1, <1>3, <1>4, GateHolds, Zenon DEF L2Inv
<1>5. QED
  BY <1>1, <1>2, <1>4, Zenon DEF L2Inv, L2NumbersAreGolden, Fits

LEMMA NextL2 == L2Inv /\ [L2Next]_l2vars => L2Inv'
<1> SUFFICES ASSUME L2Inv, [L2Next]_l2vars PROVE L2Inv'
  OBVIOUS
<1> USE DEF L2Inv
<1>0. CoreTypes
  BY Zenon DEF CoreInv
<1>1. CASE L2Edge
  <2>1. CoreInv'
    BY <1>1, EdgeCore, Zenon
  <2>2. UNCHANGED <<geometry, outputReg, l2Runs, l2Records>> /\ UNCHANGED <<kReg, l2pc, l2Asked, l2Taken, l2Seen>>
    BY <1>1, Zenon DEF L2Edge
  <2>3. st \in {"run", "drain"}
    BY <1>1, Zenon DEF L2Edge, RunEdge, DrainEdge
  <2>4. HostInv'
    BY <2>2, <2>3 DEF HostInv, Busy
  <2>5. QED
    BY <2>1, <2>2, <2>4, RunsSame, Zenon
<1>2. CASE \E k \in Ks, verify \in BOOLEAN : BeginL2(k, verify)
  <2>1. PICK k \in Ks, verify \in BOOLEAN : BeginL2(k, verify)
    BY <1>2, Zenon
  <2>2. /\ UNCHANGED <<geometry, outputReg, st, l2Runs, l2Records>>
        /\ kReg' = (IF Busy THEN kReg ELSE k) /\ l2Taken' = ~Busy
        /\ l2Asked' = [k |-> k, verify |-> verify] /\ l2Seen' = NothingSeen /\ l2pc' = "start"
    BY <2>1, Zenon DEF BeginL2, SetK
  <2>3. HostInv'
    BY <2>2 DEF HostInv, Busy, NothingSeen
  <2>4. CoreInv'
    BY <2>1, BeginL2Core, Zenon
  <2>5. QED
    BY <2>2, <2>3, <2>4, RunsSame, Zenon
<1>3. CASE StartL2
  <2>1. CoreInv'
    BY <1>3, StartL2Core, Zenon
  <2>2. UNCHANGED <<geometry, outputReg, l2Runs, l2Records>> /\ UNCHANGED <<kReg, l2Asked, l2Taken, l2Seen>>
    BY <1>3, Zenon DEF StartL2, StartCore
  <2>3. l2pc = "start" /\ l2pc' = "poll"
    BY <1>3, Zenon DEF StartL2
  <2>4. HostInv'
    BY <2>2, <2>3 DEF HostInv, NothingSeen
  <2>5. QED
    BY <2>1, <2>2, <2>4, RunsSame, Zenon
<1>4. CASE PollL2
  <2>1. /\ l2pc = "poll" /\ st = "done" /\ l2pc' = "read"
        /\ UNCHANGED coreVars /\ UNCHANGED <<l2Asked, l2Taken, l2Seen, l2Runs, l2Records>>
    BY <1>4 DEF PollL2
  <2>2. CoreInv'
    BY <2>1, CoreSame
  <2>3. l2Seen = NothingSeen /\ l2Seen.cycles = 0 /\ l2Seen.sums = <<>>
    BY <2>1 DEF HostInv, NothingSeen
  <2>4. \E j \in 0 .. Banks - 1 :
          DOMAIN l2Seen'.sums = 0 .. j - 1 /\ \A b \in 0 .. j - 1 : l2Seen'.sums[b] = checksum'[b]
    <3>1. 0 \in 0 .. Banks - 1 /\ 0 .. 0 - 1 = {}
      BY BanksPositive
    <3>2. DOMAIN <<>> = {}
      OBVIOUS
    <3>3. DOMAIN l2Seen'.sums = {}
      BY <2>1, <2>3, <3>2, Zenon
    <3>4. QED
      BY <3>1, <3>3, Zenon
  <2>5. HostInv'
    <3>1. l2Seen'.cycles \in {0, elapsedQ'}
      BY <2>1, <2>3
    <3>2. UNCHANGED <<st, kReg>>
      BY <2>1 DEF coreVars
    <3>3. QED
      BY <2>1, <2>4, <3>1, <3>2 DEF HostInv
  <2>6. UNCHANGED <<geometry, outputReg, l2Runs, l2Records>>
    BY <2>1 DEF coreVars
  <2>7. QED
    BY <2>2, <2>5, <2>6, RunsSame, Zenon
<1>5. CASE TimeOutL2
  <2>1. /\ l2pc = "poll" /\ l2pc' = "ended"
        /\ UNCHANGED coreVars /\ UNCHANGED <<l2Asked, l2Taken, l2Seen, l2Runs, l2Records>>
    BY <1>5 DEF TimeOutL2
  <2>2. CoreInv'
    BY <2>1, CoreSame
  <2>3. HostInv'
    BY <2>1 DEF HostInv, coreVars
  <2>4. UNCHANGED <<geometry, outputReg, l2Runs, l2Records>>
    BY <2>1 DEF coreVars
  <2>5. QED
    BY <2>2, <2>3, <2>4, RunsSame, Zenon
<1>6. CASE ReadCountersL2
  <2>1. l2pc = "read" /\ UNCHANGED coreVars /\ UNCHANGED <<l2Runs, l2Records>>
    BY <1>6, Zenon DEF ReadCountersL2
  <2>2. CoreInv'
    BY <2>1, CoreSame
  <2>3. HostInv'
    BY <1>0, <1>6, ReadStep, Zenon
  <2>4. UNCHANGED <<geometry, outputReg, l2Runs, l2Records>>
    BY <2>1 DEF coreVars
  <2>5. QED
    BY <2>2, <2>3, <2>4, RunsSame, Zenon
<1>7. CASE ConcludeL2
  <2>1. /\ l2pc = "conclude" /\ l2pc' = "ended" /\ UNCHANGED coreVars
        /\ UNCHANGED <<l2Asked, l2Taken, l2Seen>>
    BY <1>7, Zenon DEF ConcludeL2
  <2>2. CoreInv'
    BY <2>1, CoreSame
  <2>3. HostInv'
    BY <2>1 DEF HostInv, coreVars
  <2>4. QED
    BY <1>7, <2>2, <2>3, ConcludeStep, Zenon
<1>8. CASE \E k \in Ks, g \in {"banked", "shared"}, o \in BOOLEAN : RecordL2(k, g, o)
  <2>1. PICK k \in Ks, g \in {"banked", "shared"}, o \in BOOLEAN : RecordL2(k, g, o)
    BY <1>8, Zenon
  <2>2. l2pc = "ended" /\ UNCHANGED coreVars /\ UNCHANGED <<l2pc, l2Asked, l2Taken, l2Seen>>
    BY <2>1, Zenon DEF RecordL2
  <2>3. CoreInv'
    BY <2>2, CoreSame
  <2>4. HostInv'
    BY <2>2 DEF HostInv, coreVars
  <2>5. QED
    BY <2>1, <2>3, <2>4, RecordStep, Zenon
<1>9. CASE UNCHANGED l2vars
  <2>1. UNCHANGED coreVars /\ UNCHANGED <<l2pc, l2Asked, l2Taken, l2Seen, l2Runs, l2Records>>
    BY <1>9 DEF l2vars
  <2>2. CoreInv'
    BY <2>1 DEF CoreInv, CoreTypes, Fits, AtWork, Draining, Done, ReadsAt, Pending, Total, DrainCycles, coreVars
  <2>3. HostInv'
    BY <2>1 DEF HostInv, coreVars, Busy
  <2>4. UNCHANGED <<geometry, outputReg, l2Runs, l2Records>>
    BY <2>1 DEF coreVars
  <2>5. QED
    BY <2>2, <2>3, <2>4, RunsSame, Zenon
<1>10. QED
  BY <1>1, <1>2, <1>3, <1>4, <1>5, <1>6, <1>7, <1>8, <1>9, Zenon DEF L2Next

LEMMA L2Golden == L2Spec => []L2NumbersAreGolden
<1>1. L2Inv => L2NumbersAreGolden
  BY Zenon DEF L2Inv
<1>2. QED
  BY <1>1, InitL2, NextL2, PTL DEF L2Spec

\* What both microbenchmarks report is what their golden models replay
\* (run_l0 and run_l2 with --verify-golden, record_l2_measured), for every number
\* of blocks and banks, every length of a run, and whatever was given up before.
THEOREM MicrobenchmarksGolden == L0Spec /\ L2Spec => []MicrobenchmarksAreGolden
<1>1. L0RunsAreGolden /\ L2NumbersAreGolden => MicrobenchmarksAreGolden
  BY Zenon DEF MicrobenchmarksAreGolden
<1>2. QED
  BY <1>1, L0Golden, L2Golden, PTL
===============================================================================
