------------------------------ MODULE Artifacts ------------------------------
(***************************************************************************)
(* The three kinds of input files made off the board and the programs that *)
(* load them:                                                              *)
(*   - a record image and its manifest: sw/packer/pack_records.py, loaded  *)
(*     into HyperRAM by sw/host/load_recimg.py;                            *)
(*   - a reference bundle: sw/model_prep/build_tiny_bundle.py, loaded by   *)
(*     sw/host/run_tiny_benchmark.py;                                      *)
(*   - the packed inputs of the CIFAR-10 campaign: InputPack of            *)
(*     sw/ph4_jtag_host/run_cifar10_jtag.py.                               *)
(*                                                                         *)
(* A sample is <<i, v>>: item i of version v of the data set and of the    *)
(* quantisation in force.  Builds are repeated over what earlier ones left *)
(* and may be killed between any two writes.                               *)
(***************************************************************************)
EXTENDS Integers, Sequences, FiniteSetsExt

CONSTANTS
    Items,         \* items of the data set
    HrBytes,       \* bytes of HyperRAM
    LogReserve,    \* bytes at its top that belong to the result log
    BurstAlign,    \* granularity of the record stride
    ReadWindow,        \* bytes of a read-back window
    NWindows,      \* evenly spaced windows
    InputBytes,    \* sizes an input tensor may have
    RecBases,      \* where images are loaded to
    Wraps,         \* sizes at which the memory's addresses may wrap
    MaxSource,     \* bound: versions of data set and quantisation
    MaxBuilds      \* bound: builds

ASSUME ArtifactsAssumption ==
    /\ Items \in Nat \ {0} /\ InputBytes \subseteq Nat \ {0}
    /\ BurstAlign \in Nat \ {0} /\ ReadWindow \in Nat \ {0}
    /\ RecBases \subseteq Nat /\ Wraps \subseteq Nat \ {0}

VARIABLES
    source,     \* the version in force
    size,       \* the items it has
    image,      \* <name>.recimg: its records, or the torn rest of a write
    manifest,   \* <name>.recimg.manifest.json
    records,    \* records/rec_<k>.int8 of the bundle
    reference,  \* reference.json of the bundle
    inputs,     \* inputs/<i>.bin of the campaign
    lines,      \* the campaign's manifest.txt: its lines, 0 when there is none
    builder,    \* the build that is running
    store,      \* what the last load_and_verify put into HyperRAM
    mixed,      \* bundles and packs whose files and index may be of two builds
    builds      \* builds so far

artifactVars == <<source, size, image, manifest, records, reference, inputs, lines,
                  builder, store, mixed, builds>>

NoBuild == [what |-> "none"]
Absent == [absent |-> TRUE]

ArtifactsInit ==
    /\ source = 1 /\ size = Items
    /\ image = Absent /\ manifest = Absent
    /\ records = [k \in 0..(Items - 1) |-> <<>>] /\ reference = <<>>
    /\ inputs = [i \in 0..(Items - 1) |-> <<>>] /\ lines = 0
    /\ builder = NoBuild
    /\ store = Absent
    /\ mixed = {}
    /\ builds = 0

BeginBuild(b) == /\ builder = NoBuild /\ builds < MaxBuilds
            /\ builder' = b /\ builds' = builds + 1

-----------------------------------------------------------------------------
(* packlib: input bytes, the label byte, zeroes up to the stride.           *)
StrideFor(n) == ((n + BurstAlign) \div BurstAlign) * BurstAlign
Available(weights) == HrBytes - LogReserve - weights
MaxRecords(stride, weights) == Available(weights) \div stride

(* One cell of the image: a byte of a sample, its label as byte n, or       *)
(* padding.                                                                 *)
Cell(samples, n, p) ==
    LET stride == StrideFor(n)  k == p \div stride  b == p % stride
    IN  IF b <= n THEN <<samples[k + 1], b>> ELSE <<>>

(* pack(): the selected samples in the order of the source; refused when    *)
(* they do not fit below the log and the resident weights.                  *)
Selections(m) == {idx \in [1..m -> 0..(size - 1)] : \A j, k \in 1..m : j < k => idx[j] < idx[k]}

Selected(idx) == [k \in 1..Len(idx) |-> <<idx[k], source>>]

Pack ==
    \E m \in 1..size, n \in InputBytes, weights \in {0, BurstAlign} : \E idx \in Selections(m) :
        /\ m <= MaxRecords(StrideFor(n), weights)
        /\ BeginBuild([what |-> "recimg", n |-> n, samples |-> Selected(idx)])
        /\ UNCHANGED <<source, size, image, manifest, records, reference, inputs, lines, store, mixed>>

WriteImage ==
    /\ builder.what = "recimg" /\ image # [samples |-> builder.samples, n |-> builder.n]
    /\ image' = [samples |-> builder.samples, n |-> builder.n]
    /\ UNCHANGED <<source, size, manifest, records, reference, inputs, lines, builder, store, mixed, builds>>

(* The manifest holds the parameters and the SHA-256 of the image.          *)
WriteManifest ==
    /\ builder.what = "recimg" /\ image = [samples |-> builder.samples, n |-> builder.n]
    /\ manifest' = [samples |-> builder.samples, n |-> builder.n, sha256 |-> image]
    /\ builder' = NoBuild
    /\ UNCHANGED <<source, size, image, records, reference, inputs, lines, store, mixed, builds>>

(* load_recimg: 0, the last window, and evenly spaced ones.                 *)
Positions(bytes) ==
    {0, Max({0, bytes - ReadWindow})}
        \union {Min({bytes - 1, (i * bytes) \div NWindows}) : i \in 0..(NWindows - 1)}

(* The address the memory decodes, and what it holds after the image was    *)
(* written from its first byte to its last.                                 *)
ReadBackCell(img, base, wrap, p) ==
    LET bytes == Len(img.samples) * StrideFor(img.n)
        last == Max({q \in 0..(bytes - 1) : (base + q) % wrap = (base + p) % wrap})
    IN  Cell(img.samples, img.n, last)

(* A plausible bug: the image is not compared with the manifest's hash.     *)
MatchesManifest_Not == TRUE

MatchesManifest == manifest.sha256 = image

LoadAndVerify ==
    /\ builder = NoBuild /\ image # Absent /\ manifest # Absent
    /\ MatchesManifest
    /\ \E base \in RecBases, wrap \in Wraps :
          LET bytes == Len(image.samples) * StrideFor(image.n)
          IN  /\ base + bytes <= HrBytes - LogReserve
              /\ \A pos \in Positions(bytes), o \in 0..(ReadWindow - 1) :
                    pos + o < bytes =>
                        ReadBackCell(image, base, wrap, pos + o) = Cell(image.samples, image.n, pos + o)
              /\ store' = [base |-> base, wrap |-> wrap, image |-> image, manifest |-> manifest]
    /\ UNCHANGED <<source, size, image, manifest, records, reference, inputs, lines, builder, mixed, builds>>

-----------------------------------------------------------------------------
(* select_indices: n indices spread evenly, rounded half to even.           *)
Rounded(a, b) ==
    LET q == a \div b  r == a % b
    IN  IF 2 * r > b \/ (2 * r = b /\ q % 2 = 1) THEN q + 1 ELSE q

Spread(n) ==
    IF n = size THEN 0..(size - 1)
    ELSE IF n = 1 THEN {0} ELSE {Rounded(j * (size - 1), n - 1) : j \in 0..(n - 1)}

BuildBundle ==
    /\ \E n \in 1..size :
          BeginBuild([what |-> "bundle", todo |-> Spread(n), k |-> 0, entries |-> <<>>])
    /\ UNCHANGED <<source, size, image, manifest, records, reference, inputs, lines, store, mixed>>

(* A plausible bug: the entry names its file by the entries so far.         *)
Entry_Counted(b, sample) == [file |-> Len(b.entries), label |-> sample]

(* A record's file is named by its place in the selection.                  *)
Entry(b, sample) == [file |-> b.k, label |-> sample]

(* In ascending order; an item without a usable frame is left out, and its  *)
(* number stays unused.                                                     *)
WriteRecord ==
    /\ builder.what = "bundle"
    /\ \E i \in builder.todo :
          LET sample == <<i, source>>
              next   == [builder EXCEPT !.todo = @ \ {i}, !.k = @ + 1]
          IN  /\ \A j \in builder.todo : i <= j
              /\ \/ /\ records' = [records EXCEPT ![builder.k] = sample]
                    /\ builder' = [next EXCEPT !.entries = Append(@, Entry(builder, sample))]
                 \/ builder' = next /\ UNCHANGED records
    /\ UNCHANGED <<source, size, image, manifest, reference, inputs, lines, store, mixed, builds>>

WriteReference ==
    /\ builder.what = "bundle" /\ builder.todo = {}
    /\ reference' = builder.entries
    /\ builder' = NoBuild
    /\ mixed' = mixed \ {"bundle"}
    /\ UNCHANGED <<source, size, image, manifest, records, inputs, lines, store, builds>>

-----------------------------------------------------------------------------
(* A plausible bug: packed files, not the manifest, tell a finished build.  *)
Reusable_Files == inputs[0] # <<>>

Reusable == lines = size

(* InputPack.build: reused when its manifest has a line per image, unless   *)
(* --rebuild-inputs is given.                                               *)
PackInputs ==
    /\ \E force \in BOOLEAN :
          /\ force \/ ~ Reusable
          /\ BeginBuild([what |-> "inputs", k |-> 0])
    /\ UNCHANGED <<source, size, image, manifest, records, reference, inputs, lines, store, mixed>>

WriteInputFile ==
    /\ builder.what = "inputs" /\ builder.k < size
    /\ inputs' = [inputs EXCEPT ![builder.k] = <<builder.k, source>>]
    /\ builder' = [builder EXCEPT !.k = @ + 1]
    /\ UNCHANGED <<source, size, image, manifest, records, reference, lines, store, mixed, builds>>

WriteLines ==
    /\ builder.what = "inputs" /\ builder.k = size
    /\ lines' = size
    /\ builder' = NoBuild
    /\ mixed' = mixed \ {"inputs"}
    /\ UNCHANGED <<source, size, image, manifest, records, reference, inputs, store, builds>>

(* An image that is cut after a record, or within one.                      *)
CutShort(b) ==
    {[samples |-> SubSeq(b.samples, 1, k), n |-> b.n] : k \in 1..(Len(b.samples) - 1)}
        \union {[samples |-> b.samples, n |-> b.n, torn |-> TRUE]}

(* A kill: a file being written may be cut; a rebuild over a finished       *)
(* bundle or pack leaves old and new files under the old index.             *)
KillBuild ==
    /\ builder # NoBuild
    /\ builder' = NoBuild
    /\ image' \in {image} \union (IF builder.what = "recimg" THEN CutShort(builder) ELSE {})
    /\ mixed' = mixed \union (IF builder.what = "bundle" /\ reference # <<>> THEN {"bundle"}
                              ELSE IF builder.what = "inputs" /\ lines # 0 THEN {"inputs"} ELSE {})
    /\ UNCHANGED <<source, size, manifest, records, reference, inputs, lines, store, builds>>

(* Another data set, quantisation or channel padding: nothing tells an      *)
(* input pack of as many images from its own.                               *)
NewSource ==
    /\ builder = NoBuild /\ source < MaxSource
    /\ source' = source + 1
    /\ size' \in 1..Items
    /\ mixed' = IF lines # 0 THEN mixed \union {"inputs"} ELSE mixed
    /\ UNCHANGED <<image, manifest, records, reference, inputs, lines, builder, store, builds>>

(* The three kinds of files share nothing but the source.                   *)
ImageNext ==
    \/ Pack \/ LoadAndVerify \/ NewSource
    \/ builder # NoBuild /\ (WriteImage \/ WriteManifest \/ KillBuild)

BundleNext ==
    \/ BuildBundle \/ NewSource
    \/ builder # NoBuild /\ (WriteRecord \/ WriteReference \/ KillBuild)

InputsNext ==
    \/ PackInputs \/ NewSource
    \/ builder # NoBuild /\ (WriteInputFile \/ WriteLines \/ KillBuild)

ArtifactsSpec == ArtifactsInit /\ [][ImageNext \/ BundleNext \/ InputsNext]_artifactVars

-----------------------------------------------------------------------------
(* An image that was loaded and verified reads back as the one its manifest *)
(* describes in every byte, whatever build was killed before and wherever   *)
(* the memory's addresses wrap (load_and_verify).                           *)
LoadedIsTheImage ==
    store # Absent =>
        LET img == [samples |-> store.manifest.samples, n |-> store.manifest.n]
        IN  \A p \in 0..(Len(img.samples) * StrideFor(img.n) - 1) :
                ReadBackCell(store.image, store.base, store.wrap, p) = Cell(img.samples, img.n, p)

(* Every record of a bundle that loads carries its own label, and every file *)
(* of an input pack that is taken for finished is its own image's, unless a  *)
(* rebuild over an earlier one was killed or the data set changed under a    *)
(* pack of as many images (build_bundle, load_bundle, InputPack.build).      *)
FilesAreOwn ==
    builder = NoBuild =>
        /\ "bundle" \notin mixed =>
              \A j \in 1..Len(reference) : records[reference[j].file] = reference[j].label
        /\ (Reusable /\ "inputs" \notin mixed) =>
              \A i \in 0..(size - 1) : inputs[i] = <<i, source>>

=============================================================================
