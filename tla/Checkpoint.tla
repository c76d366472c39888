------------------------------- MODULE Checkpoint -------------------------------
(***************************************************************************)
(* From a model's directory to its layers: the shards of a checkpoint      *)
(* (models/auto.rs), their tensors (loader/mod.rs), what each linear layer *)
(* becomes (DynamicLinear::load), and the container of sparse weights that *)
(* convert_sparse writes and the loader opens (loader/sparse_loader.rs).   *)
(*                                                                         *)
(* A directory has files, from a file's name to its tensors by name, and   *)
(* the shards its index lists, or Absent.  A tensor has a dtype, rows and  *)
(* cols as stored, and data; its scale is a tensor whose name is the pair  *)
(* <<name, "scale">>.                                                      *)
(***************************************************************************)
EXTENDS Linear

CONSTANTS
  Directory,  \* the directories considered
  Wanted,     \* the layers of the model: [name, ins, outs, head]
  Config,     \* [quant, per, head, inverted]
  Absent,     \* no index, no container, no tensor
  Single      \* the file name model.safetensors

VARIABLES
  dir,        \* the model's directory
  container,  \* model.sparse, as items, or Absent
  layers      \* what each layer was loaded as, or Absent

vars == <<dir, container, layers>>

-----------------------------------------------------------------------------
(* convert_to_f32_vec: an F16 as its sign, and a significand times a power *)
(* of two.  Exponent 31 is infinite or not a number.                       *)
Shifts(m) == Max({k \in 0 .. 10 : m * 2 ^ k < 2048})
HalfToFloat(sign, exp, mant) ==
  IF exp = 31 THEN [sign |-> sign, exp |-> 255, mant |-> IF mant = 0 THEN 0 ELSE 2 ^ 22]
  ELSE IF exp # 0 THEN [sign |-> sign, exp |-> exp - 15 + 127, mant |-> mant * 2 ^ 13]
  ELSE IF mant = 0 THEN [sign |-> sign, exp |-> 0, mant |-> 0]
  ELSE [sign |-> sign, exp |-> 127 - 15 - Shifts(mant) + 1,
        mant |-> ((mant * 2 ^ Shifts(mant)) % 1024) * 2 ^ 13]

(* The shards of from_local, of from_pretrained and of convert_sparse. *)
LocalShards(d) ==
  IF d.index # Absent THEN d.index
  ELSE IF Single \in DOMAIN d.files THEN {Single} ELSE DOMAIN d.files
HubShards(d) == IF d.index # Absent THEN d.index ELSE {Single}
ConvertShards(d) ==
  IF d.index # Absent THEN d.index ELSE {Single} \cap DOMAIN d.files

(* SafeTensorRepo::load: all the tensors, a later file's over an earlier   *)
(* one's; a shard that is not there is an error.                           *)
Readable(d, shards) == shards \subseteq DOMAIN d.files
Repo(d, shards) ==
  LET has(name) == {f \in shards : name \in DOMAIN d.files[f]}
      names == {name \in UNION {DOMAIN d.files[f] : f \in shards} : has(name) # {}}
  IN [name \in names |-> d.files[Max(has(name))][name]]

(* get, and get_prepacked_ternary: U8 needs its scale, and the shape must  *)
(* be the layer's, or the layer's with `per` rows to a byte.               *)
Scaled8(repo, name) == repo[name].dtype = "U8" => <<name, "scale">> \in DOMAIN repo
Gets(repo, w) ==
  w.name \in DOMAIN repo /\ repo[w.name].rows = w.outs /\ repo[w.name].cols = w.ins /\ Scaled8(repo, w.name)
GetsPacked(repo, w, per) ==
  /\ w.name \in DOMAIN repo
  /\ repo[w.name].dtype = "U8" /\ repo[w.name].cols = w.ins /\ repo[w.name].rows * per = w.outs
  /\ Scaled8(repo, w.name)

-----------------------------------------------------------------------------
(* The container.  Name, dimensions, scale and blob are single items after *)
(* their four-byte length; the header is byte by byte.                     *)
Magic == <<88, 79, 82, 83, 80, 65, 82, 69, 49>>
U32(n) == <<n, 0, 0, 0>>
Serialize(entries) ==
  Magic \o U32(1) \o U32(Len(entries)) \o FlattenSeq([i \in DOMAIN entries |->
    <<entries[i].name, entries[i].outs, entries[i].ins, entries[i].scale, entries[i].blob>>])

(* SparseFile::from_bytes: the version is read at byte 8, the count at 12, *)
(* the directory from 16.                                                  *)
FromBytes(data) ==
  IF Len(data) < 16 \/ SubSeq(data, 1, 9) # Magic \/ SubSeq(data, 9, 12) # U32(1) THEN {}
  ELSE {[name |-> data[p], outs |-> data[p + 1], ins |-> data[p + 2],
         scale |-> data[p + 3], blob |-> data[p + 4]] :
          p \in {17 + 5 * i : i \in 0 .. data[13] - 1}}

(* get_sparse. *)
GetSparse(file, w) ==
  {<<FromBlob(e.blob, w.outs), e.scale>> :
     e \in {f \in file : f.name = w.name /\ f.ins = w.ins /\ f.outs = w.outs}}

(* convert_sparse: each packed weight with a scale, unpacked and cut into  *)
(* rows.                                                                   *)
Convertible(repo) ==
  {name \in DOMAIN repo : repo[name].dtype = "U8" /\ <<name, "scale">> \in DOMAIN repo
                            /\ repo[name].rows > 0 /\ repo[name].cols > 0}
Entry(repo, name) ==
  LET t == repo[name] IN
  [name |-> name, outs |-> 4 * t.rows, ins |-> t.cols, scale |-> repo[<<name, "scale">>].data,
   blob |-> EncodedTensor(Rows(Unpack4(t.data, 4 * t.rows * t.cols), t.cols))]
Convert ==
  /\ layers = Absent
  /\ ConvertShards(dir) # {} /\ Readable(dir, ConvertShards(dir))
  /\ LET repo == Repo(dir, ConvertShards(dir)) IN
     /\ Convertible(repo) # {}
     /\ container' = Serialize(SetToSeq({Entry(repo, name) : name \in Convertible(repo)}))
  /\ UNCHANGED <<dir, layers>>

-----------------------------------------------------------------------------
(* DynamicLinear::load: the kind of the layer, and the rows of its weights *)
(* where they are those of the checkpoint.                                 *)
LayerKind(repo, file, w, cfg, sparse) ==
  IF GetSparse(file, w) # {} THEN "sparse_file"
  ELSE IF cfg.quant # "ternary"
  THEN IF ~Gets(repo, w) THEN "error" ELSE IF cfg.quant = "none" THEN "f32" ELSE "bit"
  ELSE IF GetsPacked(repo, w, cfg.per) THEN IF sparse THEN "sparse_from_packed" ELSE "packed"
  ELSE IF ~Gets(repo, w) THEN "error"
  ELSE IF w.head /\ cfg.head # "ternary" THEN cfg.head
  ELSE IF ~w.head /\ sparse THEN "sparse" ELSE "dense"

(* from_local: the container is opened when sparse weights are asked for,  *)
(* and one that cannot be read is passed over.  from_pretrained never      *)
(* opens one.                                                              *)
Load(shards, sparse, local, file) ==
  /\ Readable(dir, shards)
  /\ LET repo == Repo(dir, shards)
         kinds == [w \in Wanted |-> LayerKind(repo, file, w, Config, sparse)]
     IN layers' = [sparse |-> sparse, local |-> local,
                   kinds |-> IF \E w \in Wanted : kinds[w] = "error" THEN <<>> ELSE kinds]
  /\ UNCHANGED <<dir, container>>
FromLocal(sparse) ==
  /\ layers = Absent
  /\ Load(LocalShards(dir), sparse, TRUE,
          IF sparse /\ container # Absent THEN FromBytes(container) ELSE {})
FromPretrained(sparse) == layers = Absent /\ Load(HubShards(dir), sparse, FALSE, {})

Init == dir \in Directory /\ container = Absent /\ layers = Absent
Next == Convert \/ \E sparse \in BOOLEAN : FromLocal(sparse) \/ FromPretrained(sparse)
Spec == Init /\ [][Next]_vars

-----------------------------------------------------------------------------
(* "With XORNET_WEIGHT_FMT=sparse and a model.sparse next to the           *)
(* safetensors, weights are served from it" (docs/formats.md:146).         *)
ServedFromContainer ==
  layers # Absent /\ layers.sparse /\ layers.local /\ container # Absent
    => \A w \in DOMAIN layers.kinds :
         w.name \in Convertible(Repo(dir, ConvertShards(dir))) => layers.kinds[w] = "sparse_file"

=============================================================================
