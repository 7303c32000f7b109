---------------------------- MODULE ImageArchive ---------------------------
(***************************************************************************)
(* What internal/sandbox checks of the two archives a submission brings:   *)
(* the `docker save` archive of its screened image (image.go) and the      *)
(* tarball of its source (tarball.go).  Everything here is a pure          *)
(* operator.                                                               *)
(*                                                                         *)
(* SHA-256 is a free constructor: Digest(x) is [sha256 |-> x], so equal    *)
(* digests have equal contents and the bytes behind a digest are           *)
(* Bytes(d).  A content is a record with a kind, what a decoder reads of   *)
(* it and its size; a digest or a document the decoders refuse has another *)
(* shape or another kind.  An archive is [entries, truncated], an entry    *)
(* [name, content], a name [at, ...].                                      *)
(***************************************************************************)
EXTENDS Integers, Sequences, SequencesExt, FiniteSetsExt

CONSTANT Limits      \* the package's bounds, by name
ASSUME LimitsAssumption ==
  \A bound \in {"document", "descriptor", "blob", "blobs", "blobTotal", "layers", "attestations",
                "image", "tarball", "extracted", "files"} : Limits[bound] \in Nat

Digest(content) == [sha256 |-> content]
Bytes(digest) == digest.sha256
CanonicalSHA256Digest(digest) == "sha256" \in DOMAIN digest

(* Names: OciBlob needs a canonical digest, or the entry is another file. *)
OciBlob(digest) == [at |-> "blob", digest |-> digest]
ClassicConfig(digest) == [at |-> "config", digest |-> digest]

DockerTypes == [manifest |-> "docker manifest", config |-> "docker config",
                layers |-> {"docker layer", "docker gzip layer"}]
OciTypes == [manifest |-> "oci manifest", config |-> "oci config",
             layers |-> {"oci layer", "oci gzip layer", "oci zstd layer"}]
TypesOf(mediaType) == IF mediaType = OciTypes.manifest THEN OciTypes ELSE DockerTypes

(* [mediaType, digest, size, platform, attests, reference, imageName,      *)
(*  predicate]; attests says which annotation makes it an attestation.     *)
Descriptor(mediaType, digest) ==
  [mediaType |-> mediaType, digest |-> digest, size |-> Bytes(digest).size, platform |-> "none",
   attests |-> "", reference |-> digest, imageName |-> "", predicate |-> ""]

-----------------------------------------------------------------------------
(* One pass over the archive *)

Size(a, i) == a.entries[i].content.size
EntriesAt(a, at) == {i \in DOMAIN a.entries : a.entries[i].name.at = at}
Named(a, name) == {i \in DOMAIN a.entries : a.entries[i].name = name}
Unique(a, at) == \A i, j \in EntriesAt(a, at) : a.entries[i].name = a.entries[j].name => i = j
ContentAt(a, at) == a.entries[CHOOSE i \in EntriesAt(a, at) : TRUE].content

SmallBlobs(a, id) == {i \in EntriesAt(a, "blob") : /\ a.entries[i].name # OciBlob(id)
                                                  /\ Size(a, i) \in 1 .. Limits.blob}

Scannable(a, id) ==
  /\ ~a.truncated
  /\ \A at \in {"manifest.json", "index.json"} :
       Unique(a, at) /\ \A i \in EntriesAt(a, at) : Size(a, i) \in 1 .. Limits.document
  /\ Unique(a, "blob") /\ Unique(a, "layer")
  /\ Cardinality(EntriesAt(a, "layer")) <= Limits.layers
  /\ \A i \in Named(a, OciBlob(id)) : Size(a, i) \in 1 .. Limits.descriptor
  /\ Cardinality(SmallBlobs(a, id)) <= Limits.blobs
  /\ MapThenSumSet(LAMBDA i : Size(a, i), SmallBlobs(a, id)) <= Limits.blobTotal

(* The digests whose blob was read and hashes to its own name. *)
Verified(a, id) ==
  {a.entries[i].name.digest : i \in
     {i \in SmallBlobs(a, id) \cup Named(a, OciBlob(id)) :
        Digest(a.entries[i].content) = a.entries[i].name.digest}}

BlobSize(a, digest) ==
  LET blob == Named(a, OciBlob(digest)) IN
  IF blob = {} THEN 0 ELSE Size(a, CHOOSE i \in blob : TRUE)

-----------------------------------------------------------------------------
(* The immutable chain from the signed id to the image configuration *)

RunnableImageManifest(m, a, id) ==
  /\ m.kind = "manifest" /\ m.schema = 2
  /\ m.mediaType \in {DockerTypes.manifest, OciTypes.manifest}
  /\ CanonicalSHA256Digest(m.config.digest) /\ m.config.size > 0
  /\ Len(m.layers) <= Limits.layers
  /\ m.config.mediaType = TypesOf(m.mediaType).config
  /\ BlobSize(a, m.config.digest) = m.config.size /\ m.config.digest \in Verified(a, id)
  /\ \A k \in DOMAIN m.layers :
       LET layer == m.layers[k] IN
       /\ layer.mediaType \in TypesOf(m.mediaType).layers
       /\ CanonicalSHA256Digest(layer.digest) /\ layer.size > 0
       /\ BlobSize(a, layer.digest) = layer.size

AttestationManifest(descriptor, a, id) ==
  LET m == Bytes(descriptor.digest)
      layer == m.layers[1]
      Whole(part) == CanonicalSHA256Digest(part.digest) /\ part.digest \in Verified(a, id)
                     /\ part.size > 0 /\ Bytes(part.digest).size = part.size
  IN /\ Whole(descriptor)
     /\ m.kind = "manifest" /\ m.schema = 2 /\ m.mediaType = OciTypes.manifest
     /\ Len(m.layers) = 1 /\ m.config.mediaType = OciTypes.config
     /\ layer.mediaType = "in-toto" /\ layer.size <= Limits.blob /\ layer.predicate # ""
     /\ Whole(m.config) /\ Whole(layer)
     /\ Bytes(m.config.digest).kind = "config" /\ Bytes(m.config.digest).platform = "unknown"
     /\ Bytes(layer.digest).kind = "statement"
     /\ Bytes(layer.digest).predicate = layer.predicate
     /\ descriptor.reference \in Bytes(layer.digest).subjects

AttestationDescriptor(descriptor, runnable, a, id) ==
  /\ descriptor.mediaType = OciTypes.manifest /\ descriptor.size \in 1 .. Limits.blob
  /\ \/ descriptor.attests = "reference" /\ descriptor.platform = "unknown"
     \/ descriptor.attests = "subject" /\ descriptor.platform \in {"none", "unknown"}
  /\ CanonicalSHA256Digest(descriptor.digest) /\ CanonicalSHA256Digest(descriptor.reference)
  /\ descriptor.reference \in runnable /\ descriptor.imageName = ""
  /\ AttestationManifest(descriptor, a, id)

Runnable(index) == {k \in DOMAIN index.manifests : index.manifests[k].attests # "reference"}

PrimaryOCIIndex(index, a, id) ==
  /\ index.schema = 2
  /\ Len(index.manifests) \in 1 .. 1 + Limits.attestations
  /\ \E k \in Runnable(index) : Runnable(index) = {k}
  /\ \A k \in DOMAIN index.manifests :
       LET descriptor == index.manifests[k] IN
       IF k \in Runnable(index)
       THEN /\ descriptor.mediaType = OciTypes.manifest /\ descriptor.size > 0
            /\ descriptor.platform \notin {"none", "unknown"}
            /\ CanonicalSHA256Digest(descriptor.digest) /\ descriptor.digest \in Verified(a, id)
            /\ BlobSize(a, descriptor.digest) = descriptor.size
            /\ RunnableImageManifest(Bytes(descriptor.digest), a, id)
       ELSE AttestationDescriptor(descriptor,
              {index.manifests[j].digest : j \in Runnable(index)}, a, id)

(* The runnable manifests of the signed root, none when it is refused: an  *)
(* OCI index, or a schema-2 manifest that is its own only runnable.        *)
PrimaryOCIImage(a, id) ==
  LET root == Bytes(id) IN
  CASE id \notin Verified(a, id) -> {}
    [] id \in Verified(a, id) /\ root.kind = "index" ->
         IF PrimaryOCIIndex(root, a, id)
         THEN {root.manifests[k].digest : k \in Runnable(root)} ELSE {}
    [] id \in Verified(a, id) /\ root.kind = "manifest" ->
         IF root.mediaType = DockerTypes.manifest /\ RunnableImageManifest(root, a, id)
         THEN {id} ELSE {}
    [] OTHER -> {}

-----------------------------------------------------------------------------
(* The surrounding documents *)

IndexBinds(a, ref, id, tagged) ==
  LET manifests == ContentAt(a, "index.json").manifests
      primary == {k \in DOMAIN manifests : manifests[k].digest = id}
  IN /\ Len(manifests) \in 1 .. 1 + Limits.attestations
     /\ \E k \in primary :
          /\ primary = {k} /\ manifests[k].mediaType = Bytes(id).mediaType
          /\ manifests[k].imageName = ref \/ (~tagged /\ manifests[k].imageName = "")
     /\ \A k \in DOMAIN manifests \ primary :
          AttestationDescriptor(manifests[k], PrimaryOCIImage(a, id), a, id)

(* The schema-2 manifest the containerd store makes of a classic archive. *)
LayerContent(a, name) == a.entries[CHOOSE i \in Named(a, name) : TRUE].content
StoreManifest(a, id, image) ==
  [kind |-> "manifest", schema |-> 2, mediaType |-> DockerTypes.manifest,
   config |-> Descriptor(DockerTypes.config, id),
   layers |-> [k \in DOMAIN image.layers |->
                 Descriptor("docker layer", Digest(LayerContent(a, image.layers[k])))],
   size |-> 1]

(* [ok, tagged, ids]: whether the archive is accepted, whether it carries  *)
(* the reference, and the image ids the daemon may report after loading it *)
Refusal == [ok |-> FALSE, tagged |-> FALSE, ids |-> {}]

ClassicIdOnly(a, id, image) == {id}
ClassicStoreIds(a, id, image) == {id, Digest(StoreManifest(a, id, image))}

ValidateClassic(a, id, image, tagged) ==
  LET complete == /\ Bytes(id).size > 0 /\ Len(image.layers) <= Limits.layers
                  /\ \A k \in DOMAIN image.layers : Named(a, image.layers[k]) # {}
  IN IF complete THEN [ok |-> TRUE, tagged |-> tagged, ids |-> ClassicStoreIds(a, id, image)]
     ELSE Refusal

ValidateOCI(a, ref, id, image, tagged) ==
  LET runnable == PrimaryOCIImage(a, id)
      bound == /\ image.config.at = "blob" /\ image.config.digest \in Verified(a, id)
               /\ EntriesAt(a, "index.json") # {} /\ runnable # {}
               /\ IndexBinds(a, ref, id, tagged)
  IN IF bound THEN [ok |-> TRUE, tagged |-> tagged,
                    ids |-> {id} \cup runnable \cup {Bytes(d).config.digest : d \in runnable}]
     ELSE Refusal

ValidateDockerSaveArchive(a, ref, id) ==
  LET images == ContentAt(a, "manifest.json").images
      image == images[1]
      signed == Named(a, ClassicConfig(id)) \cup Named(a, OciBlob(id))
      readable == /\ Scannable(a, id) /\ EntriesAt(a, "manifest.json") # {} /\ Len(images) = 1
                  /\ image.tags \in {<<>>, <<ref>>}
                  /\ \E i \in signed : signed = {i} /\ Digest(a.entries[i].content) = id
      tagged == image.tags = <<ref>>
  IN CASE ~readable -> Refusal
       [] readable /\ image.config = ClassicConfig(id) -> ValidateClassic(a, id, image, tagged)
       [] OTHER -> ValidateOCI(a, ref, id, image, tagged)

-----------------------------------------------------------------------------
(* The daemon, an external program: the id it reports for the image of an  *)
(* archive it has loaded.  The graph driver reads manifest.json, the       *)
(* containerd store index.json when there is one.                          *)
LoadedId(a, store) ==
  LET image == ContentAt(a, "manifest.json").images[1]
      config == Digest(LayerContent(a, image.config))
      manifests == ContentAt(a, "index.json").manifests
      main == CHOOSE k \in DOMAIN manifests : manifests[k].attests = ""
  IN CASE store = "graphdriver" -> config
       [] store = "containerd" /\ EntriesAt(a, "index.json") # {} -> manifests[main].digest
       [] OTHER -> Digest(StoreManifest(a, config, image))

(* The configuration an image id stands for. *)
Configuration(digest) ==
  LET root == Bytes(digest)
      Of(manifest) == Bytes(manifest.config.digest)
  IN CASE root.kind = "config" -> root
       [] root.kind = "manifest" -> Of(root)
       [] root.kind = "index" ->
            Of(Bytes(root.manifests[CHOOSE k \in Runnable(root) : TRUE].digest))

-----------------------------------------------------------------------------
(* The source tarball: [entries, compressed, pinned], an entry             *)
(* [path, place, kind, size].  Every body counts against the budget, also  *)
(* those of the entries that are skipped.                                  *)
InflatedBefore(entries, k) == MapThenSumSet(LAMBDA j : entries[j].size, 1 .. k - 1)

ExtractTarGz(entries) ==
  \A k \in DOMAIN entries :
    LET budget == Limits.extracted - InflatedBefore(entries, k) IN
    /\ k <= Limits.files
    /\ entries[k].place = "inside"
    /\ entries[k].size <= budget
    /\ entries[k].kind = "file" => budget > 0

(* The root if it holds a Dockerfile, else the only top directory with one *)
HasBuildContext(entries) ==
  LET files == {entries[k].path : k \in {j \in DOMAIN entries : entries[j].kind = "file"}}
      dirs == {path[1] : path \in {p \in files : Len(p) > 1}}
              \cup {entries[k].path[1] : k \in {j \in DOMAIN entries : entries[j].kind = "dir"}}
  IN \/ <<"Dockerfile">> \in files
     \/ \E dir \in dirs : dirs = {dir} /\ <<dir, "Dockerfile">> \in files

FetchTarball(tarball) ==
  /\ tarball.compressed <= Limits.tarball
  /\ ExtractTarGz(tarball.entries)
  /\ tarball.pinned
  /\ HasBuildContext(tarball.entries)
=============================================================================
