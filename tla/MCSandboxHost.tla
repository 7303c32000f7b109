--------------------------- MODULE MCSandboxHost ---------------------------
(* Instances of SandboxHost: two runs, archives of every shape the stores  *)
(* produce, and archives that are not what the screener signed.            *)
EXTENDS SandboxHost

MCLimits == [document |-> 2, descriptor |-> 2, blob |-> 2, blobs |-> 5, blobTotal |-> 7, layers |-> 2,
             attestations |-> 1, image |-> 9, tarball |-> 3, extracted |-> 3, files |-> 3]

CONSTANTS r1, r2
Both(s1, s2) == r1 :> s1 @@ r2 :> s2

(* Image contents; a layer is larger than the blobs that are kept. *)
Config(name, volumes) ==
  [kind |-> "config", name |-> name, volumes |-> volumes, platform |-> "linux", size |-> 1]
Layer == [kind |-> "layer", size |-> 3]
Manifest(types, config) ==
  [kind |-> "manifest", schema |-> 2, mediaType |-> types.manifest,
   config |-> Descriptor(types.config, Digest(config)),
   layers |-> <<Descriptor(IF types = OciTypes THEN "oci layer" ELSE "docker layer", Digest(Layer))>>,
   size |-> 1]

(* The provenance of a runnable manifest, as BuildKit attests it. *)
Statement(runnable) ==
  [kind |-> "statement", predicate |-> "slsa", subjects |-> {Digest(runnable)}, size |-> 1]
Unknown == [kind |-> "config", platform |-> "unknown", size |-> 1]
Attestation(runnable) ==
  [kind |-> "manifest", schema |-> 2, mediaType |-> OciTypes.manifest,
   config |-> Descriptor(OciTypes.config, Digest(Unknown)),
   layers |-> <<[Descriptor("in-toto", Digest(Statement(runnable))) EXCEPT !.predicate = "slsa"]>>,
   size |-> 1]
Index(runnable, others) ==
  [kind |-> "index", schema |-> 2, mediaType |-> "oci index", size |-> 1,
   manifests |-> <<[Descriptor(OciTypes.manifest, Digest(runnable)) EXCEPT !.platform = "linux"]>> \o others]
Attests(runnable) ==
  [Descriptor(OciTypes.manifest, Digest(Attestation(runnable)))
     EXCEPT !.platform = "unknown", !.attests = "reference", !.reference = Digest(runnable)]

-----------------------------------------------------------------------------
Entry(name, content) == [name |-> name, content |-> content]
Blob(content) == Entry(OciBlob(Digest(content)), content)
Documents(config, layers, repoTags) ==
  Entry([at |-> "manifest.json"],
        [kind |-> "images", size |-> 1, images |-> <<[config |-> config, layers |-> layers, tags |-> repoTags]>>])
IndexJson(descriptors) == Entry([at |-> "index.json"], [kind |-> "index", size |-> 1, manifests |-> descriptors])
Archive(entries) == [entries |-> entries, truncated |-> FALSE]

LayerTar == [at |-> "layer", number |-> 1]
Classic(config, repoTags) ==
  Archive(<<Documents(ClassicConfig(Digest(config)), <<LayerTar>>, repoTags),
            Entry(ClassicConfig(Digest(config)), config), Entry(LayerTar, Layer)>>)
(* An OCI layout with the given root, around one runnable manifest. *)
Layout(root, config, shown, repoTags, more) ==
  Archive(<<Documents(OciBlob(Digest(shown)), <<>>, repoTags),
            IndexJson(<<[Descriptor(root.mediaType, Digest(root)) EXCEPT !.imageName =
                           IF repoTags = <<>> THEN "" ELSE repoTags[1]]>>),
            Blob(root), Blob(config), Blob(Layer)>> \o more)

Submission(ref, id, archive, tarball) == [ref |-> ref, id |-> id, archive |-> archive, tarball |-> tarball]
File(path, size) == [path |-> path, place |-> "inside", kind |-> "file", size |-> size]
Tarball(entries) == [entries |-> entries, compressed |-> 1, pinned |-> TRUE]
AtTheLimit == Tarball(<<[File(<<"top">>, 0) EXCEPT !.kind = "dir"], File(<<"top", "Dockerfile">>, 1),
                        File(<<"top", "main">>, 2)>>)
PastTheLimit == Tarball(<<File(<<"Dockerfile">>, 1), [File(<<"link">>, 2) EXCEPT !.kind = "symlink"],
                          File(<<"main">>, 1)>>)

A == Config("a", FALSE)
B == Config("b", FALSE)
V == Config("v", TRUE)
DockerA == Manifest(DockerTypes, A)
OciB == Manifest(OciTypes, B)
IndexB == Index(OciB, <<Attests(OciB)>>)
Provenance == <<Blob(OciB), Blob(Attestation(OciB)), Blob(Unknown), Blob(Statement(OciB))>>

(* As the platform stores them; then the signed name over other bytes,     *)
(* another configuration beside the signed one, a second image, writable   *)
(* volumes, another reference, a source that inflates past the limit.      *)
TwoRoots == Index(DockerA, <<[Descriptor(OciTypes.manifest, Digest(OciB)) EXCEPT !.platform = "linux"]>>)
MCCatalogue ==
  [classic |-> Submission("x", Digest(A), Classic(A, <<>>), AtTheLimit),
   tagged |-> Submission("x", Digest(B), Classic(B, <<"x">>), AtTheLimit),
   other |-> Submission("y", Digest(B), Classic(B, <<"y">>), AtTheLimit),
   docker |-> Submission("x", Digest(DockerA), Layout(DockerA, A, A, <<>>, <<>>), AtTheLimit),
   indexed |-> Submission("x", Digest(IndexB), Layout(IndexB, B, B, <<"x">>, Provenance), AtTheLimit),
   forged |-> Submission("x", Digest(A), [Classic(A, <<>>) EXCEPT !.entries[2].content = B], AtTheLimit),
   beside |-> Submission("x", Digest(DockerA), Layout(DockerA, A, B, <<>>, <<Blob(B)>>), AtTheLimit),
   roots |-> Submission("x", Digest(TwoRoots),
                        Layout(TwoRoots, A, A, <<>>, <<Blob(DockerA), Blob(OciB), Blob(B)>>), AtTheLimit),
   volumes |-> Submission("x", Digest(V), Classic(V, <<"x">>), AtTheLimit),
   mistagged |-> Submission("y", Digest(B), Classic(B, <<"x">>), AtTheLimit),
   bomb |-> Submission("x", Digest(B), Classic(B, <<"x">>), PastTheLimit)]
MCHonest == {"classic", "tagged", "other", "docker", "indexed"}

MCAssignments ==
  {Both("classic", "classic"), Both("docker", "indexed"),
   Both("other", "tagged"), Both("beside", "bomb"), Both("volumes", "mistagged"),
   Both("forged", "roots")}
MCHosts ==
  {[store |-> "graphdriver", operator |-> Digest(A)], [store |-> "containerd", operator |-> NoImage],
   [store |-> "containerd", operator |-> Digest(A)]}
=============================================================================
