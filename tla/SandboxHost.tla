---------------------------- MODULE SandboxHost ----------------------------
(***************************************************************************)
(* The Docker host of one scorer: LocalDocker's Build with the load of the *)
(* screened image, Run, Stop, Release and Diagnostics as the runs of one   *)
(* process interleave them, and the start-up cleanup after a crash.  What  *)
(* is on the host outlives the process: images, containers and networks.   *)
(* The worker around these calls is in RunLifecycle.                       *)
(*                                                                         *)
(* Catalogue[s] is the submission called s, [ref, id, archive, tarball]:   *)
(* reference and image id of the platform's screener, and two archives.    *)
(* Every docker command either does its work, or is refused, or is cut by  *)
(* the context of its run: then the work may be done all the same.         *)
(* exec.CommandContext does not start a command whose context is over.     *)
(***************************************************************************)
EXTENDS ImageArchive

CONSTANTS
  Runs,                  \* run ids
  Catalogue,             \* the submissions there are, by name
  Honest,                \* those that are as the platform stores them
  Assignments,           \* which submissions the runs may score together
  Hosts,                 \* [store, operator]: the daemon's image store, and the image an operator
                         \* has tagged with the screener references, or NoImage
  AllowScreenedImages,   \* DITTOBENCH_ALLOW_SCREENED_IMAGES
  EgressNetwork,         \* DITTOBENCH_SANDBOX_EGRESS_NETWORK is set
  MaxFaults,             \* bound: refused or cut commands, failed downloads, cancellations
  MaxCrashes             \* bound: crashes of the process
ASSUME SandboxHostAssumption ==
  /\ \A h \in Hosts : h.store \in {"graphdriver", "containerd"}
  /\ Honest \subseteq DOMAIN Catalogue /\ Assignments \subseteq [Runs -> DOMAIN Catalogue]
  /\ {AllowScreenedImages, EgressNetwork} \subseteq BOOLEAN
  /\ {MaxFaults, MaxCrashes} \subseteq Nat
  /\ "nobody" \notin Runs

(* What the checks say of the archive of a submission. *)
Judge(s) == ValidateDockerSaveArchive(Catalogue[s].archive, Catalogue[s].ref, Catalogue[s].id)

(* What a signed chain ends in is an image configuration, as the screener  *)
(* has run it, and so is what docker save has written as one.              *)
ASSUME SignedAssumption ==
  \A s \in DOMAIN Catalogue : LET id == Catalogue[s].id  archive == Catalogue[s].archive IN
    Judge(s).ok =>
      /\ Configuration(id).kind = "config"
      /\ ContentAt(archive, "manifest.json").images[1].config = ClassicConfig(id) =>
           Bytes(id).kind = "config"

(* As the platform stores a submission: accepted, without volumes, and the *)
(* documents beside the signed chain say what docker save writes in them.  *)
AsStored(s) ==
  LET archive == Catalogue[s].archive
      id == Catalogue[s].id
      manifests == ContentAt(archive, "index.json").manifests
  IN /\ FetchTarball(Catalogue[s].tarball) /\ Judge(s).ok /\ ~Configuration(id).volumes
     /\ LayerContent(archive, ContentAt(archive, "manifest.json").images[1].config) = Configuration(id)
     /\ EntriesAt(archive, "index.json") # {} =>
          LET main == {k \in DOMAIN manifests : manifests[k].attests = ""} IN
          main # {} /\ \A k \in main : manifests[k].digest = id
ASSUME HonestAssumption == \A s \in Honest : AsStored(s)

VARIABLES
  store,       \* the kind of the daemon's image store: fixed
  operator,    \* the image the operator had tagged: fixed
  submission,  \* per run: what is scored
  judged,      \* per run: what the checks say of its archive: fixed
  process,     \* "up", or the step of CleanupStale it is in
  cleaned,     \* the last CleanupStale removed everything it found
  mutex,       \* screenedImageLoadMu: the run holding it, or Nobody
  tags,        \* host: the image id behind each reference, or NoImage
  images,      \* host: the image ids in the store
  containers,  \* host: per run, its container: [state, image] or NoContainer
  networks,    \* host: per run, whether its network is there
  pc, ctx,     \* per run: where its worker is, and its context
  prior,       \* per run: the image its screener reference had before the load
  todo, next,  \* per run: what its teardown has to remove, and what follows
  restarted,   \* per run: its container was replaced (the compatibility restart)
  verdict,     \* per run: how its Build ended
  faults, crashes,       \* counters for the bounds
  disturbed,   \* per run: one of its steps failed for reasons of the host
  blamed       \* per run: a command that was cut or is not repeated may have left something

host == <<tags, images, containers, networks>>
control == <<mutex, pc, prior, todo, next, restarted, verdict>>
fixed == <<store, operator, submission, judged, process, cleaned, crashes>>
vars == <<fixed, control, host, ctx, faults, disturbed, blamed>>

Nobody == "nobody"
NoImage == [absent |-> TRUE]
NoContainer == [state |-> "none", image |-> NoImage]

(* References: the screener's, and the request-scoped one of each run. *)
Screener(r) == <<"screener", Catalogue[submission[r]].ref>>
Local(r) == <<"dittobench-sub", r>>
References == {Screener(r) : r \in Runs} \cup {Local(r) : r \in Runs}

AcceptedIds(r) == judged[r].ids
SignedId(r) == Catalogue[submission[r]].id

Init ==
  /\ submission \in Assignments
  /\ judged = [r \in Runs |-> Judge(submission[r])]
  /\ process = "up" /\ cleaned = TRUE /\ mutex = Nobody
  /\ \E h \in Hosts :
       /\ store = h.store /\ operator = h.operator /\ images = {h.operator} \ {NoImage}
       /\ tags = [name \in References |-> IF name[1] = "screener" THEN h.operator ELSE NoImage]
  /\ containers = [r \in Runs |-> NoContainer] /\ networks = [r \in Runs |-> FALSE]
  /\ pc = [r \in Runs |-> "queued"] /\ ctx = [r \in Runs |-> "alive"]
  /\ prior = [r \in Runs |-> NoImage]
  /\ todo = [r \in Runs |-> <<>>] /\ next = [r \in Runs |-> "ended"]
  /\ restarted = [r \in Runs |-> FALSE] /\ verdict = [r \in Runs |-> "none"]
  /\ faults = 0 /\ crashes = 0
  /\ disturbed = [r \in Runs |-> FALSE] /\ blamed = [r \in Runs |-> FALSE]

-----------------------------------------------------------------------------
(* Commands under the context of the run: Works, Refused, CutAfterwards.   *)
(* Lost is a refusal that nobody makes up for.                             *)

Fault == faults < MaxFaults /\ faults' = faults + 1
Calm == UNCHANGED <<ctx, faults, disturbed, blamed>>
Disturb(r) == disturbed' = [disturbed EXCEPT ![r] = TRUE]
Blame(r) == blamed' = [blamed EXCEPT ![r] = TRUE]

Alive(r) == ctx[r] = "alive"
Works(r) == Alive(r) /\ Calm
Refused(r) ==
  \/ Alive(r) /\ Fault /\ Disturb(r) /\ UNCHANGED <<ctx, blamed>>
  \/ ~Alive(r) /\ Calm
CutAfterwards(r) == Alive(r) /\ Fault /\ Disturb(r) /\ Blame(r) /\ ctx' = [ctx EXCEPT ![r] = "done"]
Lost(r) == Fault /\ Disturb(r) /\ Blame(r) /\ UNCHANGED ctx

(* The run is cancelled or its build or start deadline passes. *)
Expire(r) ==
  /\ pc[r] \notin {"queued", "ended", "lost"} /\ Alive(r)
  /\ Fault /\ ctx' = [ctx EXCEPT ![r] = "done"] /\ Disturb(r)
  /\ UNCHANGED <<fixed, control, host, blamed>>

Goto(r, at) == pc' = [pc EXCEPT ![r] = at]
End(r, outcome) == Goto(r, "ended") /\ verdict' = [verdict EXCEPT ![r] = outcome]

(* docker image tag: an image keeps its other references. *)
Retag(name, id) == tags' = [tags EXCEPT ![name] = id]

(* docker image rm of a reference, as the daemon does it: the last one     *)
(* takes the image along, and stays while a container uses the image.      *)
InUse(id) == \E r \in Runs : containers[r].image = id
LastTag(name) == \A other \in DOMAIN tags : other # name => tags[other] # tags[name]
RemoveTag(name) ==
  IF tags[name] = NoImage \/ (LastTag(name) /\ InUse(tags[name]))
  THEN UNCHANGED <<tags, images>>
  ELSE /\ Retag(name, NoImage)
       /\ images' = IF LastTag(name) THEN images \ {tags[name]} ELSE images

-----------------------------------------------------------------------------
(* Build: the source tree, then the screened image *)

Materialize(r) ==
  /\ process = "up" /\ pc[r] = "queued"
  /\ \/ /\ Calm
        /\ IF FetchTarball(Catalogue[submission[r]].tarball)
           THEN Goto(r, "fetch") /\ UNCHANGED verdict ELSE End(r, "build failed")
     \/ Fault /\ Disturb(r) /\ UNCHANGED <<ctx, blamed>> /\ End(r, "build failed")
  /\ UNCHANGED <<fixed, mutex, prior, todo, next, restarted, host>>

(* A transport error, a 429, a 5xx or a full disk is no fault of the       *)
(* submission; the archive is judged before the daemon sees it.            *)
FetchImage(r) ==
  /\ pc[r] = "fetch"
  /\ \/ /\ Works(r)
        /\ IF judged[r].ok THEN Goto(r, "lock") /\ UNCHANGED verdict ELSE End(r, "build failed")
     \/ Refused(r) /\ End(r, "screened_image_unavailable")
  /\ UNCHANGED <<fixed, mutex, prior, todo, next, restarted, host>>

LoadNeedsNoLock == TRUE
LoadIsFree == mutex = Nobody

(* screenedImageLoadMu, and inspectImageID: an error reads as no image. *)
LockLoad(r) ==
  /\ pc[r] = "lock" /\ LoadIsFree
  /\ mutex' = r /\ Goto(r, "load")
  /\ \/ Works(r) /\ prior' = [prior EXCEPT ![r] = tags[Screener(r)]]
     \/ /\ \/ Alive(r) /\ Lost(r)
           \/ ~Alive(r) /\ Calm
        /\ prior' = [prior EXCEPT ![r] = NoImage]
  /\ UNCHANGED <<fixed, todo, next, restarted, verdict, host>>

Unlock(r) == mutex' = Nobody /\ prior' = [prior EXCEPT ![r] = NoImage]

(* restoreImageRef: the prior image, or none, behind the screener's name. *)
CanRestore(r) == IF prior[r] = NoImage THEN tags[Screener(r)] # NoImage ELSE prior[r] \in images
RestoreRef(r) ==
  CASE ~CanRestore(r) -> UNCHANGED <<tags, images>>
    [] CanRestore(r) /\ prior[r] = NoImage -> RemoveTag(Screener(r))
    [] OTHER -> Retag(Screener(r), prior[r]) /\ UNCHANGED images

Loaded(r) == LoadedId(Catalogue[submission[r]].archive, store)
DockerLoad(r) ==
  /\ images' = images \cup {Loaded(r)}
  /\ IF judged[r].tagged THEN Retag(Screener(r), Loaded(r)) ELSE UNCHANGED tags

(* A failed load restores the reference under the same context, so not at  *)
(* all when the context was what failed it.                                *)
LoadImage(r) ==
  /\ pc[r] = "load"
  /\ \/ /\ Works(r) /\ DockerLoad(r)
        /\ Goto(r, IF judged[r].tagged THEN "check" ELSE "tag")
        /\ UNCHANGED <<mutex, prior, verdict>>
     \/ /\ Refused(r)
        /\ IF Alive(r) THEN RestoreRef(r) ELSE UNCHANGED <<tags, images>>
        /\ Unlock(r) /\ End(r, "build failed")
     \/ /\ CutAfterwards(r) /\ DockerLoad(r)
        /\ Unlock(r) /\ End(r, "build failed")
  /\ UNCHANGED <<fixed, todo, next, restarted, containers, networks>>

(* The rest of the load: a failure leads to the deferred restore. *)
LoadStep(r, at, then, effect) ==
  /\ pc[r] = at
  /\ \/ Works(r) /\ effect /\ Goto(r, then)
     \/ Refused(r) /\ UNCHANGED <<tags, images>> /\ Goto(r, "undo")
     \/ CutAfterwards(r) /\ effect /\ Goto(r, "undo")
  /\ UNCHANGED <<fixed, mutex, prior, todo, next, restarted, verdict, containers, networks>>

(* An archive without a reference gets the expected one, if the daemon     *)
(* knows its image under one of the accepted ids.                          *)
PresentIds(r) == AcceptedIds(r) \cap images
TagUntagged(r) ==
  /\ PresentIds(r) # {}
  /\ \E id \in PresentIds(r) :
       /\ SignedId(r) \in PresentIds(r) => id = SignedId(r)
       /\ LoadStep(r, "tag", "check", Retag(Screener(r), id) /\ UNCHANGED images)

CheckImage(r) ==
  /\ tags[Screener(r)] \in AcceptedIds(r) /\ ~Configuration(tags[Screener(r)]).volumes
  /\ LoadStep(r, "check", "own", UNCHANGED <<tags, images>>)

(* The image is not there, is another one, or declares volumes. *)
RejectImage(r) ==
  /\ \/ pc[r] = "tag" /\ PresentIds(r) = {}
     \/ pc[r] = "check" /\ tags[Screener(r)] \notin AcceptedIds(r)
     \/ pc[r] = "check" /\ tags[Screener(r)] \in AcceptedIds(r)
          /\ Configuration(tags[Screener(r)]).volumes
  /\ Goto(r, "undo")
  /\ UNCHANGED <<fixed, mutex, prior, todo, next, restarted, verdict, host, ctx, faults,
                 disturbed, blamed>>

OwnImage(r) ==
  LoadStep(r, "own", "drop ref", Retag(Local(r), tags[Screener(r)]) /\ UNCHANGED images)

(* The screener's reference is given back at once.  An error here makes    *)
(* Build fail although the request-scoped reference exists.                *)
DropRef(r) ==
  /\ pc[r] = "drop ref"
  /\ \/ Works(r) /\ RestoreRef(r)
        /\ IF CanRestore(r)
           THEN Goto(r, "built") /\ Unlock(r) /\ verdict' = [verdict EXCEPT ![r] = "built"]
           ELSE Goto(r, "undo") /\ UNCHANGED <<mutex, prior, verdict>>
     \/ Refused(r) /\ UNCHANGED <<tags, images, mutex, prior, verdict>> /\ Goto(r, "undo")
     \/ CutAfterwards(r) /\ RestoreRef(r) /\ Goto(r, "undo") /\ UNCHANGED <<mutex, prior, verdict>>
  /\ UNCHANGED <<fixed, todo, next, restarted, containers, networks>>

(* The deferred restore, under context.Background, then the unlock. *)
UndoLoad(r) ==
  /\ pc[r] = "undo"
  /\ \/ RestoreRef(r) /\ Calm
     \/ Lost(r) /\ UNCHANGED <<tags, images>>
  /\ Unlock(r) /\ End(r, "build failed")
  /\ UNCHANGED <<fixed, todo, next, restarted, containers, networks>>

-----------------------------------------------------------------------------
(* Run and the teardown *)

(* Commands that remove something run under context.Background: what a     *)
(* teardown has to do does not depend on the fate of the run.              *)
Teardown(r, things, then) ==
  /\ Goto(r, "removing")
  /\ todo' = [todo EXCEPT ![r] = things] /\ next' = [next EXCEPT ![r] = then]

NetworkFirst == <<"network", "container", "image">>
Everything == <<"container", "network", "image">>
(* The deferred Release of runSizeJob, after Build has returned an image. *)
Unwind(r, things) == Teardown(r, Append(things, "image"), "ended")

FirstStep == IF EgressNetwork THEN "network" ELSE "container"

(* The steps of the worker between Build and Run may fail the run. *)
BeginRun(r) ==
  /\ pc[r] = "built"
  /\ \/ Goto(r, FirstStep) /\ UNCHANGED <<todo, next>>
     \/ Unwind(r, <<>>)
  /\ UNCHANGED <<fixed, mutex, prior, restarted, verdict, host, ctx, faults, disturbed, blamed>>

(* A network that the daemon made after the deadline is nobody's. *)
CreateIsolatedNetwork(r) ==
  /\ pc[r] = "network"
  /\ \/ /\ Works(r) /\ networks' = [networks EXCEPT ![r] = TRUE]
        /\ Goto(r, "container") /\ UNCHANGED <<todo, next>>
     \/ /\ \/ Refused(r) /\ UNCHANGED networks
           \/ CutAfterwards(r) /\ networks' = [networks EXCEPT ![r] = TRUE]
        /\ Unwind(r, <<>>)
  /\ UNCHANGED <<fixed, mutex, prior, restarted, verdict, tags, images, containers>>

(* docker run: a container made after the deadline is removed by its name. *)
StartContainer(r) ==
  LET Start == containers' = [containers EXCEPT ![r] = [state |-> "running", image |-> tags[Local(r)]]]
  IN /\ pc[r] = "container"
     /\ \/ Works(r) /\ Start /\ Goto(r, "address") /\ UNCHANGED <<todo, next>>
        \/ /\ \/ Refused(r) /\ UNCHANGED containers
              \/ CutAfterwards(r) /\ Start
           /\ Unwind(r, Everything)
     /\ UNCHANGED <<fixed, mutex, prior, restarted, verdict, tags, images, networks>>

(* mappedPort and containerIP: a failure stops the container. *)
ReadAddress(r) ==
  /\ pc[r] = "address"
  /\ \/ Works(r) /\ Goto(r, "serving") /\ UNCHANGED <<todo, next>>
     \/ Refused(r) /\ Unwind(r, Everything)
  /\ UNCHANGED <<fixed, mutex, prior, restarted, verdict, host>>

(* stopSandboxForRestart keeps the image for the replacement. *)
RestartContainer(r) ==
  /\ pc[r] = "serving" /\ ~restarted[r]
  /\ Teardown(r, <<"container", "network">>, FirstStep)
  /\ restarted' = [restarted EXCEPT ![r] = TRUE]
  /\ UNCHANGED <<fixed, mutex, prior, verdict, host, ctx, faults, disturbed, blamed>>

FinishRun(r) ==
  /\ pc[r] = "serving"
  /\ Unwind(r, Everything)
  /\ UNCHANGED <<fixed, mutex, prior, restarted, verdict, host, ctx, faults, disturbed, blamed>>

(* Release does not take screenedImageLoadMu: the last reference to go may *)
(* take the image that a load has put there without a reference, or the    *)
(* one a load has found and has yet to restore.                            *)
Bereaved(name) ==
  IF tags[name] # NoImage /\ LastTag(name) /\ ~InUse(tags[name])
  THEN {s \in Runs : \/ pc[s] = "tag" /\ Loaded(s) = tags[name]
                     \/ mutex = s /\ prior[s] = tags[name]} ELSE {}

RemoveThing(r, thing) ==
  CASE thing = "container" ->
         /\ containers' = [containers EXCEPT ![r] = NoContainer]
         /\ UNCHANGED <<tags, images, networks, disturbed, blamed>>
    [] thing = "network" ->
         /\ networks' = [networks EXCEPT ![r] = networks[r] /\ containers[r] # NoContainer]
         /\ UNCHANGED <<tags, images, containers, disturbed, blamed>>
    [] thing = "image" ->
         /\ RemoveTag(Local(r))
         /\ disturbed' = [s \in Runs |-> disturbed[s] \/ s \in Bereaved(Local(r))]
         /\ blamed' = [s \in Runs |-> blamed[s] \/ s \in Bereaved(Local(r))]
         /\ UNCHANGED <<containers, networks>>

(* Stop and Release ignore what a command answers. *)
RemoveNext(r) ==
  /\ pc[r] = "removing"
  /\ \/ RemoveThing(r, Head(todo[r])) /\ UNCHANGED <<ctx, faults>>
     \/ Lost(r) /\ UNCHANGED host
  /\ todo' = [todo EXCEPT ![r] = Tail(@)]
  /\ IF Len(todo[r]) = 1
     THEN Goto(r, next[r]) /\ next' = [next EXCEPT ![r] = "ended"]
     ELSE UNCHANGED <<pc, next>>
  /\ UNCHANGED <<fixed, mutex, prior, restarted, verdict>>

-----------------------------------------------------------------------------
(* Crash and start-up *)

(* Everything the process knew is gone; the host stays as it is.  Only the *)
(* cleanup tells a running container from one that has exited: which ones  *)
(* have is decided here.                                                   *)
RunningContainers == {r \in Runs : containers[r].state = "running"}
LabelledContainers == {r \in Runs : containers[r] # NoContainer}

Crash ==
  /\ process = "up" /\ crashes < MaxCrashes
  /\ \E exited \in SUBSET RunningContainers :
       containers' = [r \in Runs |-> IF r \in exited THEN [containers[r] EXCEPT !.state = "exited"]
                                     ELSE containers[r]]
  /\ crashes' = crashes + 1 /\ process' = "containers" /\ cleaned' = FALSE
  /\ mutex' = Nobody
  /\ pc' = [r \in Runs |-> IF pc[r] \in {"queued", "ended"} THEN pc[r] ELSE "lost"]
  /\ prior' = [r \in Runs |-> NoImage] /\ ctx' = [r \in Runs |-> "alive"]
  /\ todo' = [r \in Runs |-> <<>>] /\ next' = [r \in Runs |-> "ended"]
  /\ restarted' = [r \in Runs |-> FALSE]
  /\ UNCHANGED <<store, operator, submission, judged, verdict, tags, images, networks, faults, disturbed, blamed>>

(* A failed cleanup ends the process (which is started again) where        *)
(* screened images are allowed, and is only logged elsewhere.              *)
CleanupStale ==
  /\ \/ /\ process = "containers" /\ process' = "networks" /\ UNCHANGED <<faults, networks, cleaned>>
        /\ containers' = [r \in Runs |-> IF r \in LabelledContainers THEN NoContainer ELSE containers[r]]
     \/ /\ process = "networks" /\ process' = "up" /\ cleaned' = TRUE
        /\ networks' = [r \in Runs |-> networks[r] /\ containers[r] # NoContainer]
        /\ UNCHANGED <<faults, containers>>
     \/ /\ process \in {"containers", "networks"} /\ Fault
        /\ process' = IF AllowScreenedImages THEN "containers" ELSE "up"
        /\ UNCHANGED <<containers, networks, cleaned>>
  /\ UNCHANGED <<store, operator, submission, judged, crashes, control, tags, images, ctx, disturbed, blamed>>

BuildStep(r) ==
  \/ Materialize(r) \/ FetchImage(r) \/ LockLoad(r) \/ LoadImage(r) \/ TagUntagged(r)
  \/ CheckImage(r) \/ RejectImage(r) \/ OwnImage(r) \/ DropRef(r) \/ UndoLoad(r)
RunStep(r) ==
  \/ BeginRun(r) \/ CreateIsolatedNetwork(r) \/ StartContainer(r) \/ ReadAddress(r)
  \/ RestartContainer(r) \/ FinishRun(r) \/ RemoveNext(r)

Finished == (\A r \in Runs : pc[r] \in {"ended", "lost"}) /\ process = "up" /\ UNCHANGED vars

Next == Crash \/ CleanupStale \/ Finished
        \/ \E r \in Runs : BuildStep(r) \/ RunStep(r) \/ Expire(r)
Spec == Init /\ [][Next]_vars

-----------------------------------------------------------------------------
(* Properties *)

(* From the end of Build to the teardown the reference of a run stands for *)
(* the configuration the platform signed for this submission, whatever the *)
(* other runs load, release or restore meanwhile (image.go: "All are safe  *)
(* aliases only after the signed archive binds the complete chain").       *)
Owning == {"built", "network", "container", "address", "serving"}
BuildGetsItsOwnImage ==
  \A r \in Runs :
    /\ pc[r] \in Owning =>
         tags[Local(r)] # NoImage
         /\ Configuration(tags[Local(r)]) = Configuration(SignedId(r))
    /\ containers[r] # NoContainer =>
         Configuration(containers[r].image) = Configuration(SignedId(r))

(* A submission as the platform stores it is scored unless something of    *)
(* the host or the caller failed: neither store, nor an archive with or    *)
(* without its reference, nor another run makes the build fail.            *)
HonestSourcesBuild ==
  \A r \in Runs :
    verdict[r] \in {"build failed", "screened_image_unavailable"} /\ submission[r] \in Honest =>
      disturbed[r]

(* The host is left as it was found, unless a command was cut after it     *)
(* took effect or a removal was refused: a run whose Build returned an     *)
(* image leaves no container, network or image reference, on any failure   *)
(* path of Run and through the restart; and between loads the screener's   *)
(* references are those of the operator (image.go: "Every exit after       *)
(* docker load restores the prior tag").                                   *)
LeavesNothing(r) == containers[r] = NoContainer /\ ~networks[r] /\ tags[Local(r)] = NoImage
HostLeftAsFound ==
  (\A r \in Runs : ~blamed[r]) =>
    \A r \in Runs :
      /\ pc[r] = "ended" /\ verdict[r] = "built" => LeavesNothing(r)
      /\ mutex = Nobody /\ crashes = 0 => tags[Screener(r)] = operator

(* After a start-up cleanup that succeeded nothing of an earlier process   *)
(* is left but images (CleanupStale: "retaining an old untrusted container *)
(* could only create cross-run interference").                             *)
RestartCleans ==
  process = "up" /\ cleaned =>
    \A r \in Runs : pc[r] = "lost" => containers[r] = NoContainer /\ ~networks[r]
=============================================================================
