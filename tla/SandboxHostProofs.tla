------------------------- MODULE SandboxHostProofs -------------------------
(***************************************************************************)
(* Theorems about SandboxHost, for any set of runs, any catalogue of       *)
(* submissions, any daemon and any number of faults and crashes.           *)
(*                                                                         *)
(* The inductive invariant IInv has one part per thing that is shared or   *)
(* handed on: the types, the lock of the load, the teardown, the start-up  *)
(* after a crash, the image of a run, what a run holds, and the names of   *)
(* the screener.                                                           *)
(***************************************************************************)
EXTENDS SandboxHost, SequenceTheorems, TLAPS

-----------------------------------------------------------------------------
(* Types *)

Places == {"queued", "fetch", "lock", "load", "tag", "check", "own", "drop ref", "undo", "built",
           "network", "container", "address", "serving", "removing", "ended", "lost"}
Loading == {"load", "tag", "check", "own", "drop ref", "undo"}
Outcomes == {"none", "built", "build failed", "screened_image_unavailable"}

(* The ids an image can have on this host. *)
LoadedIds == {LoadedId(Catalogue[s].archive, h.store) : s \in DOMAIN Catalogue, h \in Hosts}
AllAccepted == UNION {Judge(s).ids : s \in DOMAIN Catalogue}
OperatorIds == {h.operator : h \in Hosts}
Ids == {NoImage} \cup OperatorIds \cup AllAccepted \cup LoadedIds
Containers == [state : {"none", "running", "exited"}, image : Ids]

(* What is left of a teardown: of the run, and of the restart. *)
Unwindings == {<<"container", "network", "image", "image">>, <<"network", "image", "image">>,
               <<"image", "image">>, <<"image">>}
Restarts == {<<"container", "network">>, <<"network">>}

(* Every variable has its type. *)
HostTyped ==
  /\ submission \in [Runs -> DOMAIN Catalogue] /\ judged = [r \in Runs |-> Judge(submission[r])]
  /\ store \in {h.store : h \in Hosts} /\ operator \in Ids
  /\ process \in {"up", "containers", "networks"} /\ cleaned \in BOOLEAN
  /\ mutex \in Runs \cup {Nobody}
  /\ tags \in [References -> Ids] /\ images \subseteq Ids
  /\ containers \in [Runs -> Containers] /\ networks \in [Runs -> BOOLEAN]
  /\ pc \in [Runs -> Places] /\ ctx \in [Runs -> {"alive", "done"}] /\ prior \in [Runs -> Ids]
  /\ todo \in [Runs -> Unwindings \cup Restarts \cup {<<>>}]
  /\ next \in [Runs -> {"ended", "network", "container"}]
  /\ restarted \in [Runs -> BOOLEAN] /\ verdict \in [Runs -> Outcomes]
  /\ faults \in Nat /\ crashes \in Nat
  /\ disturbed \in [Runs -> BOOLEAN] /\ blamed \in [Runs -> BOOLEAN]

-----------------------------------------------------------------------------
(* The inductive invariant *)

(* The lock of the load is with the run that is inside. *)
MutexInv == \A r \in Runs : pc[r] \in Loading <=> mutex = r

(* A teardown ends the run and removes its image, or leads to the restart  *)
(* and keeps it.                                                           *)
TeardownInv ==
  \A r \in Runs : pc[r] = "removing" =>
    \/ next[r] = "ended" /\ todo[r] \in Unwindings
    \/ next[r] = FirstStep /\ todo[r] \in Restarts

(* No run of an earlier process goes on, and the containers go before the  *)
(* networks.                                                               *)
StartInv ==
  /\ process # "up" => ~cleaned /\ \A r \in Runs : pc[r] \in {"queued", "ended", "lost"}
  /\ process = "networks" => \A r \in Runs : containers[r] = NoContainer
  /\ RestartCleans

(* From the check of the screener's reference on, a run has an image that  *)
(* its archive has been accepted for.                                      *)
Keeps(r) == pc[r] \in Owning \cup {"drop ref"} \/ (pc[r] = "removing" /\ next[r] # "ended")
ImageInv ==
  \A r \in Runs :
    /\ pc[r] = "own" => tags[Screener(r)] \in AcceptedIds(r)
    /\ Keeps(r) => tags[Local(r)] \in AcceptedIds(r)
    /\ containers[r] # NoContainer => containers[r].image \in AcceptedIds(r)

(* A container and a network are at most where a removal is to come. *)
HoldInv ==
  \A r \in Runs : ~blamed[r] =>
    /\ containers[r] # NoContainer =>
         pc[r] \in {"address", "serving", "lost"} \/ (pc[r] = "removing" /\ Head(todo[r]) = "container")
    /\ networks[r] =>
         \/ pc[r] \in {"container", "address", "serving", "lost"}
         \/ pc[r] = "removing" /\ Head(todo[r]) \in {"container", "network"}

Clean == \A r \in Runs : ~blamed[r]

(* A container uses the image its run still has a reference to, so nobody  *)
(* else's removal meets an image in use.                                   *)
NameInv ==
  Clean => \A r \in Runs :
    /\ containers[r] # NoContainer => tags[Local(r)] = containers[r].image
    /\ pc[r] = "ended" /\ verdict[r] = "built" => tags[Local(r)] = NoImage

(* The screener's references are the operator's, but for the one that is   *)
(* being loaded, and its run remembers what to put back.                   *)
ScreenerInv ==
  Clean /\ crashes = 0 =>
    /\ mutex = Nobody => \A r \in Runs : tags[Screener(r)] = operator
    /\ \A s \in Runs : mutex = s =>
         /\ \A r \in Runs : Screener(r) # Screener(s) => tags[Screener(r)] = operator
         /\ pc[s] = "load" => tags[Screener(s)] = operator
         /\ prior[s] = operator \/ (ctx[s] # "alive" /\ pc[s] = "load")
    /\ operator # NoImage => operator \in images

IInv == HostTyped /\ MutexInv /\ TeardownInv /\ StartInv /\ ImageInv /\ HoldInv /\ NameInv /\ ScreenerInv

-----------------------------------------------------------------------------
(* Lemmas about the model's operators *)

(* A screener's reference is never a run's, and a run's is its own.        *)
LEMMA ReferencesDiffer ==
  ASSUME NEW r \in Runs, NEW s \in Runs
  PROVE  /\ Screener(r) \in References /\ Local(r) \in References
         /\ Screener(r) # Local(s) /\ (Local(r) = Local(s) => r = s)
  BY DEF Screener, Local, References

(* What is left of a teardown after its first removal. *)
LEMMA Removals ==
  /\ \A things \in Unwindings \cup Restarts :
       /\ Tail(things) \in Unwindings \cup Restarts \cup {<<>>}
       /\ Head(things) \in {"container", "network", "image"}
       /\ Len(things) = 1 <=> Tail(things) = <<>>
       /\ Head(things) = "container" => Len(things) # 1 /\ Head(Tail(things)) = "network"
  /\ \A things \in Unwindings :
       /\ Len(things) # 1 => Tail(things) \in Unwindings
       /\ Len(things) = 1 => Head(things) = "image"
       /\ Head(things) # "container" /\ Len(things) # 1 => Head(Tail(things)) = "image"
  /\ \A things \in Restarts :
       /\ Len(things) # 1 => Tail(things) \in Restarts
       /\ Head(things) # "image"
       /\ Head(things) = "network" => Len(things) = 1
  <1> DEFINE a == <<"container", "network", "image", "image">>
             b == <<"network", "image", "image">>
             c == <<"image", "image">>
             d == <<"image">>
             e == <<"container", "network">>
             f == <<"network">>
  <1>1. Tail(a) = b /\ Tail(b) = c /\ Tail(c) = d /\ Tail(d) = <<>> /\ Tail(e) = f /\ Tail(f) = <<>>
    OBVIOUS
  <1>2. /\ Head(a) = "container" /\ Head(b) = "network" /\ Head(c) = "image" /\ Head(d) = "image"
        /\ Head(e) = "container" /\ Head(f) = "network"
    OBVIOUS
  <1>3. Len(a) = 4 /\ Len(b) = 3 /\ Len(c) = 2 /\ Len(d) = 1 /\ Len(e) = 2 /\ Len(f) = 1
    OBVIOUS
  <1>4. b # <<>> /\ c # <<>> /\ d # <<>> /\ f # <<>>
    BY <1>3
  <1>5. Unwindings = {a, b, c, d} /\ Restarts = {e, f}
    BY DEF Unwindings, Restarts
  <1> HIDE DEF a, b, c, d, e, f
  <1>6. a # <<>>
    BY <1>3
  <1>7. ASSUME NEW things \in Unwindings
        PROVE  /\ Tail(things) \in Unwindings \cup {<<>>} /\ Head(things) \in {"container", "network", "image"}
               /\ Len(things) = 1 <=> Tail(things) = <<>>
               /\ Head(things) = "container" => Len(things) # 1 /\ Head(Tail(things)) = "network"
               /\ Len(things) # 1 => Tail(things) \in Unwindings
               /\ Len(things) = 1 => Head(things) = "image"
               /\ Head(things) # "container" /\ Len(things) # 1 => Head(Tail(things)) = "image"
    <2>1. things = a \/ things = b \/ things = c \/ things = d
      BY <1>5, <1>7
    <2>2. CASE things = a
      <3>1. Tail(things) = b /\ Head(things) = "container" /\ Len(things) = 4
        BY <2>2, <1>1, <1>2, <1>3
      <3>2. b \in Unwindings /\ b # <<>> /\ Head(b) = "network"
        BY <1>2, <1>4, <1>5
      <3>3. Tail(things) # <<>> /\ Len(things) # 1
        BY <3>1, <3>2, SMTT(60)
      <3>4. Head(Tail(things)) = "network" /\ Tail(things) \in Unwindings
        BY <3>1, <3>2
      <3> QED  BY <3>1, <3>3, <3>4, Zenon
    <2>3. CASE things = b  BY <2>3, <1>1, <1>2, <1>3, <1>4, <1>5
    <2>4. CASE things = c  BY <2>4, <1>1, <1>2, <1>3, <1>4, <1>5, SMTT(60)
    <2>5. CASE things = d  BY <2>5, <1>1, <1>2, <1>3, <1>4, <1>5
    <2> QED  BY <2>1, <2>2, <2>3, <2>4, <2>5
  <1>8. ASSUME NEW things \in Restarts
        PROVE  /\ Tail(things) \in Restarts \cup {<<>>} /\ Head(things) \in {"container", "network"}
               /\ Len(things) = 1 <=> Tail(things) = <<>>
               /\ Head(things) = "container" => Len(things) # 1 /\ Head(Tail(things)) = "network"
               /\ Len(things) # 1 => Tail(things) \in Restarts
               /\ Head(things) = "network" => Len(things) = 1
    BY <1>1, <1>2, <1>3, <1>4, <1>5, <1>8
  <1> QED  BY <1>7, <1>8

(* The removal of a reference touches no other one, and no image that has  *)
(* another one or is in use.                                               *)
LEMMA RemoveTagEffect ==
  ASSUME tags \in [References -> Ids], images \subseteq Ids, NEW name \in References, RemoveTag(name)
  PROVE  /\ tags' \in [References -> Ids] /\ images' \subseteq images
         /\ \A other \in References : other # name => tags'[other] = tags[other]
         /\ tags'[name] \in {tags[name], NoImage}
         /\ ~(LastTag(name) /\ InUse(tags[name])) => tags'[name] = NoImage
         /\ \A id \in images \ images' :
              id = tags[name] /\ tags[name] # NoImage /\ LastTag(name) /\ ~InUse(tags[name])
  <1>1. NoImage \in Ids
    BY DEF Ids
  <1>2. CASE tags[name] = NoImage \/ (LastTag(name) /\ InUse(tags[name]))
    BY <1>2 DEF RemoveTag
  <1>3. CASE ~(tags[name] = NoImage \/ (LastTag(name) /\ InUse(tags[name])))
    <2>1. tags' = [tags EXCEPT ![name] = NoImage]
      BY <1>3 DEF RemoveTag, Retag
    <2>2. images' = IF LastTag(name) THEN images \ {tags[name]} ELSE images
      BY <1>3 DEF RemoveTag
    <2> QED  BY <1>1, <1>3, <2>1, <2>2
  <1> QED  BY <1>2, <1>3

(* The restoration of a screener's reference touches no other one. *)
LEMMA RestoreEffect ==
  ASSUME HostTyped, NEW r \in Runs, RestoreRef(r)
  PROVE  /\ tags' \in [References -> Ids] /\ images' \subseteq images
         /\ \A other \in References : other # Screener(r) => tags'[other] = tags[other]
  <1>1. Screener(r) \in References /\ prior[r] \in Ids /\ tags \in [References -> Ids] /\ images \subseteq Ids
    BY ReferencesDiffer DEF HostTyped
  <1>2. CASE ~CanRestore(r)
    BY <1>1, <1>2 DEF RestoreRef
  <1>3. CASE CanRestore(r) /\ prior[r] = NoImage
    <2>1. RemoveTag(Screener(r))
      BY <1>3 DEF RestoreRef
    <2> QED  BY <1>1, <2>1, RemoveTagEffect
  <1>4. CASE CanRestore(r) /\ prior[r] # NoImage
    <2>1. Retag(Screener(r), prior[r]) /\ UNCHANGED images
      BY <1>4 DEF RestoreRef
    <2> QED  BY <1>1, <2>1 DEF Retag
  <1> QED  BY <1>2, <1>3, <1>4

-----------------------------------------------------------------------------
(* Types and frames *)

(* What a step of run r leaves as it is. *)
Leaves(r) ==
  /\ UNCHANGED fixed
  /\ \A s \in Runs : blamed[s] => blamed'[s]
  /\ \A s \in Runs \ {r} :
       /\ pc'[s] = pc[s] /\ ctx'[s] = ctx[s] /\ prior'[s] = prior[s] /\ todo'[s] = todo[s]
       /\ next'[s] = next[s] /\ verdict'[s] = verdict[s]
       /\ containers'[s] = containers[s] /\ networks'[s] = networks[s]
  /\ \A name \in References \ {Screener(r), Local(r)} : tags'[name] = tags[name]
  /\ pc[r] \notin Loading => tags'[Screener(r)] = tags[Screener(r)]
  /\ pc[r] \notin {"own", "removing"} => tags'[Local(r)] = tags[Local(r)]

(* What the outcomes of a command change, for all the steps below. *)
Outcome(r) ==
  /\ ctx' \in [Runs -> {"alive", "done"}] /\ faults' \in Nat
  /\ disturbed' \in [Runs -> BOOLEAN] /\ blamed' \in [Runs -> BOOLEAN]
  /\ \A s \in Runs : blamed[s] => blamed'[s]
  /\ \A s \in Runs \ {r} : ctx'[s] = ctx[s]

(* However a command ends, it only marks: what was blamed stays blamed. *)
LEMMA CommandOutcomes ==
  ASSUME HostTyped, NEW r \in Runs
  PROVE  /\ Calm => Outcome(r)
         /\ Works(r) => Outcome(r)
         /\ Refused(r) => Outcome(r) /\ blamed' = blamed
         /\ CutAfterwards(r) => Outcome(r) /\ blamed'[r]
         /\ Lost(r) => Outcome(r) /\ blamed'[r]
         /\ Fault /\ Disturb(r) /\ UNCHANGED <<ctx, blamed>> => Outcome(r)
  <1>1. /\ ctx \in [Runs -> {"alive", "done"}] /\ faults \in Nat
        /\ disturbed \in [Runs -> BOOLEAN] /\ blamed \in [Runs -> BOOLEAN]
    BY DEF HostTyped
  <1>2. Fault => faults' \in Nat
    BY <1>1 DEF Fault
  <1>3. Disturb(r) => disturbed' \in [Runs -> BOOLEAN]
    BY <1>1 DEF Disturb
  <1>4. Blame(r) => blamed' \in [Runs -> BOOLEAN] /\ blamed'[r] /\ \A s \in Runs : blamed[s] => blamed'[s]
    BY <1>1 DEF Blame
  <1>5. Calm => Outcome(r)
    BY <1>1 DEF Calm, Outcome
  <1>6. Fault /\ Disturb(r) /\ UNCHANGED <<ctx, blamed>> => Outcome(r)
    BY <1>1, <1>2, <1>3 DEF Outcome
  <1>7. Fault /\ Disturb(r) /\ Blame(r) =>
          (ctx' = ctx \/ ctx' = [ctx EXCEPT ![r] = "done"] => Outcome(r) /\ blamed'[r])
    BY <1>1, <1>2, <1>3, <1>4 DEF Outcome
  <1>8. Refused(r) => Outcome(r) /\ blamed' = blamed
    BY <1>5, <1>6 DEF Refused, Calm
  <1> QED  BY <1>5, <1>6, <1>7, <1>8 DEF Works, CutAfterwards, Lost

(* The types of what a step of a run may change. *)
RunTyped ==
  /\ mutex \in Runs \cup {Nobody} /\ tags \in [References -> Ids] /\ images \subseteq Ids
  /\ containers \in [Runs -> Containers] /\ networks \in [Runs -> BOOLEAN]
  /\ pc \in [Runs -> Places] /\ prior \in [Runs -> Ids]
  /\ todo \in [Runs -> Unwindings \cup Restarts \cup {<<>>}]
  /\ next \in [Runs -> {"ended", "network", "container"}]
  /\ restarted \in [Runs -> BOOLEAN] /\ verdict \in [Runs -> Outcomes]

(* What is fixed keeps the references and what each run accepts. *)
LEMMA NamesStay ==
  ASSUME UNCHANGED fixed
  PROVE  /\ References' = References
         /\ \A r \in Runs : Screener(r)' = Screener(r) /\ AcceptedIds(r)' = AcceptedIds(r)
  BY DEF fixed, References, Screener, Local, AcceptedIds

(* A step of a run is well typed when what it writes is. *)
LEMMA TypedAgain ==
  ASSUME HostTyped, UNCHANGED fixed, NEW r \in Runs, Outcome(r), RunTyped'
  PROVE  HostTyped'
  BY DEF HostTyped, fixed, Outcome, RunTyped

(* What the daemon reports after a load is an id. *)
LEMMA LoadedTyped ==
  ASSUME HostTyped, NEW r \in Runs
  PROVE  Loaded(r) \in Ids
  <1>1. PICK h \in Hosts : store = h.store
    BY DEF HostTyped
  <1>2. submission[r] \in DOMAIN Catalogue
    BY DEF HostTyped
  <1>3. Loaded(r) = LoadedId(Catalogue[submission[r]].archive, h.store)
    BY <1>1 DEF Loaded
  <1>4. Loaded(r) \in LoadedIds
    BY <1>2, <1>3 DEF LoadedIds
  <1> QED  BY <1>4 DEF Ids

(* A step of Build is well typed and leaves the other runs alone. *)
LEMMA BuildFrame ==
  ASSUME HostTyped, NEW r \in Runs, BuildStep(r)
  PROVE  HostTyped' /\ Leaves(r)
  <1>0. UNCHANGED fixed /\ Outcome(r)
    BY CommandOutcomes DEF BuildStep, Materialize, FetchImage, LockLoad, LoadImage, TagUntagged, CheckImage,
       RejectImage, OwnImage, DropRef, UndoLoad, LoadStep, Alive, Calm, Outcome, HostTyped
  <1>r. RunTyped /\ References' = References
    BY <1>0, NamesStay DEF HostTyped, RunTyped
  <1>n. /\ {Screener(r), Local(r)} \subseteq References /\ Screener(r) # Local(r)
        /\ tags[Screener(r)] \in Ids /\ NoImage \in Ids
    BY ReferencesDiffer DEF HostTyped, Ids
  <1> SUFFICES RunTyped' /\ Leaves(r)
    BY <1>0, TypedAgain
  <1>1. UNCHANGED <<todo, next, restarted, containers, networks>>
    BY DEF BuildStep, Materialize, FetchImage, LockLoad, LoadImage, TagUntagged, CheckImage, RejectImage,
       OwnImage, DropRef, UndoLoad, LoadStep, host
  <1>2. mutex' = mutex \/ mutex' = r \/ mutex' = Nobody
    BY DEF BuildStep, Materialize, FetchImage, LockLoad, LoadImage, TagUntagged, CheckImage, RejectImage,
       OwnImage, DropRef, UndoLoad, LoadStep, Unlock
  <1>3. prior' = prior \/ \E id \in Ids : prior' = [prior EXCEPT ![r] = id]
    BY <1>n DEF BuildStep, Materialize, FetchImage, LockLoad, LoadImage, TagUntagged, CheckImage, RejectImage,
       OwnImage, DropRef, UndoLoad, LoadStep, Unlock
  <1>4. verdict' = verdict \/ \E outcome \in Outcomes : verdict' = [verdict EXCEPT ![r] = outcome]
    <2>1. {"built", "build failed", "screened_image_unavailable"} \subseteq Outcomes
      BY DEF Outcomes
    <2> QED  BY <2>1 DEF BuildStep, Materialize, FetchImage, LockLoad, LoadImage, TagUntagged, CheckImage, RejectImage,
                OwnImage, DropRef, UndoLoad, LoadStep, End
  <1>5. pc' = pc \/ \E x \in Places : pc' = [pc EXCEPT ![r] = x]
    <2>1. {"fetch", "lock", "load", "tag", "check", "own", "drop ref", "undo", "built", "ended"} \subseteq Places
      BY DEF Places
    <2> QED  BY <2>1 DEF BuildStep, Materialize, FetchImage, LockLoad, LoadImage, TagUntagged, CheckImage, RejectImage,
                OwnImage, DropRef, UndoLoad, LoadStep, End, Goto
  <1>6. /\ tags' \in [References -> Ids] /\ images' \subseteq Ids
        /\ \A name \in References \ {Screener(r), Local(r)} : tags'[name] = tags[name]
        /\ pc[r] \notin Loading => tags'[Screener(r)] = tags[Screener(r)]
        /\ pc[r] \notin {"own", "removing"} => tags'[Local(r)] = tags[Local(r)]
    <2> USE <1>n, <1>r DEF RunTyped
    <2>1. CASE UNCHANGED <<tags, images>>
      BY <2>1
    <2>2. CASE LoadImage(r) /\ DockerLoad(r)
      BY <2>2, LoadedTyped DEF LoadImage, DockerLoad, Retag, Loading
    <2>3. CASE (LoadImage(r) \/ DropRef(r) \/ UndoLoad(r)) /\ RestoreRef(r)
      BY <2>3, RestoreEffect DEF LoadImage, DropRef, UndoLoad, Loading
    <2>4. CASE TagUntagged(r)
      <3>1. PICK id \in PresentIds(r) :
              LoadStep(r, "tag", "check", Retag(Screener(r), id) /\ UNCHANGED images)
        BY <2>4 DEF TagUntagged
      <3>2. id \in Ids
        BY DEF PresentIds
      <3>3. images' = images /\ (tags' = tags \/ tags' = [tags EXCEPT ![Screener(r)] = id]) /\ pc[r] = "tag"
        BY <3>1 DEF LoadStep, Retag
      <3> QED  BY <3>2, <3>3 DEF Loading
    <2>5. CASE OwnImage(r)
      BY <2>5 DEF OwnImage, LoadStep, Retag
    <2> QED  BY <2>1, <2>2, <2>3, <2>4, <2>5 DEF BuildStep, Materialize, FetchImage, LockLoad, LoadImage,
                CheckImage, RejectImage, DropRef, UndoLoad, LoadStep, host
  <1> QED  BY <1>0, <1>r, <1>n, <1>1, <1>2, <1>3, <1>4, <1>5, <1>6, SMTT(60) DEF RunTyped, Outcome, Leaves

(* The teardowns there are. *)
LEMMA UnwindingsFit ==
  /\ Append(Everything, "image") \in Unwindings /\ Append(<<>>, "image") \in Unwindings
  /\ <<"container", "network">> \in Restarts
  /\ Head(Append(Everything, "image")) = "container" /\ Head(Append(<<>>, "image")) = "image"
  /\ Head(<<"container", "network">>) = "container"
  <1>1. Append(Everything, "image") = <<"container", "network", "image", "image">>
    <2> DEFINE Things == {"container", "network", "image"}
               whole == Append(<<"container", "network", "image">>, "image")
               same == <<"container", "network", "image", "image">>
    <2>1. /\ whole \in Seq(Things) /\ Len(whole) = 4 /\ whole[1] = "container" /\ whole[2] = "network"
          /\ whole[3] = "image" /\ whole[4] = "image"
      OBVIOUS
    <2>2. /\ same \in Seq(Things) /\ Len(same) = 4 /\ same[1] = "container" /\ same[2] = "network"
          /\ same[3] = "image" /\ same[4] = "image"
      OBVIOUS
    <2> HIDE DEF Things, whole, same
    <2>3. \A i \in 1 .. 4 : whole[i] = same[i]
      BY <2>1, <2>2
    <2>4. whole = same
      BY <2>1, <2>2, <2>3, SeqEqual
    <2> QED  BY <2>4 DEF whole, same, Everything
  <1>2. Append(<<>>, "image") = <<"image">>
    OBVIOUS
  <1>3. Append(Everything, "image") \in Unwindings /\ Append(<<>>, "image") \in Unwindings
    BY <1>1, <1>2, Zenon DEF Unwindings
  <1>4. Head(Append(Everything, "image")) = "container" /\ Head(Append(<<>>, "image")) = "image"
    <2>1. Head(<<"container", "network", "image", "image">>) = "container" /\ Head(<<"image">>) = "image"
      OBVIOUS
    <2> QED  BY <1>1, <1>2, <2>1, Zenon
  <1>5. <<"container", "network">> \in Restarts /\ Head(<<"container", "network">>) = "container"
    BY DEF Restarts
  <1> QED  BY <1>3, <1>4, <1>5, Zenon

(* A removal. *)
LEMMA RemovalFrame ==
  ASSUME HostTyped, TeardownInv, NEW r \in Runs, RemoveNext(r)
  PROVE  HostTyped' /\ Leaves(r)
  <1>1. pc[r] = "removing" /\ todo[r] \in Unwindings \cup Restarts /\ Head(todo[r]) \in {"container", "network", "image"}
    BY Removals DEF RemoveNext, TeardownInv
  <1>2. /\ UNCHANGED fixed /\ todo' = [todo EXCEPT ![r] = Tail(@)]
        /\ UNCHANGED <<mutex, prior, restarted, verdict>>
        /\ \/ pc' = [pc EXCEPT ![r] = next[r]] /\ next' = [next EXCEPT ![r] = "ended"]
           \/ UNCHANGED <<pc, next>>
    BY DEF RemoveNext, Goto
  <1>3. Tail(todo[r]) \in Unwindings \cup Restarts \cup {<<>>}
    BY <1>1, Removals
  <1>n. /\ {Screener(r), Local(r)} \subseteq References /\ Screener(r) # Local(r)
        /\ RunTyped /\ References' = References
    BY ReferencesDiffer, NamesStay, <1>2 DEF HostTyped, RunTyped
  <1>c. NoContainer \in Containers
    <2>1. NoImage \in Ids
      BY DEF Ids
    <2> QED  BY <2>1 DEF NoContainer, Containers
  <1>4. Outcome(r) /\ tags' \in [References -> Ids] /\ images' \subseteq images
        /\ (\A name \in References : name # Local(r) => tags'[name] = tags[name])
        /\ containers' \in [Runs -> Containers] /\ networks' \in [Runs -> BOOLEAN]
        /\ \A s \in Runs \ {r} : containers'[s] = containers[s] /\ networks'[s] = networks[s]
    <2>1. CASE Lost(r) /\ UNCHANGED host
      BY <2>1, <1>n, CommandOutcomes DEF host, RunTyped
    <2>2. CASE RemoveThing(r, Head(todo[r])) /\ UNCHANGED <<ctx, faults>>
      <3>1. CASE Head(todo[r]) = "container"
        BY <1>n, <1>c, <2>2, <3>1 DEF RemoveThing, Outcome, HostTyped, RunTyped
      <3>2. CASE Head(todo[r]) = "network"
        BY <1>n, <2>2, <3>2 DEF RemoveThing, Outcome, HostTyped, RunTyped
      <3>3. CASE Head(todo[r]) = "image"
        <4>1. RemoveTag(Local(r)) /\ UNCHANGED <<containers, networks>>
          BY <2>2, <3>3 DEF RemoveThing
        <4>2. /\ disturbed' = [s \in Runs |-> disturbed[s] \/ s \in Bereaved(Local(r))]
              /\ blamed' = [s \in Runs |-> blamed[s] \/ s \in Bereaved(Local(r))]
          BY <2>2, <3>3 DEF RemoveThing
        <4>3. Outcome(r)
          BY <2>2, <4>2 DEF Outcome, HostTyped
        <4> QED  BY <1>n, <4>1, <4>3, RemoveTagEffect DEF RunTyped
      <3> QED  BY <1>1, <3>1, <3>2, <3>3
    <2> QED  BY <2>1, <2>2 DEF RemoveNext
  <1>5. RunTyped'
    <2>1. pc' \in [Runs -> Places] /\ next' \in [Runs -> {"ended", "network", "container"}]
      <3>1. {"ended", "network", "container"} \subseteq Places
        BY DEF Places
      <3>2. next[r] \in {"ended", "network", "container"} /\ pc \in [Runs -> Places]
            /\ next \in [Runs -> {"ended", "network", "container"}]
        BY <1>n DEF RunTyped
      <3> QED  BY <1>2, <3>1, <3>2
    <2>2. todo' \in [Runs -> Unwindings \cup Restarts \cup {<<>>}]
      BY <1>2, <1>3, <1>n DEF RunTyped
    <2> QED  BY <1>2, <1>4, <1>n, <2>1, <2>2 DEF RunTyped
  <1>6. Leaves(r)
    BY <1>1, <1>2, <1>4, <1>n DEF Leaves, Outcome, RunTyped
  <1> QED  BY <1>2, <1>4, <1>5, <1>6, TypedAgain

(* The other steps of a run after its build, and the end of its context. *)
LEMMA RunFrame ==
  ASSUME HostTyped, TeardownInv, NEW r \in Runs, RunStep(r) \/ Expire(r)
  PROVE  HostTyped' /\ Leaves(r)
  <1>1. CASE RemoveNext(r)
    BY <1>1, RemovalFrame
  <1>2. CASE ~RemoveNext(r)
    <2>a. Outcome(r)
      <3>1. Expire(r) => Outcome(r)
        BY DEF Expire, Fault, Disturb, Outcome, HostTyped
      <3>2. BeginRun(r) \/ RestartContainer(r) \/ FinishRun(r) => Outcome(r)
        BY CommandOutcomes DEF BeginRun, RestartContainer, FinishRun, Calm
      <3>3. CreateIsolatedNetwork(r) \/ StartContainer(r) \/ ReadAddress(r) => Outcome(r)
        BY CommandOutcomes DEF CreateIsolatedNetwork, StartContainer, ReadAddress
      <3> QED  BY <1>2, <3>1, <3>2, <3>3 DEF RunStep
    <2>0. UNCHANGED fixed /\ Outcome(r)
      BY <1>2, <2>a DEF RunStep, BeginRun, CreateIsolatedNetwork, StartContainer, ReadAddress,
         RestartContainer, FinishRun, Expire
    <2>r. RunTyped /\ References' = References
      BY <2>0, NamesStay DEF HostTyped, RunTyped
    <2>n. /\ {Screener(r), Local(r)} \subseteq References /\ Screener(r) # Local(r)
          /\ tags[Local(r)] \in Ids /\ FirstStep \in {"network", "container"}
      BY ReferencesDiffer DEF HostTyped, FirstStep
    <2> SUFFICES RunTyped' /\ Leaves(r)
      BY <2>0, TypedAgain
    <2>t. Unwind(r, <<>>) \/ Unwind(r, Everything) =>
            /\ pc' = [pc EXCEPT ![r] = "removing"] /\ next' = [next EXCEPT ![r] = "ended"]
            /\ \E left \in Unwindings : todo' = [todo EXCEPT ![r] = left]
      BY UnwindingsFit DEF Unwind, Teardown, Goto
    <2>1. UNCHANGED <<mutex, prior, verdict, tags, images>>
      BY <1>2 DEF RunStep, BeginRun, CreateIsolatedNetwork, StartContainer, ReadAddress, RestartContainer,
                  FinishRun, Expire, control, host
    <2>2. restarted' = restarted \/ restarted' = [restarted EXCEPT ![r] = TRUE]
      BY <1>2 DEF RunStep, BeginRun, CreateIsolatedNetwork, StartContainer, ReadAddress, RestartContainer,
                  FinishRun, Expire, control
    <2>3. containers' = containers \/ \E c \in Containers : containers' = [containers EXCEPT ![r] = c]
      <3>1. [state |-> "running", image |-> tags[Local(r)]] \in Containers
        BY <2>n DEF Containers
      <3> QED  BY <1>2, <3>1 DEF RunStep, BeginRun, CreateIsolatedNetwork, StartContainer, ReadAddress,
                             RestartContainer, FinishRun, Expire, host
    <2>4. networks' = networks \/ networks' = [networks EXCEPT ![r] = TRUE]
      BY <1>2 DEF RunStep, BeginRun, CreateIsolatedNetwork, StartContainer, ReadAddress,
                             RestartContainer, FinishRun, Expire, host
    <2>5. pc' = pc \/ \E x \in Places : pc' = [pc EXCEPT ![r] = x]
      <3>1. {"network", "container", "address", "serving", "removing"} \subseteq Places
        BY DEF Places
      <3> QED  BY <1>2, <2>n, <2>t, <3>1 DEF RunStep, BeginRun, CreateIsolatedNetwork, StartContainer, ReadAddress,
                     RestartContainer, FinishRun, Expire, Goto, Unwind, Teardown, control
    <2>6. \/ UNCHANGED <<todo, next>>
          \/ \E t \in Unwindings \cup Restarts, n \in {"ended", "network", "container"} :
               todo' = [todo EXCEPT ![r] = t] /\ next' = [next EXCEPT ![r] = n]
      <3>1. CASE RestartContainer(r)
        BY <3>1, <2>n, UnwindingsFit DEF RestartContainer, Teardown
      <3>2. CASE Unwind(r, <<>>) \/ Unwind(r, Everything)
        BY <3>2, <2>t
      <3> QED  BY <1>2, <3>1, <3>2 DEF RunStep, BeginRun, CreateIsolatedNetwork, StartContainer, ReadAddress,
                     FinishRun, Expire, control
    <2>7. RunTyped'
      <3>1. containers' \in [Runs -> Containers] /\ networks' \in [Runs -> BOOLEAN] /\ restarted' \in [Runs -> BOOLEAN]
        BY <2>r, <2>2, <2>3, <2>4 DEF RunTyped
      <3>2. pc' \in [Runs -> Places]
        BY <2>r, <2>5 DEF RunTyped
      <3>3. todo' \in [Runs -> Unwindings \cup Restarts \cup {<<>>}] /\ next' \in [Runs -> {"ended", "network", "container"}]
        BY <2>r, <2>6 DEF RunTyped
      <3> QED  BY <2>r, <2>1, <3>1, <3>2, <3>3 DEF RunTyped
    <2>8. \A s \in Runs \ {r} :
            /\ pc'[s] = pc[s] /\ prior'[s] = prior[s] /\ todo'[s] = todo[s]
            /\ next'[s] = next[s] /\ verdict'[s] = verdict[s]
            /\ containers'[s] = containers[s] /\ networks'[s] = networks[s]
      BY <2>r, <2>1, <2>3, <2>4, <2>5, <2>6 DEF RunTyped
    <2>9. tags' = tags
      BY <2>1
    <2> QED  BY <2>0, <2>7, <2>8, <2>9 DEF Outcome, Leaves
  <1> QED  BY <1>1, <1>2

(* Where a run goes from and to. *)
Building == {"queued", "fetch", "lock"} \cup Loading
Running == {"built", "network", "container", "address", "serving", "removing"}

(* Where a step of Build leads. *)
LEMMA BuildMoves ==
  ASSUME HostTyped, NEW r \in Runs, BuildStep(r)
  PROVE  /\ pc[r] \in Building /\ pc'[r] \in Building \cup {"built", "ended"}
         /\ pc[r] = "queued" => process = "up"
  <1> USE DEF HostTyped, Goto, End, Building, Loading, LoadStep
  <1>1. CASE Materialize(r) \/ FetchImage(r) \/ LockLoad(r)
    BY <1>1 DEF Materialize, FetchImage, LockLoad
  <1>2. CASE LoadImage(r) \/ DropRef(r) \/ UndoLoad(r)
    BY <1>2, ZenonT(60) DEF LoadImage, DropRef, UndoLoad
  <1>3. CASE TagUntagged(r)
    BY <1>3 DEF TagUntagged
  <1>4. CASE CheckImage(r) \/ RejectImage(r) \/ OwnImage(r)
    BY <1>4 DEF CheckImage, RejectImage, OwnImage
  <1> QED  BY <1>1, <1>2, <1>3, <1>4 DEF BuildStep

(* Where a step of Run and of the teardown leads. *)
LEMMA RunMoves ==
  ASSUME HostTyped, NEW r \in Runs, RunStep(r)
  PROVE  pc[r] \in Running /\ pc'[r] \in Running \cup {"ended"}
  <1> USE DEF HostTyped, Goto, Running, Unwind, Teardown
  <1>1. CASE BeginRun(r) \/ CreateIsolatedNetwork(r)
    BY <1>1 DEF BeginRun, CreateIsolatedNetwork, FirstStep
  <1>2. CASE StartContainer(r) \/ ReadAddress(r) \/ RestartContainer(r) \/ FinishRun(r)
    BY <1>2 DEF StartContainer, ReadAddress, RestartContainer, FinishRun
  <1>3. CASE RemoveNext(r)
    BY <1>3 DEF RemoveNext
  <1> QED  BY <1>1, <1>2, <1>3 DEF RunStep

(* Where nothing of a step of run r but its place matters. *)
LEMMA RunSteps ==
  ASSUME HostTyped, TeardownInv, StartInv, NEW r \in Runs, BuildStep(r) \/ RunStep(r) \/ Expire(r)
  PROVE  /\ HostTyped' /\ Leaves(r) /\ process = "up"
         /\ pc'[r] \in Building \cup Running \cup {"ended"}
  <1>1. HostTyped' /\ Leaves(r)
    BY BuildFrame, RunFrame
  <1>2. Expire(r) => pc[r] \notin {"queued", "ended", "lost"} /\ pc' = pc
    BY DEF Expire, control
  <1>3. pc[r] \in Places
    BY DEF HostTyped
  <1>4. Places = Building \cup Running \cup {"ended", "lost"}
    BY DEF Places, Building, Running, Loading
  <1>5. pc'[r] \in Building \cup Running \cup {"ended"}
    BY <1>2, <1>3, <1>4, BuildMoves, RunMoves DEF Building, Running
  <1>6. pc[r] \notin {"queued", "ended", "lost"} \/ process = "up"
    BY <1>2, BuildMoves, RunMoves DEF Building, Running, Loading
  <1>7. process = "up"
    BY <1>6 DEF StartInv
  <1> QED  BY <1>1, <1>5, <1>7

(* The kinds of step there are. *)
LEMMA Kinds ==
  ASSUME [Next]_vars
  PROVE  \/ \E r \in Runs : BuildStep(r) \/ RunStep(r) \/ Expire(r)
         \/ Crash \/ CleanupStale \/ UNCHANGED vars
  BY DEF Next, Finished

(* A crash keeps the types. *)
LEMMA CrashTyped ==
  ASSUME HostTyped, Crash
  PROVE  HostTyped' /\ References' = References
  <1>1. References' = References
    BY DEF Crash, References, Screener, Local
  <1>2. PICK exited \in SUBSET RunningContainers :
          containers' = [r \in Runs |-> IF r \in exited THEN [containers[r] EXCEPT !.state = "exited"]
                                        ELSE containers[r]]
    BY DEF Crash
  <1>3. containers' \in [Runs -> Containers]
    <2>1. ASSUME NEW r \in Runs
          PROVE  containers[r] \in Containers /\ [containers[r] EXCEPT !.state = "exited"] \in Containers
      BY SMTT(60) DEF HostTyped, Containers
    <2> QED  BY <1>2, <2>1
  <1>4. NoImage \in Ids /\ <<>> \in Unwindings \cup Restarts \cup {<<>>} /\ "lost" \in Places
    BY DEF Ids, Places
  <1>5. pc' \in [Runs -> Places]
    BY <1>4 DEF Crash, HostTyped
  <1>6. prior' \in [Runs -> Ids] /\ todo' \in [Runs -> Unwindings \cup Restarts \cup {<<>>}]
    BY <1>4 DEF Crash
  <1>7. /\ restarted' \in [Runs -> BOOLEAN] /\ ctx' \in [Runs -> {"alive", "done"}]
        /\ next' \in [Runs -> {"ended", "network", "container"}]
    BY DEF Crash
  <1>8. process' = "containers" /\ cleaned' = FALSE /\ mutex' = Nobody
    BY DEF Crash
  <1>c. crashes' \in Nat
    BY DEF Crash, HostTyped
  <1>9. UNCHANGED <<store, operator, submission, judged, verdict, tags, images, networks, faults, disturbed, blamed>>
    BY DEF Crash
  <1> QED  BY <1>1, <1>3, <1>5, <1>6, <1>7, <1>8, <1>c, <1>9 DEF HostTyped

(* The start-up cleanup keeps the types. *)
LEMMA CleanupTyped ==
  ASSUME HostTyped, CleanupStale
  PROVE  HostTyped' /\ References' = References
  <1>1. References' = References
    BY DEF CleanupStale, References, Screener, Local
  <1>2. NoContainer \in Containers
    <2>1. NoImage \in Ids
      BY DEF Ids
    <2> QED  BY <2>1 DEF NoContainer, Containers
  <1>3. containers' \in [Runs -> Containers] /\ networks' \in [Runs -> BOOLEAN]
    BY <1>2 DEF CleanupStale, HostTyped
  <1>4. faults' \in Nat
    BY DEF CleanupStale, HostTyped, Fault
  <1>5. process' \in {"up", "containers", "networks"} /\ cleaned' \in BOOLEAN
    BY DEF CleanupStale, HostTyped
  <1> QED  BY <1>1, <1>3, <1>4, <1>5 DEF CleanupStale, HostTyped, control

(* A step that changes nothing keeps the types. *)
LEMMA StutterTyped ==
  ASSUME HostTyped, UNCHANGED vars
  PROVE  HostTyped' /\ References' = References
  BY DEF HostTyped, vars, fixed, control, host, References, Screener, Local

(* Every step keeps the types. *)
LEMMA TypeStep ==
  ASSUME HostTyped, TeardownInv, [Next]_vars
  PROVE  HostTyped'
  BY Kinds, BuildFrame, RunFrame, CrashTyped, CleanupTyped, StutterTyped

-----------------------------------------------------------------------------
(* The lock, the teardown, the start-up *)

(* The lock that is free is not with a run. *)
LEMMA NobodyIsNoRun == Nobody \notin Runs
  BY SandboxHostAssumption DEF Nobody

(* Every step keeps the lock with the run that is inside. *)
LEMMA MutexStep ==
  ASSUME HostTyped, TeardownInv, StartInv, MutexInv, [Next]_vars
  PROVE  MutexInv'
  <1>1. ASSUME NEW r \in Runs, BuildStep(r)
        PROVE  /\ pc'[r] \in Loading <=> mutex' = r
               /\ mutex' = mutex \/ (mutex' = r /\ mutex = Nobody) \/ (mutex' = Nobody /\ mutex = r)
    <2> USE NobodyIsNoRun DEF HostTyped, MutexInv, Loading, Goto, End, Unlock
    <2>1. CASE Materialize(r) \/ FetchImage(r) \/ LockLoad(r)
      BY <2>1, ZenonT(60) DEF Materialize, FetchImage, LockLoad, LoadIsFree
    <2>2. CASE LoadImage(r)
      BY <2>2, ZenonT(60) DEF LoadImage
    <2>3. CASE TagUntagged(r) \/ CheckImage(r) \/ OwnImage(r)
      BY <2>3, ZenonT(60) DEF TagUntagged, CheckImage, OwnImage, LoadStep
    <2>4. CASE RejectImage(r)
      BY <2>4, ZenonT(60) DEF RejectImage
    <2>5. CASE DropRef(r)
      BY <2>5, ZenonT(120) DEF DropRef
    <2>6. CASE UndoLoad(r)
      BY <2>6 DEF UndoLoad
    <2> QED  BY <1>1, <2>1, <2>2, <2>3, <2>4, <2>5, <2>6 DEF BuildStep
  <1>2. ASSUME NEW r \in Runs, RunStep(r) \/ Expire(r)
        PROVE  mutex' = mutex /\ (pc'[r] \in Loading <=> pc[r] \in Loading)
    <2>1. mutex' = mutex
      BY <1>2 DEF RunStep, BeginRun, CreateIsolatedNetwork, StartContainer, ReadAddress, RestartContainer,
                  FinishRun, RemoveNext, Expire, control
    <2>2. CASE RunStep(r)
      BY <2>1, <2>2, RunMoves DEF Running, Loading
    <2>3. CASE Expire(r)
      BY <2>1, <2>3 DEF Expire, control
    <2> QED  BY <1>2, <2>2, <2>3
  <1>3. ASSUME NEW r \in Runs, BuildStep(r) \/ RunStep(r) \/ Expire(r)
        PROVE  MutexInv'
    <2>1. \A s \in Runs \ {r} : pc'[s] = pc[s]
      BY <1>3, RunSteps DEF Leaves
    <2> QED  BY <1>1, <1>2, <1>3, <2>1, NobodyIsNoRun DEF MutexInv
  <1>4. CASE Crash
    BY <1>4, NobodyIsNoRun DEF Crash, MutexInv, Loading
  <1>5. CASE CleanupStale \/ UNCHANGED vars
    BY <1>5 DEF CleanupStale, control, vars, MutexInv
  <1> QED  BY <1>3, <1>4, <1>5, Kinds

(* A teardown that begins, at the unwinding or the restart. *)
LEMMA Begun ==
  ASSUME HostTyped, NEW r \in Runs
  PROVE  /\ Unwind(r, <<>>) \/ Unwind(r, Everything) =>
              pc'[r] = "removing" /\ next'[r] = "ended" /\ todo'[r] \in Unwindings
         /\ Unwind(r, Everything) => Head(todo'[r]) = "container"
         /\ RestartContainer(r) =>
              pc'[r] = "removing" /\ next'[r] = FirstStep /\ todo'[r] \in Restarts /\ Head(todo'[r]) = "container"
  BY UnwindingsFit, ZenonT(60) DEF HostTyped, Unwind, RestartContainer, Teardown, Goto

(* Every step keeps what a teardown has to do. *)
LEMMA TeardownStep ==
  ASSUME HostTyped, TeardownInv, StartInv, [Next]_vars
  PROVE  TeardownInv'
  <1>1. ASSUME NEW r \in Runs, BuildStep(r) \/ RunStep(r) \/ Expire(r)
        PROVE  TeardownInv'
    <2>1. \A s \in Runs \ {r} : pc'[s] = pc[s] /\ todo'[s] = todo[s] /\ next'[s] = next[s]
      BY <1>1, RunSteps DEF Leaves
    <2> SUFFICES ASSUME pc'[r] = "removing"
                 PROVE  (next'[r] = "ended" /\ todo'[r] \in Unwindings)
                        \/ (next'[r] = FirstStep /\ todo'[r] \in Restarts)
      BY <2>1 DEF TeardownInv, FirstStep
    <2>2. ~BuildStep(r)
      BY BuildMoves DEF Building, Loading
    <2>3. CASE Expire(r)
      BY <2>3 DEF Expire, control, TeardownInv
    <2>4. CASE RemoveNext(r)
      <3>1. pc[r] = "removing" /\ todo' = [todo EXCEPT ![r] = Tail(@)] /\ todo[r] \in Unwindings \cup Restarts
        BY <2>4 DEF RemoveNext, TeardownInv
      <3>2. Len(todo[r]) # 1
        <4>1. next[r] # "removing"
          BY DEF HostTyped
        <4> QED  BY <2>4, <4>1 DEF RemoveNext, Goto, HostTyped
      <3>3. next' = next
        BY <2>4, <3>2 DEF RemoveNext
      <3>4. todo'[r] = Tail(todo[r])
        BY <3>1 DEF HostTyped
      <3> QED  BY <3>1, <3>2, <3>3, <3>4, Removals DEF TeardownInv
    <2>5. CASE RestartContainer(r) \/ Unwind(r, <<>>) \/ Unwind(r, Everything)
      BY <2>5, Begun
    <2>6. CASE RunStep(r) /\ ~RemoveNext(r) /\ ~RestartContainer(r) /\ ~Unwind(r, <<>>) /\ ~Unwind(r, Everything)
      BY <2>6 DEF RunStep, BeginRun, CreateIsolatedNetwork, StartContainer, ReadAddress, FinishRun, Goto, FirstStep,
                  HostTyped
    <2> QED  BY <1>1, <2>2, <2>3, <2>4, <2>5, <2>6
  <1>2. CASE Crash
    BY <1>2 DEF Crash, TeardownInv
  <1>3. CASE CleanupStale \/ UNCHANGED vars
    BY <1>3 DEF CleanupStale, control, vars, TeardownInv, FirstStep
  <1> QED  BY <1>1, <1>2, <1>3, Kinds

(* Every step keeps the order of the start-up. *)
LEMMA StartStep ==
  ASSUME HostTyped, TeardownInv, StartInv, [Next]_vars
  PROVE  StartInv'
  <1>1. ASSUME NEW r \in Runs, BuildStep(r) \/ RunStep(r) \/ Expire(r)
        PROVE  StartInv'
    <2>1. Leaves(r) /\ process = "up" /\ pc'[r] # "lost"
      BY <1>1, RunSteps DEF Building, Running, Loading
    <2>2. process' = process /\ cleaned' = cleaned
      BY <2>1 DEF Leaves, fixed
    <2>3. \A s \in Runs : pc'[s] = "lost" =>
             pc[s] = "lost" /\ containers'[s] = containers[s] /\ networks'[s] = networks[s]
      BY <2>1 DEF Leaves
    <2> QED  BY <2>1, <2>2, <2>3 DEF StartInv, RestartCleans
  <1>2. CASE Crash
    BY <1>2 DEF Crash, StartInv, RestartCleans
  <1>3. CASE CleanupStale
    <2>1. pc' = pc
      BY <1>3 DEF CleanupStale, control
    <2>2. CASE process = "containers" /\ process' = "networks" /\ UNCHANGED <<faults, networks, cleaned>>
               /\ containers' = [r \in Runs |-> IF r \in LabelledContainers THEN NoContainer ELSE containers[r]]
      BY <2>1, <2>2 DEF StartInv, RestartCleans, LabelledContainers
    <2>3. CASE process = "networks" /\ process' = "up" /\ cleaned' = TRUE
               /\ networks' = [r \in Runs |-> networks[r] /\ containers[r] # NoContainer]
               /\ UNCHANGED <<faults, containers>>
      BY <2>1, <2>3 DEF StartInv, RestartCleans
    <2>4. CASE process \in {"containers", "networks"} /\ process' = (IF AllowScreenedImages THEN "containers" ELSE "up")
               /\ UNCHANGED <<containers, networks, cleaned>>
      BY <2>1, <2>4 DEF StartInv, RestartCleans
    <2> QED  BY <1>3, <2>2, <2>3, <2>4 DEF CleanupStale
  <1>4. CASE UNCHANGED vars
    BY <1>4 DEF vars, fixed, control, host, StartInv, RestartCleans
  <1> QED  BY <1>1, <1>2, <1>3, <1>4, Kinds

-----------------------------------------------------------------------------
(* The image of a run *)

(* One removal of a teardown. *)
LEMMA RemovalStep ==
  ASSUME HostTyped, TeardownInv, NEW r \in Runs, RemoveNext(r)
  PROVE  /\ pc[r] = "removing"
         /\ (next[r] = "ended" /\ todo[r] \in Unwindings) \/ (next[r] # "ended" /\ todo[r] \in Restarts)
         /\ \/ Len(todo[r]) # 1 /\ pc'[r] = "removing" /\ next'[r] = next[r]
            \/ Len(todo[r]) = 1 /\ pc'[r] = next[r] /\ next'[r] = "ended"
         /\ todo'[r] = Tail(todo[r]) /\ verdict' = verdict
         /\ (Lost(r) /\ UNCHANGED host) \/ RemoveThing(r, Head(todo[r]))
         /\ Head(todo[r]) # "image" => tags' = tags /\ images' = images
         /\ containers'[r] \in {containers[r], NoContainer}
  <1>1. pc[r] = "removing" /\ todo' = [todo EXCEPT ![r] = Tail(@)] /\ verdict' = verdict
    BY DEF RemoveNext
  <1>2. (next[r] = "ended" /\ todo[r] \in Unwindings) \/ (next[r] # "ended" /\ todo[r] \in Restarts)
    BY <1>1 DEF TeardownInv, FirstStep
  <1>3. \/ Len(todo[r]) # 1 /\ pc'[r] = "removing" /\ next'[r] = next[r]
        \/ Len(todo[r]) = 1 /\ pc'[r] = next[r] /\ next'[r] = "ended"
    BY <1>1 DEF RemoveNext, Goto, HostTyped
  <1>4. (Lost(r) /\ UNCHANGED host) \/ RemoveThing(r, Head(todo[r]))
    BY DEF RemoveNext
  <1>5. Head(todo[r]) \in {"container", "network", "image"}
    BY <1>2, Removals
  <1>6. Head(todo[r]) # "image" => tags' = tags /\ images' = images
    BY <1>4, <1>5 DEF RemoveThing, host
  <1>7. containers'[r] \in {containers[r], NoContainer}
    BY <1>4, <1>5 DEF RemoveThing, host, HostTyped
  <1> QED  BY <1>1, <1>2, <1>3, <1>4, <1>6, <1>7 DEF HostTyped

(* The references of the other runs. *)
LEMMA OtherNames ==
  ASSUME HostTyped, TeardownInv, StartInv, MutexInv, NEW r \in Runs, BuildStep(r) \/ RunStep(r) \/ Expire(r),
         NEW s \in Runs \ {r}
  PROVE  /\ tags'[Local(s)] = tags[Local(s)]
         /\ pc[s] \in Loading => tags'[Screener(s)] = tags[Screener(s)]
  <1>1. Leaves(r)
    BY RunSteps
  <1>2. Local(s) # Local(r) /\ Local(s) # Screener(r) /\ Local(s) \in References
        /\ Screener(s) \in References /\ Screener(s) # Local(r)
    BY ReferencesDiffer
  <1>3. pc[s] \in Loading => pc[r] \notin Loading
    BY DEF MutexInv
  <1> QED  BY <1>1, <1>2, <1>3 DEF Leaves

(* A build moves on with the image it has just found accepted. *)
LEMMA BuildImage ==
  ASSUME HostTyped, ImageInv, NEW r \in Runs, BuildStep(r)
  PROVE  /\ pc'[r] = "own" => tags'[Screener(r)] \in AcceptedIds(r)
         /\ pc'[r] \in {"drop ref", "built"} => tags'[Local(r)] \in AcceptedIds(r)
         /\ containers' = containers
  <1>0. {Screener(r), Local(r)} \subseteq References /\ pc \in [Runs -> Places] /\ tags \in [References -> Ids]
    BY ReferencesDiffer DEF HostTyped
  <1>m. Leaves(r)
    BY BuildFrame
  <1> USE <1>0 DEF Goto, End, LoadStep
  <1>1. CASE CheckImage(r)
    BY <1>1 DEF CheckImage
  <1>2. CASE OwnImage(r)
    BY <1>2 DEF OwnImage, Retag, ImageInv
  <1>3. CASE DropRef(r)
    BY <1>3, <1>m DEF DropRef, Leaves, ImageInv, Keeps
  <1>4. CASE Materialize(r) \/ FetchImage(r) \/ LockLoad(r)
    BY <1>4 DEF Materialize, FetchImage, LockLoad, host
  <1>5. CASE LoadImage(r) \/ TagUntagged(r)
    BY <1>5 DEF LoadImage, TagUntagged
  <1>6. CASE RejectImage(r) \/ UndoLoad(r)
    BY <1>6 DEF RejectImage, UndoLoad, host
  <1> QED  BY <1>1, <1>2, <1>3, <1>4, <1>5, <1>6 DEF BuildStep

(* So does a run, until its teardown ends it. *)
LEMMA RunImage ==
  ASSUME HostTyped, TeardownInv, ImageInv, NEW r \in Runs, RunStep(r)
  PROVE  /\ Keeps(r)' => tags'[Local(r)] \in AcceptedIds(r)
         /\ containers'[r] # NoContainer => containers'[r].image \in AcceptedIds(r)
  <1>0. pc[r] \in Running /\ pc'[r] \in Running \cup {"ended"} /\ Leaves(r)
    BY RunMoves, RunFrame
  <1>1. CASE RemoveNext(r)
    <2>1. pc[r] = "removing" /\ containers'[r] \in {containers[r], NoContainer}
      BY <1>1, RemovalStep
    <2>2. Keeps(r)' => Keeps(r) /\ todo[r] \in Restarts
      BY <1>1, RemovalStep DEF Keeps, Owning
    <2>3. todo[r] \in Restarts => tags' = tags
      BY <1>1, RemovalStep, Removals
    <2> QED  BY <2>1, <2>2, <2>3 DEF ImageInv
  <1>2. CASE ~RemoveNext(r)
    <2>1. tags' = tags
      BY <1>2 DEF RunStep, BeginRun, CreateIsolatedNetwork, StartContainer, ReadAddress, RestartContainer, FinishRun, host
    <2>2. pc[r] # "removing"
      BY <1>2 DEF RunStep, BeginRun, CreateIsolatedNetwork, StartContainer, ReadAddress, RestartContainer, FinishRun
    <2>3. Keeps(r)
      BY <1>0, <2>2 DEF Running, Keeps, Owning
    <2>4. containers' = containers
          \/ containers' = [containers EXCEPT ![r] = [state |-> "running", image |-> tags[Local(r)]]]
      BY <1>2 DEF RunStep, BeginRun, CreateIsolatedNetwork, StartContainer, ReadAddress, RestartContainer, FinishRun, host
    <2>5. containers'[r] = containers[r] \/ containers'[r].image = tags[Local(r)]
      BY <2>4 DEF HostTyped
    <2> QED  BY <2>1, <2>3, <2>5 DEF ImageInv
  <1> QED  BY <1>1, <1>2

(* Every step keeps the image of a run among those accepted for it. *)
LEMMA ImageStep ==
  ASSUME HostTyped, TeardownInv, StartInv, MutexInv, ImageInv, [Next]_vars
  PROVE  ImageInv'
  <1>1. ASSUME NEW r \in Runs, BuildStep(r) \/ RunStep(r) \/ Expire(r)
        PROVE  ImageInv'
    <2>1. Leaves(r)
      BY <1>1, RunSteps
    <2>2. \A s \in Runs : Screener(s)' = Screener(s) /\ AcceptedIds(s)' = AcceptedIds(s)
      BY <2>1, NamesStay DEF Leaves
    <2>3. ASSUME NEW s \in Runs \ {r}
          PROVE  /\ pc'[s] = "own" => tags'[Screener(s)] \in AcceptedIds(s)
                 /\ Keeps(s)' => tags'[Local(s)] \in AcceptedIds(s)
                 /\ containers'[s] # NoContainer => containers'[s].image \in AcceptedIds(s)
      <3>1. pc'[s] = pc[s] /\ next'[s] = next[s] /\ containers'[s] = containers[s]
        BY <2>1 DEF Leaves
      <3> QED  BY <1>1, <3>1, OtherNames DEF ImageInv, Keeps, Loading
    <2>4. /\ pc'[r] = "own" => tags'[Screener(r)] \in AcceptedIds(r)
          /\ Keeps(r)' => tags'[Local(r)] \in AcceptedIds(r)
          /\ containers'[r] # NoContainer => containers'[r].image \in AcceptedIds(r)
      <3>1. CASE BuildStep(r)
        <4>1. Keeps(r)' => pc'[r] \in {"drop ref", "built"}
          BY <3>1, BuildMoves DEF Building, Loading, Keeps, Owning
        <4> QED  BY <3>1, <4>1, BuildImage DEF ImageInv
      <3>2. CASE RunStep(r)
        <4>1. pc'[r] # "own"
          BY <3>2, RunMoves DEF Running
        <4> QED  BY <3>2, <4>1, RunImage
      <3>3. CASE Expire(r)
        BY <3>3 DEF Expire, control, host, ImageInv, Keeps
      <3> QED  BY <1>1, <3>1, <3>2, <3>3
    <2> QED  BY <2>2, <2>3, <2>4 DEF ImageInv, Local
  <1>2. CASE Crash
    <2>1. \A r \in Runs : pc'[r] \in {"queued", "ended", "lost"}
      BY <1>2 DEF Crash
    <2>2. \A r \in Runs : containers'[r] # NoContainer =>
             containers[r] # NoContainer /\ containers'[r].image = containers[r].image
      <3>1. PICK exited \in SUBSET RunningContainers :
              containers' = [r \in Runs |-> IF r \in exited THEN [containers[r] EXCEPT !.state = "exited"]
                                            ELSE containers[r]]
        BY <1>2 DEF Crash
      <3>2. \A r \in exited : containers[r] # NoContainer
        BY DEF RunningContainers, NoContainer
      <3>3. \A r \in Runs : [containers[r] EXCEPT !.state = "exited"].image = containers[r].image
        BY DEF HostTyped, Containers
      <3> QED  BY <3>1, <3>2, <3>3
    <2>3. \A r \in Runs : AcceptedIds(r)' = AcceptedIds(r)
      BY <1>2 DEF Crash, AcceptedIds
    <2> QED  BY <2>1, <2>2, <2>3 DEF ImageInv, Keeps, Owning
  <1>3. CASE CleanupStale
    <2>1. UNCHANGED <<pc, next, tags, submission, judged>>
      BY <1>3 DEF CleanupStale, control
    <2>2. \A r \in Runs : containers'[r] \in {containers[r], NoContainer}
      BY <1>3 DEF CleanupStale
    <2> QED  BY <2>1, <2>2 DEF ImageInv, Keeps, AcceptedIds, Screener, Local
  <1>4. CASE UNCHANGED vars
    BY <1>4 DEF vars, fixed, control, host, ImageInv, Keeps, AcceptedIds, Screener, Local
  <1> QED  BY <1>1, <1>2, <1>3, <1>4, Kinds

-----------------------------------------------------------------------------
(* What a run holds *)

(* The part of HoldInv about one run. *)
Holds(r) ==
  /\ containers[r] # NoContainer =>
       pc[r] \in {"address", "serving", "lost"} \/ (pc[r] = "removing" /\ Head(todo[r]) = "container")
  /\ networks[r] =>
       \/ pc[r] \in {"container", "address", "serving", "lost"}
       \/ pc[r] = "removing" /\ Head(todo[r]) \in {"container", "network"}

(* A removal leaves the container and the network to what is to come. *)
LEMMA RemovalHolds ==
  ASSUME HostTyped, TeardownInv, NEW r \in Runs, RemoveNext(r), Holds(r), ~blamed'[r]
  PROVE  Holds(r)'
  <1>1. RemoveThing(r, Head(todo[r]))
    BY RemovalStep, CommandOutcomes
  <1>2. /\ pc[r] = "removing" /\ todo[r] \in Unwindings \cup Restarts /\ todo'[r] = Tail(todo[r])
        /\ Len(todo[r]) # 1 => pc'[r] = "removing"
    BY RemovalStep
  <1>3. CASE Head(todo[r]) = "container"
    <2>1. containers'[r] = NoContainer /\ networks'[r] = networks[r]
      BY <1>1, <1>3 DEF RemoveThing, HostTyped
    <2>2. pc'[r] = "removing" /\ Head(todo'[r]) = "network"
      BY <1>2, <1>3, Removals
    <2> QED  BY <2>1, <2>2 DEF Holds
  <1>4. CASE Head(todo[r]) = "network"
    <2>1. containers[r] = NoContainer
      BY <1>2, <1>4 DEF Holds
    <2>2. containers'[r] = NoContainer /\ ~networks'[r]
      BY <1>1, <1>4, <2>1 DEF RemoveThing, HostTyped
    <2> QED  BY <2>2 DEF Holds
  <1>5. CASE Head(todo[r]) = "image"
    <2>1. containers[r] = NoContainer /\ ~networks[r]
      BY <1>2, <1>5 DEF Holds
    <2>2. containers'[r] = NoContainer /\ ~networks'[r]
      BY <1>1, <1>5, <2>1 DEF RemoveThing
    <2> QED  BY <2>2 DEF Holds
  <1> QED  BY <1>2, <1>3, <1>4, <1>5, Removals

(* A step of a run holds nothing whose removal is not to come. *)
LEMMA RunHolds ==
  ASSUME HostTyped, TeardownInv, NEW r \in Runs, RunStep(r), Holds(r), ~blamed'[r]
  PROVE  Holds(r)'
  <1>b. /\ Unwind(r, Everything) => pc'[r] = "removing" /\ Head(todo'[r]) = "container"
        /\ Unwind(r, <<>>) => pc'[r] = "removing"
    BY Begun
  <1>c. ~CutAfterwards(r)
    BY CommandOutcomes
  <1>1. CASE BeginRun(r)
    BY <1>1 DEF BeginRun, Holds, host
  <1>2. CASE CreateIsolatedNetwork(r)
    <2>1. containers[r] = NoContainer /\ ~networks[r] /\ containers' = containers
      BY <1>2 DEF CreateIsolatedNetwork, Holds
    <2>2. networks' = networks \/ pc'[r] = "container"
      BY <1>2, <1>c DEF CreateIsolatedNetwork, Goto, HostTyped
    <2> QED  BY <2>1, <2>2 DEF Holds
  <1>3. CASE StartContainer(r)
    <2>1. containers[r] = NoContainer /\ networks' = networks
      BY <1>3 DEF StartContainer, Holds
    <2>2. \/ pc'[r] = "address"
          \/ containers' = containers /\ pc'[r] = "removing" /\ Head(todo'[r]) = "container"
      BY <1>3, <1>b, <1>c DEF StartContainer, Goto, HostTyped
    <2> QED  BY <2>1, <2>2 DEF Holds
  <1>4. CASE ReadAddress(r)
    <2>1. pc'[r] = "serving" \/ (pc'[r] = "removing" /\ Head(todo'[r]) = "container")
      BY <1>4, <1>b DEF ReadAddress, Goto, HostTyped
    <2> QED  BY <1>4, <2>1 DEF ReadAddress, Holds
  <1>5. CASE RestartContainer(r) \/ FinishRun(r)
    <2>1. pc'[r] = "removing" /\ Head(todo'[r]) = "container"
      BY <1>5, <1>b, Begun DEF FinishRun
    <2> QED  BY <2>1 DEF Holds
  <1>6. CASE RemoveNext(r)
    BY <1>6, RemovalHolds
  <1> QED  BY <1>1, <1>2, <1>3, <1>4, <1>5, <1>6 DEF RunStep

(* No step lets a run hold what it does not remove. *)
LEMMA HoldStep ==
  ASSUME HostTyped, TeardownInv, StartInv, HoldInv, [Next]_vars
  PROVE  HoldInv'
  <1>0. HoldInv <=> \A r \in Runs : ~blamed[r] => Holds(r)
    BY DEF HoldInv, Holds
  <1>p. HoldInv' <=> \A r \in Runs : ~blamed'[r] => Holds(r)'
    BY DEF HoldInv, Holds
  <1>1. ASSUME NEW r \in Runs, BuildStep(r) \/ RunStep(r) \/ Expire(r)
        PROVE  HoldInv'
    <2>1. Leaves(r)
      BY <1>1, RunSteps
    <2>2. \A s \in Runs \ {r} : Holds(s) => Holds(s)'
      BY <2>1 DEF Leaves, Holds
    <2>3. \A s \in Runs : ~blamed'[s] => Holds(s)
      BY <1>0, <2>1 DEF Leaves
    <2>4. ~blamed'[r] => Holds(r)'
      <3>1. CASE BuildStep(r)
        <4>1. pc[r] \in Building
          BY <3>1, BuildMoves
        <4>2. UNCHANGED <<containers, networks>>
          BY <3>1 DEF BuildStep, Materialize, FetchImage, LockLoad, LoadImage, TagUntagged, CheckImage, RejectImage,
                      OwnImage, DropRef, UndoLoad, LoadStep, host
        <4> QED  BY <2>3, <4>1, <4>2 DEF Holds, Building, Loading
      <3>2. CASE RunStep(r)
        BY <2>3, <3>2, RunHolds
      <3>3. CASE Expire(r)
        BY <2>3, <3>3 DEF Expire, control, host, Holds
      <3> QED  BY <1>1, <3>1, <3>2, <3>3
    <2> QED  BY <1>p, <2>2, <2>3, <2>4
  <1>2. CASE Crash
    <2>1. \A r \in Runs : containers'[r] # NoContainer => containers[r] # NoContainer
      <3>1. PICK exited \in SUBSET RunningContainers :
              containers' = [r \in Runs |-> IF r \in exited THEN [containers[r] EXCEPT !.state = "exited"]
                                            ELSE containers[r]]
        BY <1>2 DEF Crash
      <3>2. \A r \in exited : containers[r] # NoContainer
        BY DEF RunningContainers, NoContainer
      <3> QED  BY <3>1, <3>2
    <2>2. \A r \in Runs : pc[r] \in {"queued", "ended"} \/ pc'[r] = "lost"
      BY <1>2 DEF Crash
    <2>3. networks' = networks /\ blamed' = blamed
      BY <1>2 DEF Crash
    <2> QED  BY <1>0, <1>p, <2>1, <2>2, <2>3 DEF Holds
  <1>3. CASE CleanupStale
    <2>1. UNCHANGED <<pc, todo, blamed>>
      BY <1>3 DEF CleanupStale, control
    <2>2. \A r \in Runs : containers'[r] \in {containers[r], NoContainer} /\ (networks'[r] => networks[r])
      BY <1>3 DEF CleanupStale
    <2> QED  BY <1>0, <1>p, <2>1, <2>2 DEF Holds
  <1>4. CASE UNCHANGED vars
    BY <1>4 DEF vars, control, host, HoldInv
  <1> QED  BY <1>1, <1>2, <1>3, <1>4, Kinds

-----------------------------------------------------------------------------
(* The references of the runs *)

(* In a clean state an image with a container has the reference of that    *)
(* container's run.                                                        *)
LEMMA UseIsNamed ==
  ASSUME HostTyped, NameInv, Clean, NEW id, id # NoImage, InUse(id)
  PROVE  \E s \in Runs : containers[s] # NoContainer /\ tags[Local(s)] = id /\ Local(s) \in References
  <1>1. PICK s \in Runs : containers[s].image = id
    BY DEF InUse
  <1>2. containers[s] # NoContainer
    BY <1>1 DEF NoContainer
  <1> QED  BY <1>1, <1>2, ReferencesDiffer DEF NameInv

(* The last removal of a clean run takes its reference away: nobody else   *)
(* can be using the image without a reference of his own.                  *)
LEMMA ImageGoes ==
  ASSUME HostTyped, NameInv, Clean, NEW r \in Runs, containers[r] = NoContainer, RemoveTag(Local(r))
  PROVE  tags'[Local(r)] = NoImage
  <1>1. Local(r) \in References /\ tags \in [References -> Ids] /\ images \subseteq Ids
    BY ReferencesDiffer DEF HostTyped
  <1>2. CASE tags[Local(r)] = NoImage
    BY <1>1, <1>2, RemoveTagEffect
  <1>3. CASE tags[Local(r)] # NoImage
    <2>1. ASSUME LastTag(Local(r)), InUse(tags[Local(r)])
          PROVE  FALSE
      <3>1. PICK s \in Runs : containers[s] # NoContainer /\ tags[Local(s)] = tags[Local(r)] /\ Local(s) \in References
        BY <1>3, <2>1, UseIsNamed
      <3>2. Local(s) # Local(r)
        BY <3>1, ReferencesDiffer
      <3> QED  BY <1>1, <2>1, <3>1, <3>2 DEF LastTag
    <2> QED  BY <1>1, <2>1, RemoveTagEffect
  <1> QED  BY <1>2, <1>3

(* Every step keeps a container's image named, and an ended run nameless. *)
LEMMA NameStep ==
  ASSUME HostTyped, TeardownInv, StartInv, MutexInv, ImageInv, HoldInv, NameInv, [Next]_vars
  PROVE  NameInv'
  <1> SUFFICES ASSUME Clean'
               PROVE  \A r \in Runs :
                        /\ containers'[r] # NoContainer => tags'[Local(r)] = containers'[r].image
                        /\ pc'[r] = "ended" /\ verdict'[r] = "built" => tags'[Local(r)] = NoImage
    BY DEF NameInv, Local
  <1>1. ASSUME NEW r \in Runs, BuildStep(r) \/ RunStep(r) \/ Expire(r), NEW s \in Runs
        PROVE  /\ containers'[s] # NoContainer => tags'[Local(s)] = containers'[s].image
               /\ pc'[s] = "ended" /\ verdict'[s] = "built" => tags'[Local(s)] = NoImage
    <2>1. Leaves(r)
      BY <1>1, RunSteps
    <2>2. Clean /\ ~blamed'[r] /\ Holds(r)
      BY <2>1 DEF Leaves, Clean, HoldInv, Holds
    <2>3. CASE s # r
      <3>1. /\ pc'[s] = pc[s] /\ verdict'[s] = verdict[s] /\ containers'[s] = containers[s]
            /\ tags'[Local(s)] = tags[Local(s)]
        BY <1>1, <2>1, <2>3, OtherNames DEF Leaves
      <3> QED  BY <2>2, <3>1 DEF NameInv
    <2>4. CASE s = r /\ BuildStep(r)
      <3>1. containers'[r] = NoContainer
        BY <2>2, <2>4, BuildMoves, BuildImage DEF Holds, Building, Loading
      <3>2. pc'[r] = "ended" => verdict'[r] # "built"
        BY <2>4, ZenonT(60) DEF BuildStep, Materialize, FetchImage, LockLoad, LoadImage, TagUntagged, CheckImage, RejectImage,
                    OwnImage, DropRef, UndoLoad, LoadStep, End, Goto, HostTyped
      <3> QED  BY <2>4, <3>1, <3>2
    <2>5. CASE s = r /\ RemoveNext(r)
      <3>1. /\ pc[r] = "removing" /\ todo[r] \in Unwindings \cup Restarts
            /\ RemoveThing(r, Head(todo[r]))
        BY <2>2, <2>5, RemovalStep, CommandOutcomes
      <3>2. Head(todo[r]) # "image" => tags' = tags /\ pc'[r] # "ended"
        <4>1. todo[r] \in Unwindings /\ Head(todo[r]) # "image" => Len(todo[r]) # 1
          BY Removals
        <4> QED  BY <2>5, <4>1, RemovalStep
      <3>3. CASE Head(todo[r]) = "image"
        <4>1. containers[r] = NoContainer /\ RemoveTag(Local(r)) /\ containers' = containers
          BY <2>2, <3>1, <3>3 DEF Holds, RemoveThing
        <4> QED  BY <2>2, <2>5, <4>1, ImageGoes
      <3>4. CASE Head(todo[r]) # "image"
        BY <2>2, <2>5, <3>2, <3>4, RemovalStep DEF NameInv
      <3> QED  BY <3>3, <3>4
    <2>6. CASE s = r /\ RunStep(r) /\ ~RemoveNext(r)
      <3>1. tags' = tags
        BY <2>6 DEF RunStep, BeginRun, CreateIsolatedNetwork, StartContainer, ReadAddress, RestartContainer, FinishRun, host
      <3>2. containers' = containers
            \/ containers' = [containers EXCEPT ![r] = [state |-> "running", image |-> tags[Local(r)]]]
        BY <2>6 DEF RunStep, BeginRun, CreateIsolatedNetwork, StartContainer, ReadAddress, RestartContainer, FinishRun, host
      <3>3. containers'[r] = containers[r] \/ containers'[r].image = tags[Local(r)]
        BY <3>2 DEF HostTyped
      <3>4. pc'[r] # "ended"
        BY <2>6, Begun DEF RunStep, BeginRun, CreateIsolatedNetwork, StartContainer, ReadAddress, FinishRun,
                           Goto, FirstStep, HostTyped
      <3> QED  BY <2>2, <2>6, <3>1, <3>3, <3>4 DEF NameInv
    <2>7. CASE s = r /\ Expire(r)
      BY <2>2, <2>7 DEF Expire, control, host, NameInv
    <2> QED  BY <1>1, <2>3, <2>4, <2>5, <2>6, <2>7
  <1>2. CASE Crash
    <2>1. Clean
      BY <1>2 DEF Crash, Clean
    <2>2. \A r \in Runs : containers'[r] # NoContainer =>
             containers[r] # NoContainer /\ containers'[r].image = containers[r].image
      <3>1. PICK exited \in SUBSET RunningContainers :
              containers' = [r \in Runs |-> IF r \in exited THEN [containers[r] EXCEPT !.state = "exited"]
                                            ELSE containers[r]]
        BY <1>2 DEF Crash
      <3>2. \A r \in exited : containers[r] # NoContainer
        BY DEF RunningContainers, NoContainer
      <3>3. \A r \in Runs : [containers[r] EXCEPT !.state = "exited"].image = containers[r].image
        BY DEF HostTyped, Containers
      <3> QED  BY <3>1, <3>2, <3>3
    <2>3. UNCHANGED <<tags, verdict>> /\ \A r \in Runs : pc'[r] = "ended" => pc[r] = "ended"
      BY <1>2 DEF Crash
    <2> QED  BY <2>1, <2>2, <2>3 DEF NameInv
  <1>3. CASE CleanupStale
    <2>1. UNCHANGED <<pc, tags, verdict, blamed>>
      BY <1>3 DEF CleanupStale, control
    <2>2. \A r \in Runs : containers'[r] \in {containers[r], NoContainer}
      BY <1>3 DEF CleanupStale
    <2>3. Clean
      BY <2>1 DEF Clean
    <2> QED  BY <2>1, <2>2, <2>3 DEF NameInv
  <1>4. CASE UNCHANGED vars
    BY <1>4 DEF vars, control, host, NameInv, Clean
  <1> QED  BY <1>1, <1>2, <1>3, <1>4, Kinds

-----------------------------------------------------------------------------
(* The screener's references *)

(* What ScreenerInv says of the run that holds the lock. *)
Remembers(s) ==
  /\ \A r \in Runs : Screener(r) # Screener(s) => tags[Screener(r)] = operator
  /\ pc[s] = "load" => tags[Screener(s)] = operator
  /\ prior[s] = operator \/ (ctx[s] # "alive" /\ pc[s] = "load")
AllGiven == \A r \in Runs : tags[Screener(r)] = operator
Kept == operator # NoImage => operator \in images

(* The three parts of ScreenerInv, by name. *)
LEMMA ScreenerParts ==
  ScreenerInv <=> (Clean /\ crashes = 0 =>
                     (mutex = Nobody => AllGiven) /\ (\A s \in Runs : mutex = s => Remembers(s)) /\ Kept)
  BY DEF ScreenerInv, Remembers, AllGiven, Kept

(* The restoration puts back what the operator had. *)
LEMMA Restored ==
  ASSUME HostTyped, NameInv, Clean, Kept, NEW r \in Runs, Remembers(r), prior[r] = operator, RestoreRef(r),
         UNCHANGED fixed
  PROVE  AllGiven' /\ Kept'
  <1>1. /\ Screener(r) \in References /\ tags \in [References -> Ids] /\ images \subseteq Ids
        /\ operator' = operator /\ References' = References
        /\ \A s \in Runs : Screener(s)' = Screener(s) /\ Screener(s) \in References
    BY ReferencesDiffer, NamesStay DEF HostTyped, fixed
  <1>2. \A name \in References : name # Screener(r) => tags'[name] = tags[name]
    BY RestoreEffect
  <1>3. tags'[Screener(r)] = operator /\ Kept'
    <2>1. CASE operator # NoImage
      <3>1. CanRestore(r) /\ prior[r] # NoImage
        BY <2>1 DEF CanRestore, Kept
      <3>2. Retag(Screener(r), prior[r]) /\ UNCHANGED images
        BY <3>1 DEF RestoreRef
      <3> QED  BY <1>1, <3>2 DEF Retag, Kept
    <2>2. CASE operator = NoImage /\ tags[Screener(r)] = NoImage
      <3>1. ~CanRestore(r)
        BY <2>2 DEF CanRestore
      <3> QED  BY <1>1, <2>2, <3>1 DEF RestoreRef, Kept
    <2>3. CASE operator = NoImage /\ tags[Screener(r)] # NoImage
      <3>1. RemoveTag(Screener(r))
        BY <2>3 DEF CanRestore, RestoreRef
      <3>2. ASSUME LastTag(Screener(r)), InUse(tags[Screener(r)])
            PROVE  FALSE
        <4>1. PICK s \in Runs : tags[Local(s)] = tags[Screener(r)] /\ Local(s) \in References
          BY <2>3, <3>2, UseIsNamed
        <4> QED  BY <1>1, <3>2, <4>1, ReferencesDiffer DEF LastTag
      <3> QED  BY <1>1, <2>3, <3>1, <3>2, RemoveTagEffect DEF Kept
    <2> QED  BY <2>1, <2>2, <2>3
  <1> QED  BY <1>1, <1>2, <1>3 DEF AllGiven, Remembers

(* A load, from the lock to the unlock. *)
LEMMA LoadRemembers ==
  ASSUME HostTyped, MutexInv, NameInv, Clean, Kept, NEW r \in Runs, BuildStep(r), Clean',
         mutex = Nobody => AllGiven, mutex = r => Remembers(r), pc[r] \in Loading \cup {"lock"}
  PROVE  /\ Kept'
         /\ \/ mutex' = r /\ Remembers(r)'
            \/ mutex' = Nobody /\ AllGiven'
  <1>0. UNCHANGED fixed /\ Leaves(r)
    BY BuildFrame DEF Leaves
  <1>1. /\ {Screener(r), Local(r)} \subseteq References /\ tags \in [References -> Ids] /\ pc \in [Runs -> Places]
        /\ prior \in [Runs -> Ids] /\ operator' = operator /\ pc[r] \in Places /\ Screener(r) # Local(r)
        /\ \A s \in Runs : Screener(s)' = Screener(s) /\ Screener(s) \in References /\ Screener(s) # Local(r)
    BY <1>0, ReferencesDiffer, NamesStay DEF HostTyped, fixed
  <1>2. pc[r] # "lock" => mutex = r /\ Remembers(r)
    BY DEF MutexInv, Loading
  <1>3. \A s \in Runs : Screener(s) # Screener(r) => tags'[Screener(s)] = tags[Screener(s)]
    BY <1>0, <1>1 DEF Leaves
  <1>4. ~CutAfterwards(r) /\ ~Lost(r)
    BY CommandOutcomes DEF Clean
  <1> USE <1>1 DEF Goto, End
  <1>5. CASE LockLoad(r)
    <2>1. mutex = Nobody /\ mutex' = r /\ pc'[r] = "load" /\ UNCHANGED <<tags, images>> /\ AllGiven
      BY <1>5 DEF LockLoad, LoadIsFree, host
    <2>2. prior'[r] = operator \/ ctx'[r] # "alive"
      BY <1>4, <1>5, <2>1 DEF LockLoad, Works, Calm, Alive, AllGiven
    <2> QED  BY <2>1, <2>2 DEF Remembers, AllGiven, Kept
  <1>6. CASE LoadImage(r)
    <2>1. pc[r] = "load" /\ Remembers(r) /\ mutex = r
      BY <1>2, <1>6 DEF LoadImage
    <2>2. CASE Works(r) /\ DockerLoad(r) /\ pc'[r] \in {"tag", "check"} /\ UNCHANGED <<mutex, prior, verdict>>
      <3>1. Kept'
        BY <2>2 DEF DockerLoad, Kept
      <3>2. prior'[r] = operator
        BY <2>1, <2>2 DEF Works, Alive, Remembers
      <3> QED  BY <1>3, <2>1, <2>2, <3>1, <3>2 DEF Remembers
    <2>3. CASE Alive(r) /\ RestoreRef(r) /\ Unlock(r)
      BY <1>0, <2>1, <2>3, Restored DEF Remembers, Alive, Unlock
    <2>4. CASE UNCHANGED <<tags, images>> /\ Unlock(r)
      <3>1. AllGiven
        BY <2>1 DEF Remembers, AllGiven
      <3> QED  BY <2>4, <3>1 DEF Unlock, AllGiven, Kept
    <2> QED  BY <1>4, <1>6, <2>2, <2>3, <2>4 DEF LoadImage
  <1>7. CASE TagUntagged(r) \/ CheckImage(r) \/ RejectImage(r) \/ OwnImage(r)
    <2>1. pc[r] \in {"tag", "check", "own"} /\ pc'[r] # "load" /\ UNCHANGED <<mutex, prior, images>>
      BY <1>7 DEF TagUntagged, CheckImage, RejectImage, OwnImage, LoadStep, host
    <2>2. Remembers(r) /\ mutex = r
      BY <1>2, <2>1
    <2> QED  BY <1>3, <2>1, <2>2 DEF Remembers, Kept
  <1>8. CASE DropRef(r)
    <2>1. pc[r] = "drop ref" /\ Remembers(r) /\ mutex = r /\ prior[r] = operator
      BY <1>2, <1>8 DEF DropRef, Remembers
    <2>2. CASE RestoreRef(r)
      <3>1. AllGiven' /\ Kept'
        BY <1>0, <2>1, <2>2, Restored
      <3>2. mutex' = Nobody \/ (mutex' = r /\ prior' = prior /\ pc'[r] # "load")
        BY <1>8, <2>1 DEF DropRef, Unlock
      <3> QED  BY <2>1, <3>1, <3>2 DEF AllGiven, Remembers
    <2>3. CASE UNCHANGED <<tags, images, mutex, prior, verdict>> /\ pc'[r] = "undo"
      BY <2>1, <2>3 DEF Remembers, Kept
    <2> QED  BY <1>8, <2>2, <2>3 DEF DropRef
  <1>9. CASE UndoLoad(r)
    <2>1. pc[r] = "undo" /\ Remembers(r) /\ prior[r] = operator /\ mutex' = Nobody /\ RestoreRef(r)
      BY <1>2, <1>4, <1>9 DEF UndoLoad, Remembers, Unlock
    <2> QED  BY <1>0, <2>1, Restored
  <1> QED  BY <1>5, <1>6, <1>7, <1>8, <1>9 DEF BuildStep, Materialize, FetchImage, Loading

(* The removal of a run's image does not take the operator's along. *)
LEMMA OperatorsStays ==
  ASSUME HostTyped, TeardownInv, Kept, NEW r \in Runs, RemoveNext(r), Clean',
         mutex = Nobody => AllGiven, \A s \in Runs : mutex = s => Remembers(s), UNCHANGED fixed
  PROVE  Kept'
  <1>1. operator' = operator
    BY DEF fixed
  <1>2. CASE images' = images
    BY <1>1, <1>2 DEF Kept
  <1>3. CASE images' # images
    <2>1. Head(todo[r]) = "image" /\ RemoveThing(r, Head(todo[r]))
      BY <1>3, RemovalStep, CommandOutcomes DEF Clean, host
    <2>2. RemoveTag(Local(r)) /\ blamed' = [s \in Runs |-> blamed[s] \/ s \in Bereaved(Local(r))]
      BY <2>1 DEF RemoveThing
    <2>3. Bereaved(Local(r)) = {}
      <3>1. Bereaved(Local(r)) \subseteq Runs
        BY DEF Bereaved
      <3> QED  BY <2>2, <3>1 DEF Clean
    <2>4. /\ Local(r) \in References /\ tags \in [References -> Ids] /\ images \subseteq Ids
          /\ \A s \in Runs : Screener(s) \in References /\ Screener(s) # Local(r)
      BY ReferencesDiffer DEF HostTyped
    <2>5. SUFFICES ASSUME operator # NoImage, operator \in images, operator \notin images'
                   PROVE  FALSE
      BY <1>1 DEF Kept
    <2>6. operator = tags[Local(r)] /\ LastTag(Local(r)) /\ ~InUse(tags[Local(r)])
      BY <2>2, <2>4, <2>5, RemoveTagEffect
    <2>7. \A s \in Runs : tags[Screener(s)] # operator
      BY <2>4, <2>6 DEF LastTag, HostTyped
    <2>8. PICK s \in Runs : mutex = s /\ Remembers(s)
      BY <2>7 DEF HostTyped, AllGiven
    <2>9. prior[s] = tags[Local(r)]
      BY <2>6, <2>7, <2>8 DEF Remembers
    <2>10. s \in Bereaved(Local(r))
      BY <2>5, <2>6, <2>8, <2>9 DEF Bereaved
    <2> QED  BY <2>3, <2>10
  <1> QED  BY <1>2, <1>3

(* Every step keeps the operator's references. *)
LEMMA ScreenerStep ==
  ASSUME HostTyped, TeardownInv, StartInv, MutexInv, NameInv, ScreenerInv, [Next]_vars
  PROVE  ScreenerInv'
  <1>p. ScreenerInv' <=> (Clean' /\ crashes' = 0 =>
          (mutex' = Nobody => AllGiven') /\ (\A s \in Runs : mutex' = s => Remembers(s)') /\ Kept')
    BY DEF ScreenerInv, Remembers, AllGiven, Kept
  <1>0. SUFFICES ASSUME Clean', crashes' = 0
                 PROVE  (mutex' = Nobody => AllGiven') /\ (\A s \in Runs : mutex' = s => Remembers(s)') /\ Kept'
    BY <1>p
  <1>1. ASSUME NEW r \in Runs, BuildStep(r) \/ RunStep(r) \/ Expire(r)
        PROVE  (mutex' = Nobody => AllGiven') /\ (\A s \in Runs : mutex' = s => Remembers(s)') /\ Kept'
    <2>1. Leaves(r) /\ UNCHANGED fixed
      BY <1>1, RunSteps DEF Leaves
    <2>2. Clean /\ crashes = 0
      BY <1>0, <2>1 DEF Leaves, Clean, fixed
    <2>3. (mutex = Nobody => AllGiven) /\ (\A s \in Runs : mutex = s => Remembers(s)) /\ Kept
      BY <2>2, ScreenerParts
    <2>4. /\ operator' = operator
          /\ \A s \in Runs : Screener(s)' = Screener(s) /\ Screener(s) \in References /\ Screener(s) # Local(r)
      BY <2>1, NamesStay, ReferencesDiffer DEF fixed
    <2>5. CASE BuildStep(r) /\ pc[r] \in Loading \cup {"lock"}
      <3>1. Kept' /\ ((mutex' = r /\ Remembers(r)') \/ (mutex' = Nobody /\ AllGiven'))
        BY <1>0, <2>2, <2>3, <2>5, LoadRemembers
      <3> QED  BY <3>1, NobodyIsNoRun
    <2>6. CASE ~(BuildStep(r) /\ pc[r] \in Loading \cup {"lock"})
      <3>1. pc[r] \notin Loading \/ Expire(r)
        BY <1>1, <2>6, RunMoves DEF Running, Loading
      <3>2. UNCHANGED <<mutex, prior>> /\ \A s \in Runs : tags'[Screener(s)] = tags[Screener(s)]
        <4>1. CASE Expire(r)
          BY <4>1 DEF Expire, control, host
        <4>2. CASE RunStep(r)
          <5>1. UNCHANGED <<mutex, prior>>
            BY <4>2 DEF RunStep, BeginRun, CreateIsolatedNetwork, StartContainer, ReadAddress, RestartContainer,
                        FinishRun, RemoveNext
          <5>2. pc[r] \notin Loading
            BY <4>2, RunMoves DEF Running, Loading
          <5> QED  BY <2>1, <2>4, <5>1, <5>2 DEF Leaves
        <4>3. CASE BuildStep(r)
          <5>1. Materialize(r) \/ FetchImage(r)
            BY <2>6, <4>3 DEF BuildStep, Loading, LockLoad, LoadImage, TagUntagged, CheckImage, RejectImage, OwnImage,
                              DropRef, UndoLoad, LoadStep
          <5> QED  BY <5>1 DEF Materialize, FetchImage, host
        <4> QED  BY <1>1, <4>1, <4>2, <4>3
      <3>3. Kept'
        <4>1. CASE RemoveNext(r)
          BY <1>0, <2>1, <2>3, <4>1, OperatorsStays
        <4>2. CASE ~RemoveNext(r)
          <5>1. images' = images
            BY <1>1, <2>6, <4>2 DEF RunStep, BeginRun, CreateIsolatedNetwork, StartContainer, ReadAddress,
               RestartContainer, FinishRun, Expire, BuildStep, Loading, LockLoad, LoadImage, TagUntagged, CheckImage,
               RejectImage, OwnImage, DropRef, UndoLoad, LoadStep, Materialize, FetchImage, host
          <5> QED  BY <2>3, <2>4, <5>1, SMTT(60) DEF Kept
        <4> QED  BY <4>1, <4>2
      <3>4. ASSUME NEW s \in Runs, mutex' = s
            PROVE  Remembers(s)'
        <4>1. mutex = s /\ Remembers(s) /\ pc[s] \in Loading
          BY <2>3, <3>2, <3>4 DEF MutexInv
        <4>2. pc'[s] = pc[s] /\ (ctx[s] # "alive" => ctx'[s] # "alive")
          <5>1. CASE s # r
            BY <2>1, <5>1 DEF Leaves
          <5>2. CASE s = r
            BY <3>1, <4>1, <5>2 DEF Expire, control, HostTyped
          <5> QED  BY <5>1, <5>2
        <4> QED  BY <2>4, <3>2, <4>1, <4>2 DEF Remembers
      <3>5. mutex' = Nobody => AllGiven'
        BY <2>3, <2>4, <3>2 DEF AllGiven
      <3> QED  BY <3>3, <3>4, <3>5
    <2> QED  BY <2>5, <2>6
  <1>2. CASE Crash
    <2>1. crashes' # 0
      BY <1>2 DEF Crash, HostTyped
    <2> QED  BY <1>0, <2>1
  <1>3. CASE CleanupStale \/ UNCHANGED vars
    <2>1. UNCHANGED <<operator, submission, crashes, mutex, pc, prior, tags, images, ctx, blamed>>
      BY <1>3 DEF CleanupStale, vars, fixed, control, host
    <2>2. ScreenerInv
      OBVIOUS
    <2>3. (mutex = Nobody => AllGiven) /\ (\A s \in Runs : mutex = s => Remembers(s)) /\ Kept
      BY <1>0, <2>1, ScreenerParts DEF Clean
    <2> QED  BY <2>1, <2>3 DEF AllGiven, Remembers, Kept, Screener
  <1> QED  BY <1>1, <1>2, <1>3, Kinds

-----------------------------------------------------------------------------
(* The theorems *)

(* Every initial state satisfies the invariant. *)
LEMMA InitHolds == Init => IInv
  <1> SUFFICES ASSUME Init
               PROVE  IInv
    OBVIOUS
  <1>1. PICK h \in Hosts :
          /\ store = h.store /\ operator = h.operator /\ images = {h.operator} \ {NoImage}
          /\ tags = [name \in References |-> IF name[1] = "screener" THEN h.operator ELSE NoImage]
    BY DEF Init
  <1>2. NoImage \in Ids /\ h.operator \in Ids
    <2>1. h.operator \in OperatorIds
      BY DEF OperatorIds
    <2> QED  BY <2>1 DEF Ids
  <1>3. submission \in [Runs -> DOMAIN Catalogue]
    BY SandboxHostAssumption DEF Init
  <1>4. HostTyped
    <2>1. NoContainer \in Containers
      BY <1>2 DEF NoContainer, Containers
    <2>2. /\ tags \in [References -> Ids] /\ images \subseteq Ids
      BY <1>1, <1>2
    <2>3. containers \in [Runs -> Containers] /\ networks \in [Runs -> BOOLEAN] /\ prior \in [Runs -> Ids]
      BY <1>2, <2>1 DEF Init
    <2>4. pc \in [Runs -> Places] /\ ctx \in [Runs -> {"alive", "done"}] /\ verdict \in [Runs -> Outcomes]
      BY DEF Init, Places, Outcomes
    <2>5. /\ todo \in [Runs -> Unwindings \cup Restarts \cup {<<>>}]
          /\ next \in [Runs -> {"ended", "network", "container"}]
      BY DEF Init
    <2>6. store \in {g.store : g \in Hosts} /\ operator \in Ids
      BY <1>1, <1>2
    <2>7. /\ judged = [r \in Runs |-> Judge(submission[r])] /\ process \in {"up", "containers", "networks"}
          /\ cleaned \in BOOLEAN /\ mutex \in Runs \cup {Nobody} /\ restarted \in [Runs -> BOOLEAN]
          /\ faults \in Nat /\ crashes \in Nat
          /\ disturbed \in [Runs -> BOOLEAN] /\ blamed \in [Runs -> BOOLEAN]
      BY DEF Init
    <2> QED  BY <1>3, <2>2, <2>3, <2>4, <2>5, <2>6, <2>7 DEF HostTyped
  <1>5. \A r \in Runs : /\ pc[r] = "queued" /\ containers[r] = NoContainer /\ ~networks[r]
                        /\ tags[Screener(r)] = operator
    <2>1. \A r \in Runs : Screener(r) \in References /\ Screener(r)[1] = "screener"
      BY ReferencesDiffer DEF Screener
    <2> QED  BY <1>1, <2>1 DEF Init
  <1>6. MutexInv /\ TeardownInv
    BY <1>5, NobodyIsNoRun DEF Init, MutexInv, TeardownInv, Loading
  <1>7. StartInv /\ ImageInv /\ HoldInv
    BY <1>5 DEF Init, StartInv, RestartCleans, ImageInv, Keeps, Owning, HoldInv
  <1>8. NameInv
    BY <1>5 DEF NameInv
  <1>9. ScreenerInv
    BY <1>1, <1>5, NobodyIsNoRun DEF Init, ScreenerInv
  <1> QED  BY <1>4, <1>6, <1>7, <1>8, <1>9 DEF IInv

(* IInv holds in every reachable state. *)
THEOREM InvariantHolds == Spec => []IInv
  <1>1. IInv /\ [Next]_vars => IInv'
    BY TypeStep, MutexStep, TeardownStep, StartStep, ImageStep, HoldStep, NameStep, ScreenerStep DEF IInv
  <1> QED  BY <1>1, InitHolds, PTL DEF Spec

(* After a start-up cleanup that succeeded nothing of an earlier process   *)
(* is left on the host but images, however often the process crashed,      *)
(* wherever its runs were then and whatever failed before (CleanupStale).  *)
THEOREM RestartIsClean == Spec => []RestartCleans
  <1>1. IInv => RestartCleans
    BY DEF IInv, StartInv
  <1> QED  BY <1>1, InvariantHolds, PTL

(* A run whose Build returned an image leaves no container, no network and *)
(* no reference, and between loads the screener's references are those of  *)
(* the operator, for every interleaving of any number of runs, unless a    *)
(* command was cut after it took effect or a removal was refused (Build,   *)
(* Run, Stop, Release and loadScreenedImage).                              *)
THEOREM HostIsLeftAsFound == Spec => []HostLeftAsFound
  <1>1. ASSUME IInv
        PROVE  HostLeftAsFound
    <2> SUFFICES ASSUME Clean, NEW r \in Runs
                 PROVE  /\ pc[r] = "ended" /\ verdict[r] = "built" => LeavesNothing(r)
                        /\ mutex = Nobody /\ crashes = 0 => tags[Screener(r)] = operator
      BY DEF HostLeftAsFound, Clean
    <2>1. pc[r] = "ended" => containers[r] = NoContainer /\ ~networks[r]
      BY <1>1 DEF IInv, HoldInv, Clean
    <2>2. pc[r] = "ended" /\ verdict[r] = "built" => tags[Local(r)] = NoImage
      BY <1>1 DEF IInv, NameInv
    <2>3. mutex = Nobody /\ crashes = 0 => tags[Screener(r)] = operator
      BY <1>1 DEF IInv, ScreenerInv
    <2> QED  BY <2>1, <2>2, <2>3 DEF LeavesNothing
  <1> QED  BY <1>1, InvariantHolds, PTL

-----------------------------------------------------------------------------
(* What the checks of the archive bind *)

(* What an accepted archive has gone through: one file hashes to the       *)
(* signed id, and the ids are those of a classic or of an OCI chain.       *)
LEMMA AcceptedChain ==
  ASSUME NEW s \in DOMAIN Catalogue, Judge(s).ok \/ Judge(s).ids # {}
  PROVE  LET a == Catalogue[s].archive
             ref == Catalogue[s].ref
             id == Catalogue[s].id
             image == ContentAt(a, "manifest.json").images[1]
             tagged == image.tags = <<ref>>
         IN /\ \E content : id = Digest(content)
            /\ \/ image.config = ClassicConfig(id) /\ Judge(s) = ValidateClassic(a, id, image, tagged)
               \/ Judge(s) = ValidateOCI(a, ref, id, image, tagged)
  <1> DEFINE a == Catalogue[s].archive
             ref == Catalogue[s].ref
             id == Catalogue[s].id
             listed == ContentAt(a, "manifest.json").images
             image == listed[1]
             tagged == image.tags = <<ref>>
             signed == Named(a, ClassicConfig(id)) \cup Named(a, OciBlob(id))
             readable == /\ Scannable(a, id) /\ EntriesAt(a, "manifest.json") # {} /\ Len(listed) = 1
                         /\ image.tags \in {<<>>, <<ref>>}
                         /\ \E i \in signed : signed = {i} /\ Digest(a.entries[i].content) = id
  <1>1. Judge(s) = CASE ~readable -> Refusal
                     [] readable /\ image.config = ClassicConfig(id) -> ValidateClassic(a, id, image, tagged)
                     [] OTHER -> ValidateOCI(a, ref, id, image, tagged)
    BY DEF Judge, ValidateDockerSaveArchive
  <1>2. readable \in BOOLEAN
    OBVIOUS
  <1> HIDE DEF a, ref, id, listed, image, tagged, signed, readable
  <1>3. readable
    <2> SUFFICES ASSUME ~readable
                 PROVE  FALSE
      BY <1>2
    <2>1. Judge(s) = Refusal
      BY <1>1
    <2> QED  BY <2>1 DEF Refusal
  <1>4. \E content : id = Digest(content)
    BY <1>3 DEF readable
  <1>5. \/ image.config = ClassicConfig(id) /\ Judge(s) = ValidateClassic(a, id, image, tagged)
        \/ Judge(s) = ValidateOCI(a, ref, id, image, tagged)
    BY <1>1, <1>3
  <1> QED  BY <1>4, <1>5, ZenonT(60) DEF a, ref, id, listed, image, tagged

(* A runnable manifest of the signed root is what the root itself stands   *)
(* for: the root is it, or is an index with no other.                      *)
LEMMA RunnableIsOne ==
  ASSUME NEW a, NEW id, NEW d \in PrimaryOCIImage(a, id)
  PROVE  /\ d = id \/ CanonicalSHA256Digest(d)
         /\ CanonicalSHA256Digest(Bytes(d).config.digest)
         /\ Configuration(d) = Bytes(Bytes(d).config.digest)
         /\ Configuration(id) = Bytes(Bytes(d).config.digest)
         /\ Bytes(d).config.digest \in Verified(a, id)
  <1> DEFINE root == Bytes(id)
  <1>1. \/ root.kind = "index" /\ PrimaryOCIIndex(root, a, id) /\ d \in {root.manifests[k].digest : k \in Runnable(root)}
        \/ root.kind = "manifest" /\ RunnableImageManifest(root, a, id) /\ d = id
    BY DEF PrimaryOCIImage
  <1>2. CASE root.kind = "manifest" /\ RunnableImageManifest(root, a, id) /\ d = id
    BY <1>2 DEF RunnableImageManifest, Configuration
  <1>3. CASE root.kind = "index" /\ PrimaryOCIIndex(root, a, id) /\ d \in {root.manifests[k].digest : k \in Runnable(root)}
    <2>1. PICK k \in Runnable(root) : Runnable(root) = {k}
      BY <1>3 DEF PrimaryOCIIndex
    <2>2. d = root.manifests[k].digest /\ (CHOOSE j \in Runnable(root) : TRUE) = k
      BY <1>3, <2>1
    <2>3. k \in DOMAIN root.manifests
      BY <2>1 DEF Runnable
    <2>4. CanonicalSHA256Digest(d) /\ RunnableImageManifest(Bytes(d), a, id)
      BY <1>3, <2>1, <2>2, <2>3 DEF PrimaryOCIIndex
    <2>5. /\ Bytes(d).kind = "manifest" /\ CanonicalSHA256Digest(Bytes(d).config.digest)
          /\ Bytes(d).config.digest \in Verified(a, id)
      BY <2>4 DEF RunnableImageManifest
    <2>6. Configuration(d) = Bytes(Bytes(d).config.digest)
      BY <2>5 DEF Configuration
    <2>7. Configuration(id) = Bytes(Bytes(d).config.digest)
      BY <1>3, <2>2 DEF Configuration
    <2> QED  BY <2>4, <2>5, <2>6, <2>7
  <1> QED  BY <1>1, <1>2, <1>3

(* Whatever id the daemon may report for an accepted archive, it is one    *)
(* and its image has the configuration the platform has signed.            *)
LEMMA AcceptedIsSigned ==
  ASSUME NEW s \in DOMAIN Catalogue, NEW got \in Judge(s).ids
  PROVE  got # NoImage /\ Configuration(got) = Configuration(Catalogue[s].id)
  <1> DEFINE a == Catalogue[s].archive
             ref == Catalogue[s].ref
             id == Catalogue[s].id
             image == ContentAt(a, "manifest.json").images[1]
             tagged == image.tags = <<ref>>
  <1>0. \A digest : CanonicalSHA256Digest(digest) => digest # NoImage
    <2>1. "sha256" \notin DOMAIN NoImage
      BY DEF NoImage
    <2> QED  BY <2>1 DEF CanonicalSHA256Digest
  <1>1. \A content : CanonicalSHA256Digest(Digest(content)) /\ Bytes(Digest(content)) = content
    BY DEF CanonicalSHA256Digest, Digest, Bytes
  <1>2. \/ image.config = ClassicConfig(id) /\ Judge(s) = ValidateClassic(a, id, image, tagged)
        \/ Judge(s) = ValidateOCI(a, ref, id, image, tagged)
    BY AcceptedChain
  <1>3. CanonicalSHA256Digest(id)
    BY <1>1, AcceptedChain
  <1>4. Judge(s).ok =>
          /\ Configuration(id).kind = "config"
          /\ image.config = ClassicConfig(id) => Bytes(id).kind = "config"
    BY SignedAssumption
  <1> HIDE DEF a, ref, id, image, tagged
  <1>5. CASE image.config = ClassicConfig(id) /\ Judge(s) = ValidateClassic(a, id, image, tagged)
    <2>1. Judge(s).ok /\ Judge(s).ids = {id, Digest(StoreManifest(a, id, image))}
      BY <1>5 DEF ValidateClassic, ClassicStoreIds, Refusal
    <2>2. Configuration(id) = Bytes(id)
      BY <1>4, <1>5, <2>1 DEF Configuration
    <2>3. Configuration(Digest(StoreManifest(a, id, image))) = Bytes(id)
      <3>1. /\ StoreManifest(a, id, image).kind = "manifest"
            /\ StoreManifest(a, id, image).config.digest = id
        BY DEF StoreManifest, Descriptor
      <3> QED  BY <1>1, <3>1 DEF Configuration
    <2> QED  BY <1>0, <1>1, <1>3, <2>1, <2>2, <2>3 DEF id
  <1>6. CASE Judge(s) = ValidateOCI(a, ref, id, image, tagged)
    <2> DEFINE runnable == PrimaryOCIImage(a, id)
    <2>1. Judge(s).ok /\ Judge(s).ids = {id} \cup runnable \cup {Bytes(d).config.digest : d \in runnable}
      BY <1>6 DEF ValidateOCI, Refusal
    <2>2. Configuration(id).kind = "config"
      BY <1>4, <2>1
    <2>3. CASE got = id
      BY <1>0, <1>3, <2>3 DEF id
    <2>4. CASE got \in runnable
      <3>1. got = id \/ CanonicalSHA256Digest(got)
        BY <2>4, RunnableIsOne
      <3>2. Configuration(got) = Configuration(id)
        BY <2>4, RunnableIsOne
      <3> QED  BY <1>0, <1>3, <3>1, <3>2 DEF id
    <2>5. CASE got \in {Bytes(d).config.digest : d \in runnable}
      <3>1. PICK d \in runnable : got = Bytes(d).config.digest
        BY <2>5
      <3>2. CanonicalSHA256Digest(got) /\ Configuration(id) = Bytes(got)
        BY <3>1, RunnableIsOne
      <3>3. Bytes(got).kind = "config"
        BY <2>2, <3>2
      <3>4. Configuration(got) = Bytes(got)
        BY <3>3 DEF Configuration
      <3> QED  BY <1>0, <3>2, <3>4 DEF id
    <2> QED  BY <2>1, <2>3, <2>4, <2>5
  <1> QED  BY <1>2, <1>5, <1>6

(* From the end of Build to the teardown the reference of a run, and its   *)
(* container, stand for the configuration the platform has signed for this *)
(* submission, whatever the other runs load, release or restore meanwhile. *)
THEOREM BuildsOwnTheirImage == Spec => []BuildGetsItsOwnImage
  <1>1. ASSUME IInv
        PROVE  BuildGetsItsOwnImage
    <2> SUFFICES ASSUME NEW r \in Runs
                 PROVE  /\ pc[r] \in Owning =>
                             tags[Local(r)] # NoImage
                             /\ Configuration(tags[Local(r)]) = Configuration(SignedId(r))
                        /\ containers[r] # NoContainer =>
                             Configuration(containers[r].image) = Configuration(SignedId(r))
      BY DEF BuildGetsItsOwnImage
    <2>1. submission[r] \in DOMAIN Catalogue /\ AcceptedIds(r) = Judge(submission[r]).ids
      BY <1>1 DEF IInv, HostTyped, AcceptedIds
    <2>2. \A id \in AcceptedIds(r) : id # NoImage /\ Configuration(id) = Configuration(SignedId(r))
      BY <2>1, AcceptedIsSigned DEF SignedId
    <2>3. /\ pc[r] \in Owning => tags[Local(r)] \in AcceptedIds(r)
          /\ containers[r] # NoContainer => containers[r].image \in AcceptedIds(r)
      BY <1>1 DEF IInv, ImageInv, Keeps
    <2> QED  BY <2>2, <2>3
  <1> QED  BY <1>1, InvariantHolds, PTL

-----------------------------------------------------------------------------
(* Honest submissions *)

(* What was hashed to its name is the digest of its content. *)
LEMMA VerifiedIsDigest ==
  ASSUME NEW a, NEW id, NEW d \in Verified(a, id)
  PROVE  d = Digest(Bytes(d))
  BY DEF Verified, Digest, Bytes

(* Whichever store it has, the daemon reports an accepted id for a         *)
(* submission as the platform stores it.                                   *)
LEMMA StoredLoads ==
  ASSUME NEW s \in Honest, NEW kind \in {"graphdriver", "containerd"}
  PROVE  LoadedId(Catalogue[s].archive, kind) \in Judge(s).ids
  <1> DEFINE a == Catalogue[s].archive
             ref == Catalogue[s].ref
             id == Catalogue[s].id
             image == ContentAt(a, "manifest.json").images[1]
             tagged == image.tags = <<ref>>
             config == Digest(LayerContent(a, image.config))
             manifests == ContentAt(a, "index.json").manifests
             main == {k \in DOMAIN manifests : manifests[k].attests = ""}
  <1>1. s \in DOMAIN Catalogue /\ AsStored(s)
    BY SandboxHostAssumption, HonestAssumption
  <1>2. /\ Judge(s).ok /\ LayerContent(a, image.config) = Configuration(id)
        /\ EntriesAt(a, "index.json") # {} => main # {} /\ \A k \in main : manifests[k].digest = id
    BY <1>1 DEF AsStored
  <1>3. /\ \E content : id = Digest(content)
        /\ \/ image.config = ClassicConfig(id) /\ Judge(s) = ValidateClassic(a, id, image, tagged)
           \/ Judge(s) = ValidateOCI(a, ref, id, image, tagged)
    BY <1>1, <1>2, AcceptedChain
  <1>4. id = Digest(Bytes(id))
    BY <1>3 DEF Digest, Bytes
  <1>5. image.config = ClassicConfig(id) => Bytes(id).kind = "config"
    BY <1>1, <1>2, SignedAssumption
  <1>6. LoadedId(a, kind) \in {config, id, Digest(StoreManifest(a, config, image))}
    <2>1. CASE kind = "graphdriver"
      BY <2>1, SMTT(60) DEF LoadedId
    <2>2. CASE kind = "containerd" /\ EntriesAt(a, "index.json") # {}
      <3>1. LoadedId(a, kind) = manifests[CHOOSE k \in DOMAIN manifests : manifests[k].attests = ""].digest
        BY <2>2 DEF LoadedId
      <3>2. PICK k \in DOMAIN manifests : manifests[k].attests = ""
        BY <1>2, <2>2
      <3>3. (CHOOSE j \in DOMAIN manifests : manifests[j].attests = "") \in main
        BY <3>2
      <3> QED  BY <1>2, <2>2, <3>1, <3>3
    <2>3. CASE kind = "containerd" /\ EntriesAt(a, "index.json") = {}
      BY <2>3, Zenon DEF LoadedId
    <2> QED  BY <2>1, <2>2, <2>3
  <1>7. EntriesAt(a, "index.json") # {} => LoadedId(a, kind) \in {config, id}
    <2>1. CASE kind = "graphdriver"
      BY <2>1, SMTT(60) DEF LoadedId
    <2>2. CASE kind = "containerd" /\ EntriesAt(a, "index.json") # {}
      <3>1. LoadedId(a, kind) = manifests[CHOOSE k \in DOMAIN manifests : manifests[k].attests = ""].digest
        BY <2>2 DEF LoadedId
      <3>2. PICK k \in DOMAIN manifests : manifests[k].attests = ""
        BY <1>2, <2>2
      <3>3. (CHOOSE j \in DOMAIN manifests : manifests[j].attests = "") \in main
        BY <3>2
      <3> QED  BY <1>2, <2>2, <3>1, <3>3
    <2> QED  BY <2>1, <2>2
  <1> HIDE DEF a, ref, id, image, tagged, config, manifests, main
  <1>8. CASE image.config = ClassicConfig(id) /\ Judge(s) = ValidateClassic(a, id, image, tagged)
    <2>1. Judge(s).ids = {id, Digest(StoreManifest(a, id, image))}
      BY <1>2, <1>8 DEF ValidateClassic, ClassicStoreIds, Refusal
    <2>2. Configuration(id) = Bytes(id)
      BY <1>5, <1>8 DEF Configuration
    <2>3. config = id
      BY <1>2, <1>4, <2>2 DEF config
    <2> QED  BY <1>6, <2>1, <2>3 DEF a
  <1>9. CASE Judge(s) = ValidateOCI(a, ref, id, image, tagged)
    <2> DEFINE runnable == PrimaryOCIImage(a, id)
    <2>1. /\ runnable # {} /\ EntriesAt(a, "index.json") # {}
          /\ Judge(s).ids = {id} \cup runnable \cup {Bytes(d).config.digest : d \in runnable}
      BY <1>2, <1>9 DEF ValidateOCI, Refusal
    <2>2. PICK d \in runnable : TRUE
      BY <2>1
    <2>3. Configuration(id) = Bytes(Bytes(d).config.digest) /\ Bytes(d).config.digest \in Verified(a, id)
      BY <2>2, RunnableIsOne
    <2>4. config = Bytes(d).config.digest
      BY <1>2, <2>3, VerifiedIsDigest DEF config
    <2> QED  BY <1>7, <2>1, <2>4 DEF a
  <1> QED  BY <1>3, <1>8, <1>9

(* For a run with such a submission the source can be built, the archive   *)
(* is accepted, and what the daemon makes of it passes the checks.         *)
LEMMA StoredPasses ==
  ASSUME HostTyped, NEW r \in Runs, submission[r] \in Honest
  PROVE  /\ FetchTarball(Catalogue[submission[r]].tarball) /\ judged[r].ok
         /\ Loaded(r) \in AcceptedIds(r)
         /\ \A id \in AcceptedIds(r) : id # NoImage /\ ~Configuration(id).volumes
  <1>1. submission[r] \in DOMAIN Catalogue /\ judged[r] = Judge(submission[r])
    BY DEF HostTyped
  <1>2. AsStored(submission[r])
    BY HonestAssumption
  <1>3. store \in {"graphdriver", "containerd"}
    BY SandboxHostAssumption DEF HostTyped
  <1>4. Loaded(r) \in AcceptedIds(r)
    BY <1>1, <1>3, StoredLoads DEF Loaded, AcceptedIds
  <1>5. \A id \in AcceptedIds(r) : id # NoImage /\ Configuration(id) = Configuration(Catalogue[submission[r]].id)
    BY <1>1, AcceptedIsSigned DEF AcceptedIds
  <1> QED  BY <1>1, <1>2, <1>4, <1>5 DEF AsStored

(* Every reference leads to an image of the store.                         *)
TagsLive == \A name \in References : tags[name] = NoImage \/ tags[name] \in images

(* Nothing has failed an honest run that nothing has disturbed, and what   *)
(* its load goes by, here and when it gives the reference back, is there.  *)
GoesWell(r) ==
  submission[r] \in Honest /\ ~disturbed[r] =>
    /\ ctx[r] = "alive" /\ verdict[r] \in {"none", "built"} /\ pc[r] # "undo"
    /\ pc[r] = "tag" => Loaded(r) \in images
    /\ pc[r] \in {"check", "own", "drop ref"} => tags[Screener(r)] \in AcceptedIds(r)
    /\ mutex = r => prior[r] = NoImage \/ prior[r] \in images

(* The removal of a reference, and a new one, keep references live.        *)
LEMMA LiveAfterTag ==
  ASSUME HostTyped, TagsLive, UNCHANGED fixed, NEW name \in References,
         \/ RemoveTag(name)
         \/ \E id \in images' \cup {NoImage} : Retag(name, id) /\ images \subseteq images'
         \/ tags' = tags /\ images \subseteq images'
  PROVE  TagsLive'
  <1>1. References' = References /\ tags \in [References -> Ids] /\ images \subseteq Ids
    BY NamesStay DEF HostTyped
  <1> SUFFICES ASSUME NEW other \in References
               PROVE  tags'[other] = NoImage \/ tags'[other] \in images'
    BY <1>1 DEF TagsLive
  <1>2. tags[other] = NoImage \/ tags[other] \in images
    BY DEF TagsLive
  <1>3. CASE RemoveTag(name)
    <2>1. CASE tags[name] = NoImage \/ (LastTag(name) /\ InUse(tags[name]))
      BY <1>2, <1>3, <2>1 DEF RemoveTag
    <2>2. CASE ~(tags[name] = NoImage \/ (LastTag(name) /\ InUse(tags[name])))
      <3>1. tags' = [tags EXCEPT ![name] = NoImage]
        BY <1>3, <2>2 DEF RemoveTag, Retag
      <3>2. images' = IF LastTag(name) THEN images \ {tags[name]} ELSE images
        BY <1>3, <2>2 DEF RemoveTag
      <3>3. CASE other = name
        BY <1>1, <3>1, <3>3
      <3>4. CASE other # name
        <4>1. tags'[other] = tags[other]
          BY <1>1, <3>1, <3>4
        <4>2. LastTag(name) => tags[other] # tags[name]
          BY <1>1, <3>4 DEF LastTag
        <4> QED  BY <1>2, <3>2, <4>1, <4>2
      <3> QED  BY <3>3, <3>4
    <2> QED  BY <2>1, <2>2
  <1>4. CASE \E id \in images' \cup {NoImage} : Retag(name, id) /\ images \subseteq images'
    BY <1>1, <1>2, <1>4 DEF Retag
  <1>5. CASE tags' = tags /\ images \subseteq images'
    BY <1>2, <1>5
  <1> QED  BY <1>3, <1>4, <1>5

(* Every step keeps references live.                                       *)
LEMMA LiveStep ==
  ASSUME HostTyped, TeardownInv, StartInv, TagsLive, [Next]_vars
  PROVE  TagsLive'
  <1>1. ASSUME NEW r \in Runs, BuildStep(r) \/ RunStep(r) \/ Expire(r)
        PROVE  TagsLive'
    <2>1. UNCHANGED fixed /\ Screener(r) \in References /\ Local(r) \in References
      BY <1>1, RunSteps, ReferencesDiffer DEF Leaves
    <2>2. ASSUME RestoreRef(r)
          PROVE  TagsLive'
      <3>1. CASE ~CanRestore(r)
        BY <2>1, <2>2, <3>1, LiveAfterTag DEF RestoreRef
      <3>2. CASE CanRestore(r) /\ prior[r] = NoImage
        BY <2>1, <2>2, <3>2, LiveAfterTag DEF RestoreRef
      <3>3. CASE CanRestore(r) /\ prior[r] # NoImage
        <4>1. Retag(Screener(r), prior[r]) /\ images' = images /\ prior[r] \in images
          BY <2>2, <3>3 DEF RestoreRef, CanRestore
        <4> QED  BY <2>1, <4>1, LiveAfterTag
      <3> QED  BY <3>1, <3>2, <3>3
    <2>3. ASSUME DockerLoad(r)
          PROVE  TagsLive'
      BY <2>1, <2>3, LiveAfterTag DEF DockerLoad
    <2>4. ASSUME UNCHANGED <<tags, images>>
          PROVE  TagsLive'
      BY <2>1, <2>4, LiveAfterTag
    <2>5. CASE LoadImage(r)
      BY <2>2, <2>3, <2>4, <2>5 DEF LoadImage
    <2>6. CASE DropRef(r) \/ UndoLoad(r)
      BY <2>2, <2>4, <2>6 DEF DropRef, UndoLoad
    <2>7. CASE TagUntagged(r)
      <3>1. UNCHANGED <<tags, images>> \/ \E id \in images : Retag(Screener(r), id) /\ images' = images
        BY <2>7 DEF TagUntagged, LoadStep, PresentIds
      <3> QED  BY <2>1, <2>4, <3>1, LiveAfterTag
    <2>8. CASE OwnImage(r)
      <3>1. UNCHANGED <<tags, images>> \/ (Retag(Local(r), tags[Screener(r)]) /\ images' = images)
        BY <2>8 DEF OwnImage, LoadStep
      <3>2. tags[Screener(r)] \in images \cup {NoImage}
        BY <2>1 DEF TagsLive
      <3> QED  BY <2>1, <2>4, <3>1, <3>2, LiveAfterTag
    <2>9. CASE RemoveNext(r)
      <3>1. UNCHANGED <<tags, images>> \/ RemoveTag(Local(r))
        BY <2>9, RemovalStep DEF RemoveThing, host
      <3> QED  BY <2>1, <2>4, <3>1, LiveAfterTag
    <2>10. CASE Materialize(r) \/ FetchImage(r) \/ LockLoad(r) \/ CheckImage(r) \/ RejectImage(r)
      BY <2>4, <2>10 DEF Materialize, FetchImage, LockLoad, CheckImage, RejectImage, LoadStep, host
    <2>11. CASE BeginRun(r) \/ CreateIsolatedNetwork(r) \/ StartContainer(r) \/ ReadAddress(r)
                \/ RestartContainer(r) \/ FinishRun(r) \/ Expire(r)
      BY <2>4, <2>11 DEF BeginRun, CreateIsolatedNetwork, StartContainer, ReadAddress, RestartContainer, FinishRun,
                         Expire, host
    <2> QED  BY <1>1, <2>5, <2>6, <2>7, <2>8, <2>9, <2>10, <2>11 DEF BuildStep, RunStep
  <1>2. CASE Crash \/ CleanupStale \/ UNCHANGED vars
    <2>1. UNCHANGED <<submission, tags, images>>
      BY <1>2 DEF Crash, CleanupStale, vars, fixed, host
    <2> QED  BY <2>1 DEF TagsLive, References, Screener, Local
  <1> QED  BY <1>1, <1>2, Kinds

(* What was disturbed stays so, and a refusal or a cut disturbs the run it *)
(* happens to.                                                             *)
LEMMA StaysDisturbed ==
  ASSUME HostTyped, TeardownInv, StartInv, [Next]_vars, NEW s \in Runs, disturbed[s]
  PROVE  disturbed'[s]
  <1>0. disturbed \in [Runs -> BOOLEAN]
    BY DEF HostTyped
  <1>1. ASSUME NEW r \in Runs
        PROVE  /\ Calm \/ Works(r) \/ Refused(r) \/ CutAfterwards(r) \/ Lost(r) \/ Disturb(r) => disturbed'[s]
    BY <1>0 DEF Calm, Works, Refused, CutAfterwards, Lost, Disturb
  <1>2. ASSUME NEW r \in Runs, BuildStep(r)
        PROVE  disturbed'[s]
    BY <1>1, <1>2 DEF BuildStep, Materialize, FetchImage, LockLoad, LoadImage, TagUntagged, CheckImage, RejectImage,
                      OwnImage, DropRef, UndoLoad, LoadStep
  <1>3. ASSUME NEW r \in Runs, RunStep(r) \/ Expire(r)
        PROVE  disturbed'[s]
    <2>1. CASE RemoveNext(r)
      <3>1. Lost(r) \/ RemoveThing(r, Head(todo[r]))
        BY <2>1, RemovalStep
      <3>2. RemoveThing(r, Head(todo[r])) => disturbed'[s]
        <4>1. Head(todo[r]) \in {"container", "network", "image"}
          BY <2>1, RemovalStep, Removals
        <4> QED  BY <1>0, <4>1 DEF RemoveThing
      <3> QED  BY <1>1, <3>1, <3>2
    <2>2. CASE ~RemoveNext(r)
      BY <1>1, <1>3, <2>2 DEF RunStep, Expire, BeginRun, CreateIsolatedNetwork, StartContainer, ReadAddress,
                              RestartContainer, FinishRun
    <2> QED  BY <2>1, <2>2
  <1>4. CASE Crash \/ CleanupStale \/ UNCHANGED vars
    BY <1>4 DEF Crash, CleanupStale, vars
  <1> QED  BY <1>2, <1>3, <1>4, Kinds

(* Without a disturbance a command under a live context works.             *)
LEMMA Undisturbed ==
  ASSUME HostTyped, NEW r \in Runs, Alive(r), ~disturbed'[r]
  PROVE  /\ ~Refused(r) /\ ~CutAfterwards(r) /\ ~Lost(r) /\ ~Disturb(r)
         /\ Calm \/ Works(r) => ctx' = ctx
  BY DEF HostTyped, Refused, CutAfterwards, Lost, Disturb, Works, Calm

(* A step of the build of an honest run that is not disturbed goes well.   *)
LEMMA BuildGoesWell ==
  ASSUME HostTyped, TeardownInv, StartInv, MutexInv, TagsLive, NEW r \in Runs, BuildStep(r), GoesWell(r), [Next]_vars
  PROVE  GoesWell(r)'
  <1> SUFFICES ASSUME submission'[r] \in Honest, ~disturbed'[r]
               PROVE  /\ ctx'[r] = "alive" /\ verdict'[r] \in {"none", "built"} /\ pc'[r] # "undo"
                      /\ pc'[r] = "tag" => Loaded(r)' \in images'
                      /\ pc'[r] \in {"check", "own", "drop ref"} => tags'[Screener(r)'] \in AcceptedIds(r)'
                      /\ mutex' = r => prior'[r] = NoImage \/ prior'[r] \in images'
    BY DEF GoesWell
  <1>0. UNCHANGED fixed
    BY BuildFrame DEF Leaves
  <1>1. /\ submission[r] \in Honest /\ Screener(r)' = Screener(r) /\ AcceptedIds(r)' = AcceptedIds(r)
        /\ Loaded(r)' = Loaded(r)
    BY <1>0, NamesStay DEF fixed, Loaded
  <1>2. ~disturbed[r]
    BY StaysDisturbed
  <1>3. /\ Alive(r) /\ verdict[r] \in {"none", "built"} /\ pc[r] # "undo"
        /\ pc[r] = "tag" => Loaded(r) \in images
        /\ pc[r] \in {"check", "own", "drop ref"} => tags[Screener(r)] \in AcceptedIds(r)
        /\ mutex = r => prior[r] = NoImage \/ prior[r] \in images
    BY <1>1, <1>2 DEF GoesWell, Alive
  <1>4. /\ ~Refused(r) /\ ~CutAfterwards(r) /\ ~Lost(r) /\ ~Disturb(r)
        /\ Calm \/ Works(r) => ctx' = ctx
    BY <1>3, Undisturbed
  <1>5. /\ FetchTarball(Catalogue[submission[r]].tarball) /\ judged[r].ok
        /\ Loaded(r) \in AcceptedIds(r)
        /\ \A id \in AcceptedIds(r) : id # NoImage /\ ~Configuration(id).volumes
    BY <1>1, StoredPasses
  <1>6. /\ {Screener(r), Local(r)} \subseteq References /\ Screener(r) # Local(r) /\ tags \in [References -> Ids]
        /\ pc \in [Runs -> Places] /\ prior \in [Runs -> Ids] /\ verdict \in [Runs -> Outcomes]
    BY ReferencesDiffer DEF HostTyped
  <1>7. pc[r] \in Loading <=> mutex = r
    BY DEF MutexInv
  <1>8. ctx'[r] = "alive" /\ (Calm \/ Works(r))
    <2>1. Calm \/ Works(r)
      BY <1>4 DEF BuildStep, Materialize, FetchImage, LockLoad, LoadImage, TagUntagged, CheckImage, RejectImage,
                  OwnImage, DropRef, UndoLoad, LoadStep, Calm
    <2> QED  BY <1>3, <1>4, <2>1 DEF Alive
  <1> USE <1>6 DEF Goto, End
  <1>9. CASE Materialize(r)
    <2>1. Goto(r, "fetch") /\ UNCHANGED <<verdict, mutex, prior, tags, images>>
      BY <1>4, <1>5, <1>9 DEF Materialize, host
    <2> QED  BY <1>1, <1>3, <1>8, <2>1
  <1>10. CASE FetchImage(r)
    <2>1. Goto(r, "lock") /\ UNCHANGED <<verdict, mutex, prior, tags, images>>
      BY <1>4, <1>5, <1>10 DEF FetchImage, host
    <2> QED  BY <1>1, <1>3, <1>8, <2>1
  <1>11. CASE LockLoad(r)
    <2>1. Goto(r, "load") /\ UNCHANGED <<verdict, tags, images>>
      BY <1>11 DEF LockLoad, host
    <2>2. prior'[r] \in {tags[Screener(r)], NoImage}
      BY <1>11 DEF LockLoad
    <2>3. tags[Screener(r)] = NoImage \/ tags[Screener(r)] \in images
      BY DEF TagsLive
    <2> QED  BY <1>1, <1>3, <1>8, <2>1, <2>2, <2>3
  <1>12. CASE LoadImage(r)
    <2>1. /\ pc[r] = "load" /\ DockerLoad(r) /\ Goto(r, IF judged[r].tagged THEN "check" ELSE "tag")
          /\ UNCHANGED <<mutex, prior, verdict>>
      BY <1>4, <1>12 DEF LoadImage
    <2>2. images \subseteq images' /\ Loaded(r) \in images'
      BY <2>1 DEF DockerLoad
    <2>3. pc'[r] = "check" => tags'[Screener(r)] = Loaded(r)
      <3>1. CASE judged[r].tagged
        BY <2>1, <3>1 DEF DockerLoad, Retag
      <3>2. CASE ~judged[r].tagged
        BY <2>1, <3>2
      <3> QED  BY <3>1, <3>2
    <2>4. pc'[r] \in {"check", "tag"}
      BY <2>1
    <2> QED  BY <1>1, <1>3, <1>5, <1>8, <2>1, <2>2, <2>3, <2>4
  <1>13. CASE TagUntagged(r)
    <2>1. PICK id \in PresentIds(r) : /\ Retag(Screener(r), id) /\ images' = images /\ Goto(r, "check")
                                      /\ UNCHANGED <<mutex, prior, verdict>>
      BY <1>4, <1>13 DEF TagUntagged, LoadStep
    <2>2. tags'[Screener(r)] \in AcceptedIds(r)
      BY <2>1 DEF Retag, PresentIds
    <2> QED  BY <1>1, <1>3, <1>8, <2>1, <2>2
  <1>14. CASE CheckImage(r)
    <2>1. pc[r] = "check" /\ UNCHANGED <<tags, images, mutex, prior, verdict>> /\ Goto(r, "own")
      BY <1>4, <1>14 DEF CheckImage, LoadStep
    <2> QED  BY <1>1, <1>3, <1>8, <2>1
  <1>15. CASE RejectImage(r)
    <2>1. pc[r] = "tag" => PresentIds(r) # {}
      BY <1>3, <1>5 DEF PresentIds
    <2> QED  BY <1>3, <1>5, <1>15, <2>1 DEF RejectImage
  <1>16. CASE OwnImage(r)
    <2>1. /\ pc[r] = "own" /\ Retag(Local(r), tags[Screener(r)]) /\ images' = images /\ Goto(r, "drop ref")
          /\ UNCHANGED <<mutex, prior, verdict>>
      BY <1>4, <1>16 DEF OwnImage, LoadStep
    <2>2. tags'[Screener(r)] = tags[Screener(r)]
      BY <2>1 DEF Retag
    <2> QED  BY <1>1, <1>3, <1>8, <2>1, <2>2
  <1>17. CASE DropRef(r)
    <2>1. pc[r] = "drop ref" /\ mutex = r
      BY <1>7, <1>17 DEF DropRef, Loading
    <2>2. CanRestore(r)
      BY <1>3, <1>5, <2>1 DEF CanRestore
    <2>3. Goto(r, "built") /\ Unlock(r) /\ verdict' = [verdict EXCEPT ![r] = "built"]
      BY <1>4, <1>17, <2>2 DEF DropRef
    <2>4. mutex' # r
      BY <2>3, NobodyIsNoRun DEF Unlock
    <2> QED  BY <1>8, <2>3, <2>4
  <1>18. CASE UndoLoad(r)
    BY <1>3, <1>18 DEF UndoLoad
  <1> QED  BY <1>9, <1>10, <1>11, <1>12, <1>13, <1>14, <1>15, <1>16, <1>17, <1>18 DEF BuildStep

(* A step of another run cannot fail the load of an honest one without     *)
(* counting as a disturbance: the lock keeps the other loads out, and a    *)
(* release that takes the image along has been noted.                      *)
LEMMA OthersLeaveWell ==
  ASSUME HostTyped, TeardownInv, StartInv, MutexInv, MutexInv', NEW s \in Runs, BuildStep(s) \/ RunStep(s) \/ Expire(s),
         NEW r \in Runs \ {s}, GoesWell(r), [Next]_vars
  PROVE  GoesWell(r)'
  <1> SUFFICES ASSUME submission'[r] \in Honest, ~disturbed'[r]
               PROVE  /\ ctx'[r] = "alive" /\ verdict'[r] \in {"none", "built"} /\ pc'[r] # "undo"
                      /\ pc'[r] = "tag" => Loaded(r)' \in images'
                      /\ pc'[r] \in {"check", "own", "drop ref"} => tags'[Screener(r)'] \in AcceptedIds(r)'
                      /\ mutex' = r => prior'[r] = NoImage \/ prior'[r] \in images'
    BY DEF GoesWell
  <1>0. UNCHANGED fixed /\ Leaves(s)
    BY RunSteps DEF Leaves
  <1>1. /\ submission[r] \in Honest /\ Screener(r)' = Screener(r) /\ AcceptedIds(r)' = AcceptedIds(r)
        /\ Loaded(r)' = Loaded(r)
    BY <1>0, NamesStay DEF fixed, Loaded
  <1>2. ~disturbed[r]
    BY StaysDisturbed
  <1>3. pc'[r] = pc[r] /\ ctx'[r] = ctx[r] /\ prior'[r] = prior[r] /\ verdict'[r] = verdict[r]
    BY <1>0 DEF Leaves
  <1>4. /\ ctx[r] = "alive" /\ verdict[r] \in {"none", "built"} /\ pc[r] # "undo"
        /\ pc[r] = "tag" => Loaded(r) \in images
        /\ pc[r] \in {"check", "own", "drop ref"} => tags[Screener(r)] \in AcceptedIds(r)
        /\ mutex = r => prior[r] = NoImage \/ prior[r] \in images
    BY <1>1, <1>2 DEF GoesWell
  <1>5. (pc[r] \in Loading <=> mutex = r) /\ (pc'[r] \in Loading <=> mutex' = r)
    BY DEF MutexInv
  <1>6. CASE pc[r] \notin Loading
    BY <1>3, <1>4, <1>5, <1>6 DEF Loading
  <1>7. CASE pc[r] \in Loading
    <2>1. mutex = r /\ tags'[Screener(r)] = tags[Screener(r)]
      BY <1>5, <1>7, OtherNames
    <2>2. pc[s] \notin Loading
      BY <2>1 DEF MutexInv
    <2>3. ASSUME NEW id \in images, id \notin images', id = prior[r] \/ (pc[r] = "tag" /\ id = Loaded(r))
          PROVE  FALSE
      <3>1. CASE RemoveNext(s)
        <4>1. Head(todo[s]) = "image" /\ RemoveThing(s, Head(todo[s]))
          BY <2>3, <3>1, RemovalStep DEF host
        <4>2. RemoveTag(Local(s)) /\ disturbed' = [q \in Runs |-> disturbed[q] \/ q \in Bereaved(Local(s))]
          BY <4>1 DEF RemoveThing
        <4>3. Local(s) \in References /\ tags \in [References -> Ids] /\ images \subseteq Ids
          BY ReferencesDiffer DEF HostTyped
        <4>4. /\ id = tags[Local(s)] /\ tags[Local(s)] # NoImage /\ LastTag(Local(s)) /\ ~InUse(tags[Local(s)])
          BY <2>3, <4>2, <4>3, RemoveTagEffect
        <4>5. r \in Bereaved(Local(s))
          BY <2>1, <2>3, <4>4 DEF Bereaved
        <4> QED  BY <4>2, <4>5
      <3>2. CASE ~RemoveNext(s)
        <4>1. images' = images
          BY <2>2, <3>2 DEF RunStep, BeginRun, CreateIsolatedNetwork, StartContainer, ReadAddress,
             RestartContainer, FinishRun, Expire, BuildStep, Loading, LockLoad, LoadImage, TagUntagged, CheckImage,
             RejectImage, OwnImage, DropRef, UndoLoad, LoadStep, Materialize, FetchImage, host
        <4> QED  BY <2>3, <4>1, SMTT(60)
      <3> QED  BY <3>1, <3>2
    <2> QED  BY <1>1, <1>3, <1>4, <2>1, <2>3
  <1> QED  BY <1>6, <1>7

(* A step of its own after the build leaves an honest run well.            *)
LEMMA RunGoesWell ==
  ASSUME HostTyped, TeardownInv, StartInv, MutexInv, MutexInv', NEW r \in Runs, RunStep(r) \/ Expire(r), GoesWell(r), [Next]_vars
  PROVE  GoesWell(r)'
  <1> SUFFICES ASSUME submission'[r] \in Honest, ~disturbed'[r]
               PROVE  /\ ctx'[r] = "alive" /\ verdict'[r] \in {"none", "built"} /\ pc'[r] \notin Loading
    BY DEF GoesWell, MutexInv, Loading
  <1>1. submission[r] \in Honest
    BY RunSteps DEF Leaves, fixed
  <1>2. ~disturbed[r]
    BY StaysDisturbed
  <1>3. Alive(r) /\ verdict[r] \in {"none", "built"}
    BY <1>1, <1>2 DEF GoesWell, Alive
  <1>4. /\ ~Refused(r) /\ ~CutAfterwards(r) /\ ~Lost(r) /\ ~Disturb(r)
        /\ Calm \/ Works(r) => ctx' = ctx
    BY <1>3, Undisturbed
  <1>5. RunStep(r)
    BY <1>4 DEF Expire
  <1>6. pc'[r] \notin Loading
    BY <1>5, RunMoves DEF Running, Loading
  <1>7. verdict' = verdict
    BY <1>5 DEF RunStep, BeginRun, CreateIsolatedNetwork, StartContainer, ReadAddress, RestartContainer, FinishRun,
                RemoveNext
  <1>8. ctx' = ctx
    BY <1>4, <1>5 DEF RunStep, BeginRun, CreateIsolatedNetwork, StartContainer, ReadAddress, RestartContainer,
                      FinishRun, RemoveNext
  <1> QED  BY <1>3, <1>6, <1>7, <1>8 DEF Alive

(* Every step leaves the honest runs well. *)
LEMMA WellStep ==
  ASSUME HostTyped, TeardownInv, StartInv, MutexInv, MutexInv', TagsLive, \A r \in Runs : GoesWell(r), [Next]_vars
  PROVE  \A r \in Runs : GoesWell(r)'
  <1> SUFFICES ASSUME NEW r \in Runs
               PROVE  GoesWell(r)'
    OBVIOUS
  <1>0. GoesWell(r)
    OBVIOUS
  <1>1. ASSUME NEW s \in Runs, BuildStep(s) \/ RunStep(s) \/ Expire(s)
        PROVE  GoesWell(r)'
    <2>1. CASE s # r
      BY <1>0, <1>1, <2>1, OthersLeaveWell
    <2>2. CASE s = r /\ BuildStep(r)
      BY <1>0, <2>2, BuildGoesWell
    <2>3. CASE s = r /\ (RunStep(r) \/ Expire(r))
      BY <1>0, <2>3, RunGoesWell
    <2> QED  BY <1>1, <2>1, <2>2, <2>3
  <1>2. CASE Crash
    <2>1. /\ UNCHANGED <<submission, verdict, disturbed>> /\ ctx'[r] = "alive" /\ mutex' = Nobody
          /\ pc'[r] \in {"queued", "ended", "lost"}
      BY <1>2 DEF Crash
    <2> QED  BY <1>0, <2>1, NobodyIsNoRun DEF GoesWell
  <1>3. CASE CleanupStale \/ UNCHANGED vars
    <2>1. UNCHANGED <<store, submission, judged, mutex, pc, prior, verdict, tags, images, ctx, disturbed>>
      BY <1>3 DEF CleanupStale, vars, fixed, control, host
    <2> QED  BY <1>0, <2>1 DEF GoesWell, Loaded, AcceptedIds, Screener
  <1> QED  BY <1>1, <1>2, <1>3, Kinds

(* A submission as the platform stores it is scored unless something of    *)
(* the host or the caller failed: whichever store the daemon has, with or  *)
(* without a reference in the archive, and whatever the other runs load,   *)
(* release or restore meanwhile (Build, loadScreenedImage).                *)
THEOREM HonestRunsBuild == Spec => []HonestSourcesBuild
  <1> DEFINE Well == TagsLive /\ \A r \in Runs : GoesWell(r)
  <1>1. Init => Well
    <2> SUFFICES ASSUME Init
                 PROVE  Well
      OBVIOUS
    <2>1. PICK h \in Hosts :
            /\ images = {h.operator} \ {NoImage}
            /\ tags = [name \in References |-> IF name[1] = "screener" THEN h.operator ELSE NoImage]
      BY DEF Init
    <2>2. TagsLive
      BY <2>1 DEF TagsLive
    <2>3. \A r \in Runs : GoesWell(r)
      BY NobodyIsNoRun DEF Init, GoesWell
    <2> QED  BY <2>2, <2>3
  <1>2. IInv /\ IInv' /\ Well /\ [Next]_vars => Well'
    <2> SUFFICES ASSUME IInv, IInv', Well, [Next]_vars
                 PROVE  Well'
      OBVIOUS
    <2>1. TagsLive'
      BY LiveStep DEF IInv
    <2>2. \A r \in Runs : GoesWell(r)'
      BY WellStep DEF IInv
    <2>3. Runs' = Runs
      OBVIOUS
    <2> QED  BY <2>1, <2>2, <2>3
  <1>3. Well => HonestSourcesBuild
    BY DEF GoesWell, HonestSourcesBuild
  <1> QED  BY <1>1, <1>2, <1>3, InvariantHolds, PTL DEF Spec
=============================================================================
