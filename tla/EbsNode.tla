------------------------------- MODULE EbsNode -------------------------------
(***************************************************************************)
(* NodeStageVolume, NodeUnstageVolume, NodePublishVolume and               *)
(* NodeUnpublishVolume of the EBS node service on one node                 *)
(* (pkg/ebs/nodesvc.go), the mount table they work on, and the kubelet     *)
(* that calls them.                                                        *)
(*                                                                         *)
(* The four RPCs share one in-flight table keyed by volume and ignore      *)
(* their context: when the kubelet stops waiting the handler goes on.  The *)
(* mount table and the directories survive a restart of the plugin, the    *)
(* in-flight table does not.                                               *)
(*                                                                         *)
(* The kubelet has one call per volume at a time, publishes only a volume  *)
(* it knows to be staged, and unstages a volume only when none of its pods *)
(* may still have it mounted.                                              *)
(***************************************************************************)
EXTENDS Integers, Sequences, InFlight

CONSTANTS
  Handler, Volume, Pod, Device,
  None,
  BlockVolume,    \* volumes with access type block
  FromSnapshot,   \* volumes whose volume context names a snapshot
  AbruptDetach,   \* may a device vanish while the volume is in use
  MaxRestarts, MaxAttaches

ASSUME NodeAssumption ==
  /\ None \notin Volume \cup Pod \cup Device
  /\ BlockVolume \subseteq Volume
  /\ FromSnapshot \subseteq Volume
  /\ AbruptDetach \in BOOLEAN
  /\ MaxRestarts \in Nat
  /\ MaxAttaches \in Nat

VARIABLES
  inFlight,       \* ns.inFlight
  pc, vol, pod,   \* where each handler is and what it works on
  dev,            \* its devicePath
  live,           \* the kubelet still waits for its answer
  device,         \* the device each volume is attached as, or None
  pulled,         \* history: volumes whose device has vanished while in use
  stageMounts,    \* mounts at each staging path, the oldest first
  stageDirs,      \* staging paths that exist
  bound,          \* the device bind-mounted at each target path, or None
  targetDirs,     \* target paths that exist
  grown,          \* volumes whose filesystem fills the device
  resizeFailed,   \* history: volumes whose last resize has failed
  staged,         \* kubelet: staged, from the OK answer until it unstages
  stageMaybe,     \* kubelet: perhaps staged, from the first call until
                  \* Unstage was answered OK
  published,      \* kubelet: pairs published, from the OK answer until it unpublishes
  publishMaybe,   \* kubelet: pairs perhaps published
  restarts, attaches   \* numbers of restarts and attachments so far

handlerVars == <<inFlight, pc, vol, pod, dev, live>>
deviceVars  == <<device, pulled>>
mountVars   == <<stageMounts, stageDirs, bound, targetDirs, grown, resizeFailed>>
kubeletVars == <<staged, stageMaybe, published, publishMaybe>>
counters    == <<restarts, attaches>>
vars == <<handlerVars, deviceVars, mountVars, kubeletVars, counters>>
-----------------------------------------------------------------------------
Pair == Volume \X Pod

(* A mistake: volume and pod in the wrong order. *)
PairSwapped(h) == <<pod[h], vol[h]>>

(* The target path of a handler's request. *)
PairOf(h) == <<vol[h], pod[h]>>

(* A path's mounts, the oldest first: the one the kernel shows, the one    *)
(* GetDeviceNameFromMount returns, and what is left after an unmount.      *)
Top(mounts) == IF mounts = <<>> THEN None ELSE mounts[Len(mounts)]
First(mounts) == IF mounts = <<>> THEN None ELSE mounts[1]
Unmounted(mounts) == IF mounts = <<>> THEN mounts ELSE SubSeq(mounts, 1, Len(mounts) - 1)

Pc == {"idle", "stage", "stageCheck", "mount", "resize", "unstage", "removeStage",
       "publish", "bind", "unpublish", "removeTarget"}
Busy == {h \in Handler : pc[h] # "idle"}

TypeOK ==
  /\ inFlight \subseteq Volume
  /\ pc \in [Handler -> Pc]
  /\ vol \in [Handler -> Volume \cup {None}]
  /\ pod \in [Handler -> Pod \cup {None}]
  /\ dev \in [Handler -> Device \cup {None}]
  /\ live \in [Handler -> BOOLEAN]
  /\ device \in [Volume -> Device \cup {None}]
  /\ pulled \subseteq Volume
  /\ stageMounts \in [Volume -> Seq(Device)]
  /\ stageDirs \subseteq Volume
  /\ bound \in [Pair -> Device \cup {None}]
  /\ targetDirs \subseteq Pair
  /\ grown \subseteq Volume /\ resizeFailed \subseteq Volume
  /\ staged \subseteq Volume /\ stageMaybe \subseteq Volume
  /\ published \subseteq Pair /\ publishMaybe \subseteq Pair
  /\ restarts \in 0..MaxRestarts
  /\ attaches \in 0..MaxAttaches

Init ==
  /\ inFlight = NewInFlight
  /\ pc   = [h \in Handler |-> "idle"]
  /\ vol  = [h \in Handler |-> None]
  /\ pod  = [h \in Handler |-> None]
  /\ dev  = [h \in Handler |-> None]
  /\ live = [h \in Handler |-> FALSE]
  /\ device = [v \in Volume |-> None]
  /\ pulled = {}
  /\ stageMounts = [v \in Volume |-> <<>>]
  /\ stageDirs = {}
  /\ bound = [p \in Pair |-> None]
  /\ targetDirs = {}
  /\ grown = Volume \ FromSnapshot   \* mkfs uses the whole device, a snapshot does not
  /\ resizeFailed = {}
  /\ staged = {} /\ stageMaybe = {} /\ published = {} /\ publishMaybe = {}
  /\ restarts = 0 /\ attaches = 0
-----------------------------------------------------------------------------
(* Arrival and end of a call.  Insert is the first thing a handler does;   *)
(* it runs long before the kubelet's deadline, so it is part of the        *)
(* arrival.  A call that finds its key taken is answered Aborted and       *)
(* leaves no trace but what the kubelet concludes from having called.      *)
Arrive(h, v, p, start) ==
  /\ pc[h] = "idle"
  /\ \A g \in Handler : vol[g] = v => ~live[g]
  /\ IF CanInsert(inFlight, v)
     THEN /\ inFlight' = Insert(inFlight, v)
          /\ pc'   = [pc EXCEPT ![h] = start]
          /\ vol'  = [vol EXCEPT ![h] = v]
          /\ pod'  = [pod EXCEPT ![h] = p]
          /\ live' = [live EXCEPT ![h] = TRUE]
     ELSE UNCHANGED <<inFlight, pc, vol, pod, live>>
  /\ UNCHANGED <<dev, deviceVars, mountVars, counters>>

CallStage(h) ==
  \E v \in Volume :
    /\ Arrive(h, v, None, "stage")
    /\ stageMaybe' = stageMaybe \cup {v}
    /\ UNCHANGED <<staged, published, publishMaybe>>

CallUnstage(h) ==
  \E v \in stageMaybe :
    /\ \A p \in publishMaybe : p[1] # v
    /\ Arrive(h, v, None, "unstage")
    /\ staged' = staged \ {v}
    /\ UNCHANGED <<stageMaybe, published, publishMaybe>>

CallPublish(h) ==
  \E v \in staged, p \in Pod :
    /\ Arrive(h, v, p, "publish")
    /\ publishMaybe' = publishMaybe \cup {<<v, p>>}
    /\ UNCHANGED <<staged, stageMaybe, published>>

CallUnpublish(h) ==
  \E p \in publishMaybe :
    /\ Arrive(h, p[1], p[2], "unpublish")
    /\ published' = published \ {p}
    /\ UNCHANGED <<staged, stageMaybe, publishMaybe>>

(* The deferred Delete and the end of the goroutine. *)
Return(h) ==
  /\ inFlight' = Delete(inFlight, vol[h])
  /\ pc'   = [pc EXCEPT ![h] = "idle"]
  /\ vol'  = [vol EXCEPT ![h] = None]
  /\ pod'  = [pod EXCEPT ![h] = None]
  /\ dev'  = [dev EXCEPT ![h] = None]
  /\ live' = [live EXCEPT ![h] = FALSE]

AnswerError(h) == Return(h) /\ UNCHANGED kubeletVars

AnswerStaged(h) ==
  /\ Return(h)
  /\ staged' = IF live[h] THEN staged \cup {vol[h]} ELSE staged
  /\ UNCHANGED <<stageMaybe, published, publishMaybe>>

AnswerUnstaged(h) ==
  /\ Return(h)
  /\ stageMaybe' = IF live[h] THEN stageMaybe \ {vol[h]} ELSE stageMaybe
  /\ UNCHANGED <<staged, published, publishMaybe>>

AnswerPublished(h) ==
  /\ Return(h)
  /\ published' = IF live[h] THEN published \cup {PairOf(h)} ELSE published
  /\ UNCHANGED <<staged, stageMaybe, publishMaybe>>

AnswerUnpublished(h) ==
  /\ Return(h)
  /\ publishMaybe' = IF live[h] THEN publishMaybe \ {PairOf(h)} ELSE publishMaybe
  /\ UNCHANGED <<staged, stageMaybe, published>>

GoTo(h, next) ==
  /\ pc' = [pc EXCEPT ![h] = next]
  /\ UNCHANGED <<inFlight, vol, pod, live, kubeletVars>>

Deadline(h) ==
  /\ live[h]
  /\ live' = [live EXCEPT ![h] = FALSE]
  /\ UNCHANGED <<inFlight, pc, vol, pod, dev, deviceVars, mountVars, kubeletVars, counters>>
-----------------------------------------------------------------------------
(* NodeStageVolume. *)

(* A mistake: going on with the empty path of a device that was not found. *)
StageNoDevice(h) ==
  /\ pc[h] = "stage"
  /\ \/ AnswerError(h)
     \/ vol[h] \in BlockVolume /\ AnswerStaged(h)
     \/ /\ vol[h] \notin BlockVolume
        /\ dev' = [dev EXCEPT ![h] = device[vol[h]]]
        /\ GoTo(h, "stageCheck")
  /\ UNCHANGED <<deviceVars, mountVars, counters>>

(* A block volume needs no staging; otherwise find the device of the volume. *)
Stage(h) ==
  /\ pc[h] = "stage"
  /\ \/ AnswerError(h)
     \/ vol[h] \in BlockVolume /\ AnswerStaged(h)
     \/ /\ vol[h] \notin BlockVolume
        /\ device[vol[h]] # None
        /\ dev' = [dev EXCEPT ![h] = device[vol[h]]]
        /\ GoTo(h, "stageCheck")
  /\ UNCHANGED <<deviceVars, mountVars, counters>>

(* createTargetMountPoint, then GetDeviceNameFromMount, which returns the  *)
(* first entry of the mount table for the path. *)
StageCheck(h) ==
  LET mounts == stageMounts[vol[h]]
  IN /\ pc[h] = "stageCheck"
     /\ \/ AnswerError(h) /\ UNCHANGED stageDirs
        \/ /\ stageDirs' = stageDirs \cup {vol[h]}
           /\ \/ AnswerError(h)
              \/ First(mounts) = dev[h] /\ AnswerStaged(h)
              \/ First(mounts) # dev[h] /\ GoTo(h, "mount") /\ UNCHANGED dev
     /\ UNCHANGED <<deviceVars, stageMounts, bound, targetDirs, grown, resizeFailed, counters>>

(* FormatAndMount mounts the path that was read before, /dev/vdX: by now   *)
(* the name may be that of another volume.  The kernel refuses a name that *)
(* no device has, and a device that is on top of the path already. *)
FormatAndMount(h) ==
  LET v == vol[h]
      mounts == stageMounts[v]
  IN /\ pc[h] = "mount"
     /\ \/ AnswerError(h) /\ UNCHANGED stageMounts
        \/ /\ \E w \in Volume : device[w] = dev[h]
           /\ Top(mounts) # dev[h]
           /\ stageMounts' = [stageMounts EXCEPT ![v] = Append(@, dev[h])]
           /\ IF v \in FromSnapshot THEN GoTo(h, "resize") /\ UNCHANGED dev
                                    ELSE AnswerStaged(h)
     /\ UNCHANGED <<deviceVars, stageDirs, bound, targetDirs, grown, resizeFailed, counters>>

(* A filesystem restored from a snapshot is grown to the device.  When     *)
(* there is no need, or NeedResize cannot tell, the answer is OK; when     *)
(* Resize fails it is an error, and the mount stays. *)
Resize(h) ==
  /\ pc[h] = "resize"
  /\ \/ AnswerStaged(h) /\ UNCHANGED <<grown, resizeFailed>>
     \/ /\ vol[h] \notin grown
        /\ \/ /\ AnswerStaged(h)
              /\ grown' = grown \cup {vol[h]}
              /\ resizeFailed' = resizeFailed \ {vol[h]}
           \/ /\ AnswerError(h)
              /\ resizeFailed' = resizeFailed \cup {vol[h]}
              /\ UNCHANGED grown
  /\ UNCHANGED <<deviceVars, stageMounts, stageDirs, bound, targetDirs, counters>>
-----------------------------------------------------------------------------
(* NodeUnstageVolume: one unmount, then the removal of the path, which     *)
(* fails while something is still mounted there. *)
Unstage(h) ==
  /\ pc[h] = "unstage"
  /\ \/ AnswerError(h) /\ UNCHANGED stageMounts
     \/ /\ stageMounts' = [stageMounts EXCEPT ![vol[h]] = Unmounted(@)]
        /\ GoTo(h, "removeStage") /\ UNCHANGED dev
  /\ UNCHANGED <<deviceVars, stageDirs, bound, targetDirs, grown, resizeFailed, counters>>

(* A mistake: ignoring that the staging path could not be removed. *)
RemoveStageLazily(h) ==
  /\ pc[h] = "removeStage"
  /\ stageDirs' = IF stageMounts[vol[h]] = <<>> THEN stageDirs \ {vol[h]} ELSE stageDirs
  /\ AnswerUnstaged(h)
  /\ UNCHANGED <<deviceVars, stageMounts, bound, targetDirs, grown, resizeFailed, counters>>

RemoveStage(h) ==
  /\ pc[h] = "removeStage"
  /\ \/ AnswerError(h) /\ UNCHANGED stageDirs
     \/ /\ stageMounts[vol[h]] = <<>>
        /\ stageDirs' = stageDirs \ {vol[h]}
        /\ AnswerUnstaged(h)
  /\ UNCHANGED <<deviceVars, stageMounts, bound, targetDirs, grown, resizeFailed, counters>>
-----------------------------------------------------------------------------
(* NodePublishVolume: a target that is a mount point already is success. *)
Publish(h) ==
  /\ pc[h] = "publish"
  /\ \/ AnswerError(h) /\ UNCHANGED targetDirs
     \/ /\ targetDirs' = targetDirs \cup {PairOf(h)}
        /\ \/ AnswerError(h)
           \/ bound[PairOf(h)] # None /\ AnswerPublished(h)
           \/ bound[PairOf(h)] = None /\ GoTo(h, "bind") /\ UNCHANGED dev
  /\ UNCHANGED <<deviceVars, stageMounts, stageDirs, bound, grown, resizeFailed, counters>>

(* A mistake: not asking whether the staging path is mounted. *)
BindUnstaged(h) ==
  LET v == vol[h]
      source == IF v \in BlockVolume THEN device[v] ELSE Top(stageMounts[v])
  IN /\ pc[h] = "bind"
     /\ bound' = [bound EXCEPT ![PairOf(h)] = source]
     /\ AnswerPublished(h)
     /\ UNCHANGED <<deviceVars, stageMounts, stageDirs, targetDirs, grown, resizeFailed, counters>>

(* The bind mount: of the device itself, or of what is mounted at the      *)
(* staging path. *)
Bind(h) ==
  LET v == vol[h]
      source == IF v \in BlockVolume THEN device[v]
                ELSE Top(stageMounts[v])
  IN /\ pc[h] = "bind"
     /\ \/ AnswerError(h) /\ UNCHANGED bound
        \/ /\ source # None
           /\ bound' = [bound EXCEPT ![PairOf(h)] = source]
           /\ AnswerPublished(h)
     /\ UNCHANGED <<deviceVars, stageMounts, stageDirs, targetDirs, grown, resizeFailed, counters>>

(* NodeUnpublishVolume is CleanupMountPoint of mount-utils: a missing path *)
(* is success; otherwise unmount, look again, remove. *)
Unpublish(h) ==
  /\ pc[h] = "unpublish"
  /\ \/ AnswerError(h) /\ UNCHANGED bound
     \/ PairOf(h) \notin targetDirs /\ AnswerUnpublished(h) /\ UNCHANGED bound
     \/ /\ PairOf(h) \in targetDirs
        /\ bound' = [bound EXCEPT ![PairOf(h)] = None]
        /\ GoTo(h, "removeTarget") /\ UNCHANGED dev
  /\ UNCHANGED <<deviceVars, stageMounts, stageDirs, targetDirs, grown, resizeFailed, counters>>

RemoveTarget(h) ==
  /\ pc[h] = "removeTarget"
  /\ \/ AnswerError(h) /\ UNCHANGED targetDirs
     \/ /\ bound[PairOf(h)] = None
        /\ targetDirs' = targetDirs \ {PairOf(h)}
        /\ AnswerUnpublished(h)
  /\ UNCHANGED <<deviceVars, stageMounts, stageDirs, bound, grown, resizeFailed, counters>>
-----------------------------------------------------------------------------
(* The plugin is restarted, or the whole node is. *)
LoseHandlers ==
  /\ restarts < MaxRestarts
  /\ restarts' = restarts + 1
  /\ inFlight' = NewInFlight
  /\ pc'   = [h \in Handler |-> "idle"]
  /\ vol'  = [h \in Handler |-> None]
  /\ pod'  = [h \in Handler |-> None]
  /\ dev'  = [h \in Handler |-> None]
  /\ live' = [h \in Handler |-> FALSE]

Restart == LoseHandlers /\ UNCHANGED <<deviceVars, mountVars, kubeletVars, attaches>>

Reboot ==
  /\ LoseHandlers
  /\ stageMounts' = [v \in Volume |-> <<>>]
  /\ bound' = [p \in Pair |-> None]
  /\ staged' = {} /\ stageMaybe' = {} /\ published' = {} /\ publishMaybe' = {}
  /\ UNCHANGED <<deviceVars, stageDirs, targetDirs, grown, resizeFailed, attaches>>

(* The controller attaches the volume; the kernel does not reuse the name  *)
(* of a device that is attached or still mounted. *)
Attach(v) ==
  /\ device[v] = None
  /\ attaches < MaxAttaches
  /\ attaches' = attaches + 1
  /\ \E d \in Device :
       /\ \A w \in Volume : device[w] # d /\ \A i \in DOMAIN stageMounts[w] : stageMounts[w][i] # d
       /\ \A p \in Pair : bound[p] # d
       /\ device' = [device EXCEPT ![v] = d]
  /\ UNCHANGED <<handlerVars, pulled, mountVars, kubeletVars, restarts>>

(* Nothing on the node may still use the volume, as far as the kubelet knows. *)
MayUse(v) == v \in stageMaybe \/ \E p \in publishMaybe : p[1] = v

Detach(v) ==
  /\ device[v] # None
  /\ AbruptDetach \/ ~MayUse(v)
  /\ device' = [device EXCEPT ![v] = None]
  /\ pulled' = IF MayUse(v) THEN pulled \cup {v} ELSE pulled \ {v}
  /\ UNCHANGED <<handlerVars, mountVars, kubeletVars, counters>>
-----------------------------------------------------------------------------
HandlerStep(h) ==
  \/ Stage(h) \/ StageCheck(h) \/ FormatAndMount(h) \/ Resize(h)
  \/ Unstage(h) \/ RemoveStage(h)
  \/ Publish(h) \/ Bind(h)
  \/ Unpublish(h) \/ RemoveTarget(h)

Next ==
  \/ \E h \in Handler :
       \/ CallStage(h) \/ CallUnstage(h) \/ CallPublish(h) \/ CallUnpublish(h)
       \/ Deadline(h) \/ HandlerStep(h)
  \/ Restart \/ Reboot
  \/ \E v \in Volume : Attach(v) \/ Detach(v)

Spec == Init /\ [][Next]_vars
-----------------------------------------------------------------------------
(* Properties. *)

(* nodesvc.go:61-159: a volume the kubelet believes to be staged has its   *)
(* device mounted at the staging path, once, whatever earlier calls were   *)
(* cut short by a deadline or a restart, unless its device has vanished.   *)
StagedIsMounted ==
  \A v \in staged \ (BlockVolume \cup pulled) : stageMounts[v] = <<device[v]>>

(* nodesvc.go:202-281: a pod the kubelet believes to have the volume has   *)
(* the volume's device at its target path, under the same condition.       *)
PublishedIsBound ==
  \A p \in published :
    p[1] \in pulled \/ (bound[p] # None /\ bound[p] = device[p[1]])

(* nodesvc.go:161-200, 283-307: when the kubelet is done with a volume,    *)
(* nothing of it is mounted on the node, so the controller may detach it.  *)
(* Holds even when a detach was forced earlier and mounts have piled up.   *)
DoneIsUnmounted ==
  \A v \in Volume :
    /\ v \notin stageMaybe => stageMounts[v] = <<>>
    /\ \A q \in Pod : <<v, q>> \notin publishMaybe => bound[<<v, q>>] = None

(* nodesvc.go:137-154, "pv is created from snapshot, add resizefs check":  *)
(* NodeStageVolume reports a failed resize as an error, so a volume that   *)
(* is answered staged is not one whose filesystem could not be resized.    *)
StagedIsResized == (staged \cap resizeFailed) \subseteq grown

(* nodesvc.go:67-73, 167-173, 208-214, 288-294: the four RPCs of a volume  *)
(* exclude each other.                                                     *)
Exclusive == INSTANCE ExclusiveOps
               WITH Worker <- Handler, Key <- Volume, NoKey <- None, workingOn <- vol
ImplementsExclusion == Exclusive!Spec
=============================================================================
