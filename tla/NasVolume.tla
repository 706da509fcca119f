------------------------------ MODULE NasVolume ------------------------------
(***************************************************************************)
(* The life of NAS volumes: the controller, the node plugin, the           *)
(* provisioner, the kubelet and the pods, around one NFS share.            *)
(***************************************************************************)
EXTENDS NasController, NasNode

(* The claim is given back once no pod uses the volume any more.           *)
Release(v) ==
  /\ stage[v] = "bound"
  /\ \A p \in Pod : VolumeOf[p] = v => stage[p] = "stopped"
  /\ stage' = [stage EXCEPT ![v] = "deleting"]
  /\ UNCHANGED <<share, mounts, calls, caller, overtaken, failures, timeouts>>

(* A pod that runs writes to what is mounted at its target.                *)
Write(p) ==
  LET v == VolumeOf[p]
  IN /\ stage[p] = "running" /\ ~Free(<<"target", p>>) /\ dir[v] # "none"
     /\ dir' = [dir EXCEPT ![v] = "data"]
     /\ wrote' = wrote \cup {v}
     /\ UNCHANGED <<policy, base, archive, mounts, calls, client, failures>>

Step(h) == MountStep(h) \/ ControllerStep(h) \/ NodeStep(h)

SendFor(v) == \E h \in Call : CallCreate(h, v) \/ CallDelete(h, v)
SendPod(p) == \E h \in Call : CallPublish(h, p) \/ CallUnpublish(h, p)

Next ==
  \/ \E h \in Call : Step(h)
  \/ \E c \in Client : GiveUp(c)
  \/ \E v \in Volume : SendFor(v) \/ Release(v)
  \/ \E p \in Pod : SendPod(p) \/ DeletePod(p) \/ Write(p)
  \/ ControllerRestart \/ NodeRestart

Spec == Init /\ [][Next]_vars

(* A handler is a goroutine that keeps running; the provisioner and the    *)
(* kubelet keep repeating what has not succeeded.                          *)
FairSpec ==
  /\ Spec
  /\ \A h \in Call : WF_vars(Step(h))
  /\ \A v \in Volume : WF_vars(SendFor(v))
  /\ \A p \in Pod : WF_vars(SendPod(p))

-----------------------------------------------------------------------------
(* A volume the provisioner has heard OK for has its directory on the      *)
(* share: no call that wrote into its own container instead ever answers   *)
(* OK (CreateVolume, controllerserver.go:99-118).  A failed mkdir spoils   *)
(* it: the unmount at :107 takes the share away from the other calls.      *)
BoundHasDir ==
  "mkdir" \notin failed => \A v \in Volume : stage[v] = "bound" => dir[v] # "none"

(* Once DeleteVolume is answered OK the volume's data is not in its        *)
(* directory any more: it was removed or archived                          *)
(* (controllerserver.go:204-232).  A removal that fails, or does not begin *)
(* because archiveOnDelete does not parse, spoils it: the deferred unmount *)
(* shows a second call an empty directory, answered as "does not exist".   *)
DeletedIsGone ==
  failed \cap {"remove", "rename"} = {}
    => \A v \in Volume :
         stage[v] = "gone" /\ policy[v] # "invalid" => dir[v] # "data"

(* What a pod wrote is never lost unless the class asks for deletion, an   *)
(* archiveOnDelete that does not parse included, however calls overlap: it *)
(* is in the directory or in the archive (controllerserver.go:210-231).    *)
ArchiveKeepsData ==
  \A v \in wrote :
    policy[v] # "delete" => dir[v] = "data" \/ "data" \in archive[v]

(* When no handler runs, the scratch mount points are unmounted, unless an *)
(* unmount has failed: overlapping calls leave nothing behind              *)
(* (controllerserver.go:107, 114, 202).                                    *)
NothingLeftMounted ==
  (\A h \in Call : calls[h] = Idle) /\ "unmount" \notin failed
    => \A p \in mounts : p[1] \notin {"create", "delete"}

(* A pod that was told its volume is published has it mounted, and the     *)
(* directory is there: neither a mount the handler took for granted nor    *)
(* one that another call took away (nodeserver.go:70-114, utils.go:86,     *)
(* 104).                                                                   *)
RunningSeesVolume ==
  \A p \in Pod :
    stage[p] = "running" => ~Free(<<"target", p>>) /\ dir[VolumeOf[p]] # "none"

(* After an OK of NodeUnpublishVolume nothing is mounted for the pod,      *)
(* unless a publish the kubelet had given up was still running: no table   *)
(* keeps it from mounting the target afterwards (nodeserver.go:130-139).   *)
StoppedIsUnmounted ==
  \A p \in Pod \ overtaken : stage[p] = "stopped" => Free(<<"target", p>>)

(* Nobody waits for ever: every claim is provisioned, every released       *)
(* volume is answered as deleted, every pod of a bound volume gets it and  *)
(* every deleted pod gets rid of it, whatever failed calls, calls given up *)
(* and restarts have left mounted or unmade (utils.go:59-140,              *)
(* nodeserver.go:56-139).  Only an archiveOnDelete that does not parse,    *)
(* which CreateVolume accepts, makes DeleteVolume fail for ever            *)
(* (controllerserver.go:213).  No stage comes back, so it is enough that   *)
(* in the end nobody waits.                                                *)
Waits(c) ==
  \/ c \in Volume /\ stage[c] = "creating"
  \/ c \in Volume /\ stage[c] = "deleting" /\ policy[c] # "invalid"
  \/ c \in Pod /\ stage[c] = "starting" /\ stage[VolumeOf[c]] = "bound"
  \/ c \in Pod /\ stage[c] = "stopping"
EveryoneServed == <>[](\A c \in Client : ~Waits(c))
=============================================================================
