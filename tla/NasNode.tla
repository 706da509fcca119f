------------------------------- MODULE NasNode -------------------------------
(***************************************************************************)
(* The node plugin of the NAS driver (pkg/nas/nodeserver.go) and the       *)
(* kubelet that calls it.  NodePublishVolume mounts the volume's directory *)
(* on the target path of a pod; when that fails it makes the directory     *)
(* itself, through a temporary mount of the share that all pods of the     *)
(* volume on this node have in common, and tries again.  Target paths are  *)
(* mounted on the host: they survive the plugin.                           *)
(***************************************************************************)
EXTENDS NasMount

Target(h) == <<"target", calls[h].for>>

(* The kubelet publishes a volume that is bound until it hears OK or the   *)
(* pod is deleted, then unpublishes until it hears OK.                     *)
CallPublish(h, p) ==
  /\ stage[p] = "starting" /\ stage[VolumeOf[p]] = "bound"
  /\ Begin(h, p, "publish", "check")
  /\ UNCHANGED overtaken

Publishing(p) == \E h \in Call : calls[h].op = "publish" /\ calls[h].for = p

CallUnpublish(h, p) ==
  /\ stage[p] = "stopping"
  /\ Begin(h, p, "unpublish", "unpublish")
  /\ overtaken' = IF Publishing(p) THEN overtaken \cup {p} ELSE overtaken

DeletePod(p) ==
  /\ stage[p] \in {"starting", "running"} /\ stage[VolumeOf[p]] = "bound"
  /\ caller[p] = NoCall
  /\ stage' = [stage EXCEPT ![p] = "stopping"]
  /\ UNCHANGED <<share, mounts, calls, caller, overtaken, failures, timeouts>>

-----------------------------------------------------------------------------
\* A target that cannot be looked at is taken for one that is mounted.
CheckErrorIgnored(h) ==
  /\ At(h, "check")
  /\ \/ UNCHANGED failures /\ Free(Target(h)) /\ GoTo(h, "grep")
     \/ UNCHANGED failures /\ ~Free(Target(h)) /\ Answer(h, TRUE)
     \/ Fails("stat") /\ Answer(h, TRUE)
  /\ UNCHANGED <<share, mounts>>

(* The check of the target path, which is made when it does not exist.     *)
Check(h) ==
  /\ At(h, "check")
  /\ \/ UNCHANGED failures /\ Free(Target(h)) /\ GoTo(h, "grep")
     \/ UNCHANGED failures /\ ~Free(Target(h)) /\ Answer(h, TRUE)
     \/ Fails("stat") /\ Answer(h, FALSE)
  /\ UNCHANGED <<share, mounts>>

\* Any failed umount counts as "not mounted".
UnpublishAnyFailure(h) ==
  /\ At(h, "unpublish")
  /\ Unmounts(Target(h)) \/ UnmountFails(Target(h))
  /\ Answer(h, TRUE)
  /\ UNCHANGED share

(* umount -f: "not mounted" is success, any other failure is an error.     *)
Unpublish(h) ==
  /\ At(h, "unpublish")
  /\ \/ Unmounts(Target(h)) /\ Answer(h, TRUE)
     \/ Works(Free(Target(h))) /\ Answer(h, TRUE) /\ UNCHANGED mounts
     \/ Fails("unmount") /\ Answer(h, FALSE) /\ UNCHANGED mounts
  /\ UNCHANGED share

NodeStep(h) == Check(h) \/ Unpublish(h)

NodeRestart == RestartOf({"publish", "unpublish"}, {"nodetemp"})
=============================================================================
