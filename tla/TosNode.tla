------------------------------- MODULE TosNode -------------------------------
(***************************************************************************)
(* NodePublishVolume and NodeUnpublishVolume of the TOS plugin             *)
(* (pkg/tos/nodeserver.go, util.go) and the launcher that runs s3fs for it *)
(* (build/tosplugin/launcher.go).                                          *)
(*                                                                         *)
(* A publish mounts the bucket at a temporary path to create the           *)
(* sub-directory there, takes that mount away, and mounts the              *)
(* sub-directory at the target path.  All paths belong to one pod and one  *)
(* volume, so the module follows one such pair.  There is no in-flight     *)
(* table, and the handlers ignore their context.  The credential file and  *)
(* the temporary path are on the host and survive the plugin.              *)
(*                                                                         *)
(* The kubelet waits for one answer at a time.  It publishes until the pod *)
(* is deleted, then unpublishes until that succeeds.  s3fs mounts after    *)
(* its command has returned, and may fail without a word.  One that dies   *)
(* leaves its mount behind: a path on which everything fails but umount.   *)
(* The s3fs processes live in the container of the launcher (the launcher  *)
(* has a DaemonSet of its own) and all die with it.                        *)
(***************************************************************************)
EXTENDS Integers, FiniteSets

CONSTANTS
  Handler,     \* goroutines serving RPCs
  MaxFaults,   \* bound on the calls to the system that fail
  MaxTimeouts, \* bound on the calls the kubelet gives up
  MaxRestarts  \* bound on the processes that die: the plugin, the launcher, an s3fs

ASSUME TosAssumption ==
  /\ MaxFaults \in Nat /\ MaxTimeouts \in Nat /\ MaxRestarts \in Nat

VARIABLES
  pc,        \* where each handler is
  live,      \* the kubelet still waits for its answer
  cred,      \* the credential file: none, torn or full
  dir,       \* existing paths
  litter,    \* the sub-directory exists in the temporary path itself
  mounts,    \* number of mounts on each path
  dead,      \* which of them have lost their s3fs: <<path, number>>
  pending,   \* number of s3fs started for a path that have not mounted yet
  sub,       \* the bucket has the sub-directory
  deleted,   \* the pod is deleted
  published, \* history: Publish was answered OK, Unpublish not called since
  done,      \* history: Unpublish was answered OK
  odd,       \* history: what has happened of the things in Odd
  faults, timeouts, restarts

host    == <<cred, dir, litter, mounts, dead, pending, sub>>
kubelet == <<deleted, published, done>>
bounds  == <<faults, timeouts, restarts>>
vars == <<pc, live, host, kubelet, odd, bounds>>
-----------------------------------------------------------------------------
Path == {"tmp", "target"}
AllMounts == UNION {{p} \X (1..mounts[p]) : p \in Path}
MountPc == [p \in Path |-> IF p = "tmp" THEN "tmpMount" ELSE "targetMount"]
PublishPc == {"cred", "writeCred", "tmpDir", "tmpCheck", "tmpMount", "tmpWait", "subDir",
              "tmpUmount", "tmpRemove", "targetDir", "targetCheck", "targetMount",
              "targetWait", "cleanTmp", "cleanTarget"}
Pc == {"idle", "unpublish"} \cup PublishPc

(* Things after which the handlers promise less: a publish of what is      *)
(* published already; a publish called while another one is running; an    *)
(* unpublish called while a publish is running or an s3fs is starting; and *)
(* a second s3fs that mounts over the first.                               *)
Odd == {"repeated", "overlap", "early", "twice"}

Publishing == {h \in Handler : pc[h] \in PublishPc}

TypeOK ==
  /\ pc \in [Handler -> Pc]
  /\ live \in [Handler -> BOOLEAN]
  /\ cred \in {"none", "torn", "full"}
  /\ dir \subseteq Path
  /\ litter \in BOOLEAN /\ sub \in BOOLEAN
  /\ mounts \in [Path -> Nat] /\ pending \in [Path -> Nat]
  /\ dead \subseteq AllMounts
  /\ \A p \in Path \ dir : mounts[p] = 0
  /\ \A h \in Handler : pc[h] \in PublishPc \ {"cred"} => cred # "none"
  /\ deleted \in BOOLEAN /\ published \in BOOLEAN /\ done \in BOOLEAN
  /\ odd \subseteq Odd
  /\ faults \in 0..MaxFaults /\ timeouts \in 0..MaxTimeouts /\ restarts \in 0..MaxRestarts

Init ==
  /\ pc = [h \in Handler |-> "idle"]
  /\ live = [h \in Handler |-> FALSE]
  /\ cred = "none" /\ dir = {} /\ litter = FALSE /\ sub = FALSE
  /\ mounts = [p \in Path |-> 0] /\ dead = {} /\ pending = [p \in Path |-> 0]
  /\ deleted = FALSE /\ published = FALSE /\ done = FALSE /\ odd = {}
  /\ faults = 0 /\ timeouts = 0 /\ restarts = 0
-----------------------------------------------------------------------------
(* The kubelet. *)

Quiet == \A h \in Handler : ~live[h]

Begin(h, start) ==
  /\ pc[h] = "idle" /\ Quiet
  /\ pc'   = [pc EXCEPT ![h] = start]
  /\ live' = [live EXCEPT ![h] = TRUE]

CallPublish(h) ==
  /\ ~deleted
  /\ Begin(h, "cred")
  /\ odd' = odd \cup (IF published THEN {"repeated"} ELSE {})
                \cup (IF Publishing # {} THEN {"overlap"} ELSE {})
  /\ UNCHANGED <<host, kubelet, bounds>>

CallUnpublish(h) ==
  /\ deleted
  /\ Begin(h, "unpublish")
  /\ published' = FALSE /\ done' = FALSE
  /\ odd' = odd \cup (IF Publishing # {} \/ pending["target"] > 0 THEN {"early"} ELSE {})
  /\ UNCHANGED <<host, deleted, bounds>>

DeletePod ==
  /\ ~deleted
  /\ deleted' = TRUE
  /\ UNCHANGED <<pc, live, host, published, done, odd, bounds>>

GiveUp(h) ==
  /\ live[h] /\ timeouts < MaxTimeouts
  /\ timeouts' = timeouts + 1
  /\ live' = [live EXCEPT ![h] = FALSE]
  /\ UNCHANGED <<pc, host, kubelet, odd, faults, restarts>>
-----------------------------------------------------------------------------
(* The pieces of a handler. *)

GoTo(h, next) == pc' = [pc EXCEPT ![h] = next] /\ UNCHANGED <<live, published, done, odd>>

Return(h) ==
  /\ pc'   = [pc EXCEPT ![h] = "idle"]
  /\ live' = [live EXCEPT ![h] = FALSE]
  /\ UNCHANGED odd

AnswerError(h) == Return(h) /\ UNCHANGED <<published, done>>

(* An error after the deferred cleanup is registered. *)
Cleanup(h) == GoTo(h, "cleanTmp")

Succeeds == UNCHANGED faults
Fails    == faults < MaxFaults /\ faults' = faults + 1

IsMounted(p) == mounts[p] > 0

(* stat and mkdir of a path: if the s3fs of its last mount is dead, both fail. *)
Usable(p) == <<p, mounts[p]>> \notin dead
Breaks(p) == (~Usable(p) /\ Succeeds) \/ Fails

Mount(p) == mounts' = [mounts EXCEPT ![p] = @ + 1] /\ UNCHANGED dead

(* umount takes the last mount off, dead or not; it fails when there is none. *)
Unmount(p) ==
  /\ IsMounted(p)
  /\ mounts' = [mounts EXCEPT ![p] = @ - 1]
  /\ dead' = dead \ {<<p, mounts[p]>>}
-----------------------------------------------------------------------------
(* A mistake: a file that cannot be looked at is taken for one. *)
StatErrorIgnored(h) ==
  /\ pc[h] = "cred"
  /\ \/ cred # "none" /\ Succeeds /\ GoTo(h, "tmpDir") /\ UNCHANGED cred
     \/ cred = "none" /\ Succeeds /\ GoTo(h, "writeCred") /\ cred' = "torn"
     \/ Fails /\ GoTo(h, "tmpDir") /\ UNCHANGED cred
  /\ UNCHANGED <<dir, litter, mounts, dead, pending, sub>>

(* createCredentialFile: a file of that name is taken for a complete one.  *)
StatCred(h) ==
  /\ pc[h] = "cred"
  /\ \/ cred # "none" /\ Succeeds /\ GoTo(h, "tmpDir") /\ UNCHANGED cred
     \/ cred = "none" /\ Succeeds /\ GoTo(h, "writeCred") /\ cred' = "torn"
     \/ Fails /\ AnswerError(h) /\ UNCHANGED cred
  /\ UNCHANGED <<dir, litter, mounts, dead, pending, sub>>

WriteCred(h) ==
  /\ pc[h] = "writeCred"
  /\ \/ Succeeds /\ cred' = "full" /\ GoTo(h, "tmpDir")
     \/ Fails /\ AnswerError(h) /\ UNCHANGED cred
  /\ UNCHANGED <<dir, litter, mounts, dead, pending, sub>>

(* A mistake: Mkdir, which fails when the path exists. *)
MakeTmpDirOnce(h) ==
  /\ pc[h] = "tmpDir"
  /\ \/ "tmp" \notin dir /\ Succeeds /\ dir' = {"tmp"} \cup dir /\ GoTo(h, "tmpCheck")
     \/ "tmp" \in dir /\ Succeeds /\ AnswerError(h) /\ UNCHANGED dir
  /\ UNCHANGED <<cred, litter, mounts, dead, pending, sub>>

(* MkdirAll of the temporary path. *)
MakeTmpDir(h) ==
  /\ pc[h] = "tmpDir"
  /\ \/ Usable("tmp") /\ Succeeds /\ dir' = dir \cup {"tmp"} /\ GoTo(h, "tmpCheck")
     \/ Breaks("tmp") /\ AnswerError(h) /\ UNCHANGED dir
  /\ UNCHANGED <<cred, litter, mounts, dead, pending, sub>>

(* An error here is still returned without the cleanup. *)
CheckTmp(h) ==
  /\ pc[h] = "tmpCheck"
  /\ Succeeds
  /\ IF "tmp" \in dir /\ Usable("tmp")
     THEN GoTo(h, IF IsMounted("tmp") THEN "tmpWait" ELSE "tmpMount")
     ELSE AnswerError(h)
  /\ UNCHANGED host

(* The launcher runs s3fs and answers when the command has returned; an    *)
(* error may come from s3fs or from a lost answer.                         *)
Launch(h, p, next) ==
  /\ \/ /\ Succeeds /\ cred = "full" /\ GoTo(h, next)
        /\ pending' = [pending EXCEPT ![p] = @ + 1]
     \/ cred # "full" /\ Succeeds /\ Cleanup(h) /\ UNCHANGED pending
     \/ /\ Fails /\ Cleanup(h)
        /\ \/ UNCHANGED pending
           \/ cred = "full" /\ pending' = [pending EXCEPT ![p] = @ + 1]
  /\ UNCHANGED <<cred, dir, litter, mounts, dead, sub>>

MountTmp(h)    == pc[h] = "tmpMount" /\ Launch(h, "tmp", "tmpWait")
MountTarget(h) == pc[h] = "targetMount" /\ Launch(h, "target", "targetWait")

(* checkTosMounted finds the mount, or gives up after four seconds: too    *)
(* early for an s3fs that still has to mount.                              *)
CheckTosMounted(p) ==
  \/ IsMounted(p) /\ Succeeds
  \/ ~IsMounted(p) /\ (IF pending[p] > 0 THEN Fails ELSE Succeeds)

(* A mistake: the command has returned, so the bucket must be mounted. *)
TmpNotAwaited(h) ==
  /\ pc[h] = "tmpWait"
  /\ Succeeds /\ GoTo(h, "subDir")
  /\ UNCHANGED host

WaitTmp(h) ==
  /\ pc[h] = "tmpWait"
  /\ CheckTosMounted("tmp")
  /\ IF IsMounted("tmp") /\ Usable("tmp") THEN GoTo(h, "subDir") ELSE Cleanup(h)
  /\ UNCHANGED host

(* MkdirAll of the sub-directory, in the bucket if it is still mounted. *)
MakeSubDir(h) ==
  /\ pc[h] = "subDir"
  /\ \/ Breaks("tmp") /\ Cleanup(h) /\ UNCHANGED <<dir, litter, sub>>
     \/ /\ Usable("tmp") /\ Succeeds /\ GoTo(h, "tmpUmount")
        /\ dir' = dir \cup {"tmp"}
        /\ IF IsMounted("tmp") THEN sub' = TRUE /\ UNCHANGED litter
                               ELSE litter' = TRUE /\ UNCHANGED sub
  /\ UNCHANGED <<cred, mounts, dead, pending>>

UnmountTmp(h) ==
  /\ pc[h] = "tmpUmount"
  /\ \/ Unmount("tmp") /\ Succeeds /\ GoTo(h, "tmpRemove")
     \/ ~IsMounted("tmp") /\ Succeeds /\ Cleanup(h) /\ UNCHANGED <<mounts, dead>>
     \/ Fails /\ Cleanup(h) /\ UNCHANGED <<mounts, dead>>
  /\ UNCHANGED <<cred, dir, litter, pending, sub>>

(* os.Remove: only an empty directory that nothing is mounted on. *)
RemoveTmp(h) ==
  /\ pc[h] = "tmpRemove"
  /\ IF "tmp" \in dir /\ ~IsMounted("tmp") /\ ~litter
     THEN \/ Succeeds /\ dir' = dir \ {"tmp"} /\ GoTo(h, "targetDir")
          \/ Fails /\ Cleanup(h) /\ UNCHANGED dir
     ELSE Succeeds /\ Cleanup(h) /\ UNCHANGED dir
  /\ UNCHANGED <<cred, litter, mounts, dead, pending, sub>>

MakeTargetDir(h) ==
  /\ pc[h] = "targetDir"
  /\ \/ Usable("target") /\ Succeeds /\ dir' = dir \cup {"target"} /\ GoTo(h, "targetCheck")
     \/ Breaks("target") /\ Cleanup(h) /\ UNCHANGED dir
  /\ UNCHANGED <<cred, litter, mounts, dead, pending, sub>>

AnswerPublished(h) ==
  /\ Return(h)
  /\ published' = (published \/ live[h])
  /\ UNCHANGED done

CheckTarget(h) ==
  /\ pc[h] = "targetCheck"
  /\ CASE ~Usable("target")    -> Cleanup(h)
       [] ~IsMounted("target") -> GoTo(h, "targetMount")
       [] OTHER                -> AnswerPublished(h)
  /\ Succeeds /\ UNCHANGED host

(* A mistake: the same for the target. *)
TargetNotAwaited(h) ==
  /\ pc[h] = "targetWait"
  /\ AnswerPublished(h)
  /\ Succeeds /\ UNCHANGED host

WaitTarget(h) ==
  /\ pc[h] = "targetWait"
  /\ CheckTosMounted("target")
  /\ IF IsMounted("target") /\ Usable("target") THEN AnswerPublished(h) ELSE Cleanup(h)
  /\ UNCHANGED host

(* The deferred cleanup unmounts both paths, whatever is there, and        *)
(* ignores what comes of it.                                               *)
CleanTmp(h) ==
  /\ pc[h] = "cleanTmp"
  /\ \/ Unmount("tmp") /\ Succeeds
     \/ (IF IsMounted("tmp") THEN Fails ELSE Succeeds) /\ UNCHANGED <<mounts, dead>>
  /\ GoTo(h, "cleanTarget")
  /\ UNCHANGED <<cred, dir, litter, pending, sub>>

CleanTarget(h) ==
  /\ pc[h] = "cleanTarget"
  /\ \/ Unmount("target") /\ Succeeds
     \/ (IF IsMounted("target") THEN Fails ELSE Succeeds) /\ UNCHANGED <<mounts, dead>>
  /\ AnswerError(h)
  /\ UNCHANGED <<cred, dir, litter, pending, sub>>
-----------------------------------------------------------------------------
(* NodeUnpublishVolume. *)

AnswerUnpublished(h) ==
  /\ Return(h)
  /\ done' = (done \/ live[h])
  /\ UNCHANGED published

(* A mistake: any failed umount counts as "not mounted". *)
UnpublishAnyFailure(h) ==
  /\ pc[h] = "unpublish"
  /\ AnswerUnpublished(h)
  /\ \/ Unmount("target") /\ Succeeds
     \/ ~IsMounted("target") /\ Succeeds /\ UNCHANGED <<mounts, dead>>
     \/ Fails /\ UNCHANGED <<mounts, dead>>
  /\ UNCHANGED <<cred, dir, litter, pending, sub>>

(* A mistake: "not mounted" is an error as well. *)
UnpublishMustUnmount(h) ==
  /\ pc[h] = "unpublish"
  /\ \/ Unmount("target") /\ Succeeds /\ AnswerUnpublished(h)
     \/ ~IsMounted("target") /\ Succeeds /\ AnswerError(h) /\ UNCHANGED <<mounts, dead>>
  /\ UNCHANGED <<cred, dir, litter, pending, sub>>

(* "not mounted" is success, every other failure is an error. *)
Unpublish(h) ==
  /\ pc[h] = "unpublish"
  /\ \/ Unmount("target") /\ Succeeds /\ AnswerUnpublished(h)
     \/ ~IsMounted("target") /\ Succeeds /\ AnswerUnpublished(h) /\ UNCHANGED <<mounts, dead>>
     \/ Fails /\ AnswerError(h) /\ UNCHANGED <<mounts, dead>>
  /\ UNCHANGED <<cred, dir, litter, pending, sub>>
-----------------------------------------------------------------------------
(* s3fs and the plugin process. *)

(* s3fs mounts on an empty directory, the sub-directory only if the bucket *)
(* has it.  What is mounted there already may be empty or not.             *)
MountPointFit(p) ==
  /\ p \in dir /\ Usable(p)
  /\ p = "target" => sub
  /\ p = "tmp" /\ litter => IsMounted("tmp")

MountAppears ==
  /\ \E p \in Path :
       /\ pending[p] > 0
       /\ pending' = [pending EXCEPT ![p] = @ - 1]
       /\ \/ /\ MountPointFit(p) /\ Succeeds
             /\ Mount(p)
             /\ odd' = odd \cup (IF p = "target" /\ IsMounted(p) THEN {"twice"} ELSE {})
          \/ /\ IF MountPointFit(p) /\ ~IsMounted(p) THEN Fails ELSE Succeeds
             /\ UNCHANGED <<mounts, dead, odd>>
  /\ UNCHANGED <<pc, live, cred, dir, litter, sub, kubelet, timeouts, restarts>>

S3fsDies ==
  /\ restarts < MaxRestarts
  /\ restarts' = restarts + 1
  /\ \E m \in AllMounts \ dead : dead' = dead \cup {m}
  /\ UNCHANGED <<pc, live, cred, dir, litter, mounts, pending, sub, kubelet, odd,
                 faults, timeouts>>

(* The launcher's container is replaced: every s3fs it has started dies,   *)
(* and the requests it has not answered are errors.                        *)
LauncherRestart ==
  /\ restarts < MaxRestarts
  /\ restarts' = restarts + 1
  /\ dead' = AllMounts
  /\ pending' = [p \in Path |-> 0]
  /\ \E cut \in SUBSET {h \in Handler : \E p \in Path : pc[h] = MountPc[p]} :
       pc' = [h \in Handler |-> IF h \in cut THEN "cleanTmp" ELSE pc[h]]
  /\ UNCHANGED <<live, cred, dir, litter, mounts, sub, kubelet, odd, faults, timeouts>>

(* The launcher goes on without the plugin: what it was asked to start     *)
(* when the plugin stops may still be started.                             *)
Restart ==
  /\ restarts < MaxRestarts
  /\ restarts' = restarts + 1
  /\ pc'   = [h \in Handler |-> "idle"]
  /\ live' = [h \in Handler |-> FALSE]
  /\ \/ UNCHANGED pending
     \/ \E h \in Handler, p \in Path :
          /\ pc[h] = MountPc[p] /\ cred = "full"
          /\ pending' = [pending EXCEPT ![p] = @ + 1]
  /\ UNCHANGED <<cred, dir, litter, mounts, dead, sub, kubelet, odd, faults, timeouts>>
-----------------------------------------------------------------------------
PublishStep(h) ==
  \/ StatCred(h) \/ WriteCred(h) \/ MakeTmpDir(h) \/ CheckTmp(h) \/ MountTmp(h) \/ WaitTmp(h)
  \/ MakeSubDir(h) \/ UnmountTmp(h) \/ RemoveTmp(h)
  \/ MakeTargetDir(h) \/ CheckTarget(h) \/ MountTarget(h) \/ WaitTarget(h)
  \/ CleanTmp(h) \/ CleanTarget(h)

HandlerStep(h) ==
  /\ PublishStep(h) \/ Unpublish(h)
  /\ UNCHANGED <<deleted, timeouts, restarts>>

Next ==
  \/ \E h \in Handler :
       CallPublish(h) \/ CallUnpublish(h) \/ GiveUp(h) \/ HandlerStep(h)
  \/ DeletePod \/ MountAppears \/ S3fsDies \/ LauncherRestart \/ Restart

Spec == Init /\ [][Next]_vars

(* Goroutines run, an s3fs that was started mounts or ends, and the        *)
(* kubelet repeats its calls.                                              *)
Fairness ==
  /\ \A h \in Handler : WF_vars(HandlerStep(h))
  /\ WF_vars(MountAppears)
  /\ WF_vars(\E h \in Handler : CallPublish(h) \/ CallUnpublish(h))

FairSpec == Spec /\ Fairness
-----------------------------------------------------------------------------
(* Properties. *)

(* nodeserver.go:150: what the kubelet was told is published stays mounted *)
(* at the target path until it asks for it to be unpublished; unless       *)
(* publishes overlap, or one that is repeated fails at the temporary path, *)
(* whose cleanup takes the target away as well.                            *)
PublishedIsMounted ==
  published /\ odd \cap {"repeated", "overlap"} = {} => IsMounted("target")

(* nodeserver.go:165 and 173: after an OK of NodeUnpublishVolume nothing   *)
(* is mounted at the target, however publishes overlapped before, unless   *)
(* one was still running or a second s3fs had mounted over the first.      *)
DoneIsUnmounted == done /\ odd \cap {"early", "twice"} = {} => ~IsMounted("target")

(* nodeserver.go:79-111: when the handler gets past the temporary mount,   *)
(* the bucket has the sub-directory it is going to mount, unless another   *)
(* publish has unmounted the temporary path under it.                      *)
SubPathCreated ==
  \A h \in Handler :
    pc[h] \in {"tmpUmount", "tmpRemove", "targetDir", "targetCheck", "targetMount"}
      => sub \/ "overlap" \in odd

(* Whatever a failed publish leaves mounted or lying about, a later one    *)
(* succeeds, also after s3fs processes and the launcher have died.  Except *)
(* for a credential file that was cut short, which every retry takes for a *)
(* complete one (util.go:118); a dead s3fs on the temporary path, found    *)
(* before the cleanup is registered (nodeserver.go:80-89); and a           *)
(* sub-directory that overlapping publishes have made in that path itself. *)
Published ==
  \/ <>(published \/ deleted \/ litter)
  \/ <>[](cred = "torn") \/ <>[]~Usable("tmp")

(* The volume of a deleted pod is unpublished in the end.                  *)
Unpublished == deleted ~> done
=============================================================================
