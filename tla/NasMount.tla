------------------------------- MODULE NasMount -------------------------------
(***************************************************************************)
(* What the controller and the node of the NAS driver have in common       *)
(* (pkg/nas/utils.go): the NFS share, the mount tables, the handlers and   *)
(* those who call them, and the two functions that mount the share,        *)
(* doNfsMount and createNasSubDir.                                         *)
(*                                                                         *)
(* One action is one system call of a handler (mount, unmount, mkdir,      *)
(* stat, rename, remove), with the tests that need no system call folded   *)
(* into it.  No in-flight table keeps two handlers of one volume apart:    *)
(* csi-provisioner gives a call up after 15 seconds, the kubelet after two *)
(* minutes, and each sends another while the first still runs.             *)
(*                                                                         *)
(* A mount point and what is mounted on it determine each other: the       *)
(* share's subPath directory on "create" and "delete", the volume's own    *)
(* directory on the "target" of a pod, the root of the share on the        *)
(* temporary paths, of which controller and node have one each.            *)
(***************************************************************************)
EXTENDS Naturals

CONSTANTS Volume,       \* volume names: the PV's name is also the volume id
          Pod,          \* pods of one node that use the volumes
          VolumeOf,     \* the volume of each pod
          Call,         \* handlers that can run at once
          NoCall,       \* no call
          Policy,       \* the archiveOnDelete values of storage classes
          Fault,        \* the kinds of failure considered
          MaxFaults,    \* how many failures can happen, of whatever kinds
          MaxTimeouts   \* how many calls are given up

ASSUME NasAssumption ==
  /\ NoCall \notin Call
  /\ VolumeOf \in [Pod -> Volume]
  /\ Volume \cap Pod = {}
  /\ MaxFaults \in Nat /\ MaxTimeouts \in Nat

VARIABLES policy,   \* archiveOnDelete: "archive", "delete" or unparsable
          base,     \* the class's subPath directory: not on the share, there,
                    \* or the root of the share, which always is
          dir,      \* the volume's directory on the share
          archive,  \* what was archived of it
          wrote,    \* volumes a pod has written to
          mounts,   \* the mount tables of controller and node
          calls,    \* the running handlers
          stage,    \* how far its caller is with a volume or a pod
          caller,   \* the call whose answer is waited for
          overtaken,\* pods unpublished while a publish was still running
          failed,   \* history: which of the failures the properties name
                    \* have happened
          faults,   \* the number of all failures
          timeouts

share == <<policy, base, dir, archive, wrote>>
client == <<stage, caller, overtaken, timeouts>>
failures == <<failed, faults>>
vars == <<share, mounts, calls, client, failures>>

Client == Volume \cup Pod
VolumeFor(c) == IF c \in Pod THEN VolumeOf[c] ELSE c

Point == {"create", "delete", "temp", "nodetemp"} \X Volume
           \cup {"target"} \X Pod

Steps == {"getpv", "grep", "mount", "subcheck", "subclean", "submount",
          "submkdir", "subumount", "remount", "mkdir", "undo", "umount",
          "stat", "drop", "deferred", "check", "unpublish"}

Idle == [op |-> "none"]
Running == [op : {"create", "delete", "publish", "unpublish"},
            for : Client, pc : Steps, ok : BOOLEAN]

(* The stage an OK answer brings the caller to.                            *)
Reached == [create |-> "bound", delete |-> "gone",
            publish |-> "running", unpublish |-> "stopped"]

TypeOK ==
  /\ policy \in [Volume -> Policy]
  /\ base \in {"none", "dir", "root"}
  /\ dir \in [Volume -> {"none", "empty", "data"}]
  /\ archive \in [Volume -> SUBSET {"empty", "data"}]
  /\ wrote \subseteq Volume
  /\ mounts \subseteq Point
  /\ calls \in [Call -> Running \cup {Idle}]
  /\ \A v \in Volume : stage[v] \in {"creating", "bound", "deleting", "gone"}
  /\ \A p \in Pod : stage[p] \in {"starting", "running", "stopping", "stopped"}
  /\ caller \in [Client -> Call \cup {NoCall}]
  /\ overtaken \subseteq Pod
  /\ failed \subseteq Fault /\ faults \in 0 .. MaxFaults
  /\ timeouts \in 0 .. MaxTimeouts

Init ==
  /\ policy \in [Volume -> Policy]
  /\ base \in {"none", "dir", "root"}
  /\ dir = [v \in Volume |-> "none"]
  /\ archive = [v \in Volume |-> {}]
  /\ wrote = {}
  /\ mounts = {}
  /\ calls = [h \in Call |-> Idle]
  /\ stage = [c \in Client |-> IF c \in Pod THEN "starting" ELSE "creating"]
  /\ caller = [c \in Client |-> NoCall]
  /\ overtaken = {}
  /\ failed = {} /\ faults = 0
  /\ timeouts = 0

-----------------------------------------------------------------------------
(* A call arrives; what a step does besides its system call; the answer.   *)

Begin(h, c, op, pc) ==
  /\ calls[h] = Idle /\ caller[c] = NoCall
  /\ calls' = [calls EXCEPT ![h] = [op |-> op, for |-> c, pc |-> pc, ok |-> FALSE]]
  /\ caller' = [caller EXCEPT ![c] = h]
  /\ UNCHANGED <<share, mounts, stage, failures, timeouts>>

GiveUp(c) ==
  /\ caller[c] # NoCall /\ timeouts < MaxTimeouts
  /\ caller' = [caller EXCEPT ![c] = NoCall]
  /\ timeouts' = timeouts + 1
  /\ UNCHANGED <<share, mounts, calls, stage, overtaken, failures>>

At(h, pc) == calls[h] # Idle /\ calls[h].pc = pc
Vol(h) == VolumeFor(calls[h].for)

GoTo(h, pc) ==
  /\ calls' = [calls EXCEPT ![h].pc = pc]
  /\ UNCHANGED client

(* The handler returns: only a caller that still waits hears of it.        *)
Answer(h, ok) ==
  LET c == calls[h].for
  IN /\ calls' = [calls EXCEPT ![h] = Idle]
     /\ IF caller[c] = h
        THEN /\ caller' = [caller EXCEPT ![c] = NoCall]
             /\ stage' = IF ok THEN [stage EXCEPT ![c] = Reached[calls[h].op]] ELSE stage
        ELSE UNCHANGED <<stage, caller>>
     /\ UNCHANGED <<overtaken, timeouts>>

Named == {"mkdir", "unmount", "remove", "rename"}

Fails(kind) ==
  /\ kind \in Fault /\ faults < MaxFaults
  /\ failed' = failed \cup ({kind} \cap Named)
  /\ faults' = faults + 1

(* A system call that works whenever possible, and a failure of it: either *)
(* it could not work, or this once it did not.                             *)
Works(possible) == possible /\ UNCHANGED failures
Breaks(possible, kind) == (~possible /\ UNCHANGED failures) \/ Fails(kind)

-----------------------------------------------------------------------------
(* Where a handler mounts, and what.                                       *)

Mountpoint(h) ==   \* MntRootPath/<v>, MntRootPath/<v>-delete, or the target path
  IF calls[h].op = "publish" THEN <<"target", calls[h].for>> ELSE <<calls[h].op, Vol(h)>>

Temp(h) ==         \* TempMntPath/<v> of the controller or of the node
  <<IF calls[h].op = "publish" THEN "nodetemp" ELSE "temp", Vol(h)>>

SourceExists(h) == IF calls[h].op = "publish" THEN dir[Vol(h)] # "none" ELSE base # "none"

(* nfsPath = "/": there is no directory that createNasSubDir could make.   *)
ShareRoot(h) == calls[h].op # "publish" /\ base = "root"

(* mount(2) refuses a file system that is already on that mount point, and *)
(* a source that does not exist; umount(2) a path nothing is mounted on.   *)
Free(p) == p \notin mounts
Mounts(p, source) == Works(source /\ Free(p)) /\ mounts' = mounts \cup {p}
MountFails(p, source) == Breaks(source /\ Free(p), "mount") /\ UNCHANGED mounts
Unmounts(p) == Works(~Free(p)) /\ mounts' = mounts \ {p}
UnmountFails(p) == Breaks(~Free(p), "unmount") /\ UNCHANGED mounts

(* doNfsMount has returned nil.                                            *)
Proceed(h) ==
  CASE calls[h].op = "create"  -> GoTo(h, "mkdir")
    [] calls[h].op = "delete"  -> GoTo(h, "stat")
    [] calls[h].op = "publish" -> Answer(h, TRUE)

-----------------------------------------------------------------------------
(* doNfsMount and createNasSubDir.                                         *)

(* grep <mount point> /proc/mounts: the pattern MntRootPath/<v> matches    *)
(* the line of MntRootPath/<v>-delete as well, and both lines name the     *)
(* same share and path.                                                    *)
isNfsPathMounted(p) ==
  \/ p \in mounts
  \/ p[1] = "create" /\ <<"delete", p[2]>> \in mounts

Grep(h) ==
  /\ At(h, "grep")
  /\ IF isNfsPathMounted(Mountpoint(h)) THEN Proceed(h) ELSE GoTo(h, "mount")
  /\ UNCHANGED <<share, mounts, failures>>

\* A mount that failed is taken for one that is already there.
MountIgnoringFailure(h) ==
  /\ At(h, "mount")
  /\ \/ Mounts(Mountpoint(h), SourceExists(h))
     \/ MountFails(Mountpoint(h), SourceExists(h))
  /\ Proceed(h)
  /\ UNCHANGED share

Mount(h) ==
  /\ At(h, "mount")
  /\ \/ Mounts(Mountpoint(h), SourceExists(h)) /\ Proceed(h)
     \/ /\ MountFails(Mountpoint(h), SourceExists(h))
        /\ IF ShareRoot(h) THEN Answer(h, FALSE) ELSE GoTo(h, "subcheck")
  /\ UNCHANGED share

\* Nobody looks for what an earlier call has left on the temporary path.
SubCheckNothing(h) ==
  /\ At(h, "subcheck")
  /\ GoTo(h, "submount")
  /\ UNCHANGED <<share, mounts, failures>>

(* A path that cannot be looked at counts as no mount point.               *)
SubCheck(h) ==
  /\ At(h, "subcheck")
  /\ \/ /\ UNCHANGED failures
        /\ GoTo(h, IF Free(Temp(h)) THEN "submount" ELSE "subclean")
     \/ Fails("stat") /\ GoTo(h, "submount")
  /\ UNCHANGED <<share, mounts>>

SubClean(h) ==
  /\ At(h, "subclean")
  /\ \/ Unmounts(Temp(h)) /\ GoTo(h, "submount")
     \/ UnmountFails(Temp(h)) /\ Answer(h, FALSE)
  /\ UNCHANGED share

SubMount(h) ==
  /\ At(h, "submount")
  /\ \/ Mounts(Temp(h), TRUE) /\ GoTo(h, "submkdir")
     \/ MountFails(Temp(h), TRUE) /\ Answer(h, FALSE)
  /\ UNCHANGED share

(* The directory is made wherever TempMntPath/<v> leads at that moment: on *)
(* the share while it is mounted, in the container otherwise.  The node    *)
(* makes the volume's directory, the controller the one it is to be in.  A *)
(* failure returns with the mount left behind.                             *)
SubMkdir(h) ==
  LET v == Vol(h)
  IN /\ At(h, "submkdir")
     /\ \/ /\ UNCHANGED failures
           /\ base' = IF base = "none" /\ ~Free(Temp(h)) THEN "dir" ELSE base
           /\ dir' = IF calls[h].op = "publish" /\ ~Free(Temp(h)) /\ dir[v] = "none"
                     THEN [dir EXCEPT ![v] = "empty"] ELSE dir
           /\ GoTo(h, "subumount")
        \/ /\ Fails("submkdir") /\ UNCHANGED <<base, dir>> /\ Answer(h, FALSE)
     /\ UNCHANGED <<policy, archive, wrote, mounts>>

SubUmount(h) ==
  /\ At(h, "subumount")
  /\ \/ Unmounts(Temp(h)) /\ GoTo(h, "remount")
     \/ UnmountFails(Temp(h)) /\ Answer(h, FALSE)
  /\ UNCHANGED share

Remount(h) ==
  /\ At(h, "remount")
  /\ \/ Mounts(Mountpoint(h), SourceExists(h)) /\ Proceed(h)
     \/ MountFails(Mountpoint(h), SourceExists(h)) /\ Answer(h, FALSE)
  /\ UNCHANGED share

MountStep(h) ==
  \/ Grep(h) \/ Mount(h)
  \/ SubCheck(h) \/ SubClean(h) \/ SubMount(h) \/ SubMkdir(h) \/ SubUmount(h)
  \/ Remount(h)

(* A container restarts: its handlers and the mounts of its own namespace  *)
(* are gone.                                                               *)
RestartOf(ops, kinds) ==
  /\ Fails("restart")
  /\ mounts' = {p \in mounts : p[1] \notin kinds}
  /\ calls' = [h \in Call |-> IF calls[h].op \in ops THEN Idle ELSE calls[h]]
  /\ caller' = [c \in Client |->
                  IF caller[c] # NoCall /\ calls[caller[c]].op \in ops
                  THEN NoCall ELSE caller[c]]
  /\ UNCHANGED <<share, stage, overtaken, timeouts>>
=============================================================================
