--------------------------- MODULE NasController ---------------------------
(***************************************************************************)
(* The controller of the NAS driver (pkg/nas/controllerserver.go).         *)
(* CreateVolume and DeleteVolume have no cloud API to call: each mounts    *)
(* the NFS share on a scratch mount point of its container, makes,         *)
(* archives or removes one directory there, and unmounts.  The mount point *)
(* is named after the volume, so two calls for one volume share it.  The   *)
(* VCI mode, in which neither handler touches the share, is left out.      *)
(***************************************************************************)
EXTENDS NasMount

-----------------------------------------------------------------------------
(* csi-provisioner: it repeats a call until it hears OK.                   *)

CallCreate(h, v) ==
  /\ stage[v] = "creating"
  /\ Begin(h, v, "create", "grep")
  /\ UNCHANGED overtaken

CallDelete(h, v) ==
  /\ stage[v] = "deleting"
  /\ Begin(h, v, "delete", "getpv")
  /\ UNCHANGED overtaken

-----------------------------------------------------------------------------
(* CreateVolume after the mount.                                           *)

Mkdir(h) ==
  LET v == Vol(h)
  IN /\ At(h, "mkdir")
     /\ \/ /\ UNCHANGED failures
           /\ dir' = IF ~Free(Mountpoint(h)) /\ dir[v] = "none"
                     THEN [dir EXCEPT ![v] = "empty"] ELSE dir
           /\ GoTo(h, "umount")
        \/ Fails("mkdir") /\ UNCHANGED dir /\ GoTo(h, "undo")
     /\ UNCHANGED <<policy, base, archive, wrote, mounts>>

(* After a failed mkdir the result of the unmount is not looked at.        *)
Undo(h) ==
  /\ At(h, "undo")
  /\ Unmounts(Mountpoint(h)) \/ UnmountFails(Mountpoint(h))
  /\ Answer(h, FALSE)
  /\ UNCHANGED share

Unmount(h) ==
  /\ At(h, "umount")
  /\ \/ Unmounts(Mountpoint(h)) /\ Answer(h, TRUE)
     \/ UnmountFails(Mountpoint(h)) /\ Answer(h, FALSE)
  /\ UNCHANGED share

-----------------------------------------------------------------------------
(* DeleteVolume before and after the mount.                                *)

(* The PV is there until the provisioner has heard OK.                     *)
GetPV(h) ==
  LET there == stage[Vol(h)] \in {"bound", "deleting"}
  IN /\ At(h, "getpv")
     /\ \/ Works(there) /\ GoTo(h, "grep")
        \/ Breaks(there, "getpv") /\ Answer(h, FALSE)
     /\ UNCHANGED <<share, mounts>>

Found(h) == ~Free(Mountpoint(h)) /\ dir[Vol(h)] # "none"

(* Every way out of here runs the deferred unmount first.                  *)
Leave(h, ok) ==
  /\ calls' = [calls EXCEPT ![h].pc = "deferred", ![h].ok = ok]
  /\ UNCHANGED client

\* Every failure of stat is taken for absence.
StatAnyFailure(h) ==
  /\ At(h, "stat")
  /\ \/ Works(~Found(h)) /\ Leave(h, TRUE)
     \/ Fails("stat") /\ Leave(h, TRUE)
     \/ Works(Found(h)) /\ GoTo(h, "drop")
  /\ UNCHANGED <<share, mounts>>

\* The unmount is deferred after the test of the directory, not before it.
StatBeforeDefer(h) ==
  /\ At(h, "stat")
  /\ \/ Works(~Found(h)) /\ Answer(h, TRUE)
     \/ Works(Found(h)) /\ GoTo(h, "drop")
  /\ UNCHANGED <<share, mounts>>

(* A stat that fails for another reason than absence goes on as if it had  *)
(* found the directory; an archiveOnDelete that does not parse ends it.    *)
Stat(h) ==
  /\ At(h, "stat")
  /\ \/ Works(~Found(h)) /\ Leave(h, TRUE)
     \/ /\ Breaks(~Found(h), "stat")
        /\ IF policy[Vol(h)] = "invalid" THEN Leave(h, FALSE)
                                         ELSE GoTo(h, "drop")
  /\ UNCHANGED <<share, mounts>>

\* A directory that cannot be renamed is removed instead.
ArchiveElseRemove(h) ==
  LET v == Vol(h)
  IN /\ At(h, "drop") /\ policy[v] = "archive"
     /\ \/ Works(Found(h)) /\ archive' = [archive EXCEPT ![v] = @ \cup {dir[v]}]
        \/ Breaks(Found(h), "rename") /\ UNCHANGED archive
     /\ dir' = IF Found(h) THEN [dir EXCEPT ![v] = "none"] ELSE dir
     /\ Leave(h, TRUE)
     /\ UNCHANGED <<policy, base, wrote, mounts>>

\* The directory gets another name in place.
ArchiveRenamed(h) ==
  LET v == Vol(h)
  IN /\ At(h, "drop") /\ policy[v] = "archive"
     /\ Works(Found(h))
     /\ dir' = [dir EXCEPT ![v] = "archived"]
     /\ Leave(h, TRUE)
     /\ UNCHANGED <<policy, base, archive, wrote, mounts>>

Archive(h) ==
  LET v == Vol(h)
  IN /\ At(h, "drop") /\ policy[v] = "archive"
     /\ \/ /\ Works(Found(h))
           /\ archive' = [archive EXCEPT ![v] = @ \cup {dir[v]}]
           /\ dir' = [dir EXCEPT ![v] = "none"]
           /\ Leave(h, TRUE)
        \/ /\ Breaks(Found(h), "rename")
           /\ UNCHANGED <<archive, dir>> /\ Leave(h, FALSE)
     /\ UNCHANGED <<policy, base, wrote, mounts>>

(* os.RemoveAll of a path that does not exist succeeds.                    *)
RemoveAll(h) ==
  LET v == Vol(h)
  IN /\ At(h, "drop") /\ policy[v] = "delete"
     /\ \/ /\ UNCHANGED failures
           /\ dir' = IF Found(h) THEN [dir EXCEPT ![v] = "none"] ELSE dir
           /\ Leave(h, TRUE)
        \/ Fails("remove") /\ UNCHANGED dir /\ Leave(h, FALSE)
     /\ UNCHANGED <<policy, base, archive, wrote, mounts>>

Deferred(h) ==
  /\ At(h, "deferred")
  /\ Unmounts(Mountpoint(h)) \/ UnmountFails(Mountpoint(h))
  /\ Answer(h, calls[h].ok)
  /\ UNCHANGED share


ControllerStep(h) ==
  \/ GetPV(h) \/ Mkdir(h) \/ Undo(h) \/ Unmount(h)
  \/ Stat(h) \/ Archive(h) \/ RemoveAll(h) \/ Deferred(h)

ControllerRestart == RestartOf({"create", "delete"}, {"create", "delete", "temp"})
=============================================================================
