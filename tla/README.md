# A verification of volcengine-csi-driver

TLA+ models of the CSI drivers in this repository, checked with TLC and proved
with TLAPS. The drivers are request handlers: the gRPC server runs one goroutine
per call, the sidecars and the kubelet cancel and repeat calls, and the state
that matters is outside the process: in the block-storage service, in the mount
table of a node, on a file server. The hard part of this code is therefore what
a call finds when an earlier one was cut short, or when another one is running.

## 1. The system

| part | source | state | operations | hard behaviour |
|---|---|---|---|---|
| in-flight table | `pkg/util/inflight` | a mutex and a set of keys | `Insert`, `Delete` | released exactly once per insert, on every return path; lost in a restart |
| EBS provisioning | `pkg/ebs/controllersvc.go`, `cloud.go` | in-flight table; volumes in the cloud | `CreateVolume`, `DeleteVolume` | retries after a deadline, a lost reply or a restart; delayed listings; no client token |
| EBS attachment | the same | status and instance of each volume in the cloud | `ControllerPublishVolume`, `ControllerUnpublishVolume` | no lock: read, decide, call; limit per node |
| EBS node | `pkg/ebs/nodesvc.go`, `pkg/util/mounter.go` | in-flight table; mount table, directories | stage, unstage, publish, unpublish | context ignored; three-step stage; forced detach; restart and reboot |
| EBS expansion | `controllersvc.go:441`, `cloud.go:97,482`, `nodesvc.go:328` | size of the volume and of its filesystem | controller and node expand | waits for an exact size, dereferences a missing volume |
| EBS snapshots | `controllersvc.go:340-439`, `cloud.go:305-440` | snapshots in the cloud | create, delete, list with pages | create keyed by name, delete by id; the new snapshot is not waited for in the listing |
| NAS controller | `pkg/nas/controllerserver.go`, `utils.go` | temporary NFS mounts, directories on the server | `CreateVolume`, `DeleteVolume` | concurrent calls share temporary mounts |
| NAS node | `pkg/nas/nodeserver.go`, `utils.go` | NFS mounts on target paths and on one temporary path for each volume | publish, unpublish | pods of one volume share the temporary path; a publish outlives the kubelet's patience |
| TOS node | `pkg/tos/nodeserver.go`, `util.go` | s3fs mounts, credential files | publish, unpublish | two mounts, deferred cleanup on error, no in-flight table |
| TOS mount launcher | `build/tosplugin/launcher.go` | the s3fs processes of a node | run a command | lives in a container of its own, whose end kills every s3fs |
| credentials | `pkg/sts/sts.go` | token, two client pointers | periodic refresh | pointers replaced under a lock their readers do not take |
| start-up, metadata, identity, metrics | `cmd`, `pkg/metadata`, `pkg/csi-common`, ... | none after start-up | flags, HTTP GETs, constant answers | none |

How they interact. The external-provisioner calls `CreateVolume` and
`DeleteVolume`, the external-attacher `ControllerPublishVolume` and
`ControllerUnpublishVolume`, the kubelet the node calls. Controller handlers call
the cloud through `VolcEngin` and poll it every 500 ms. Node handlers see the
result of an attachment as a device under `/dev/disk/by-id`, and change the mount
table. Controller and node share no memory, they meet in the cloud and in the
kernel. Within one process the handlers share the in-flight table and nothing
else (and the client pointers of `pkg/sts`). The controller and the node of the NAS driver
meet on the NFS share, where both make directories; the TOS node plugin asks the launcher over
a Unix socket to run s3fs, and sees what became of it in the mount table.

What makes each part correct:

* in-flight table: one running operation per key, and no key without one;
* provisioning: one volume per name as far as that can be had without a client
  token, an answer that fits its request, deletion answered only when it is done,
  every call ends;
* attachment: an answer stays true until the caller asks for something else; a
  node never has more volumes than its limit;
* node: what the kubelet was answered is what the mount table holds, in both
  directions;
* expansion: the answered size is the size the volume has, and never shrinks;
* snapshots: one snapshot per name, ready only when it is;
* NAS: a claim answered OK has its directory, a pod answered OK sees it; a deletion answered OK
  has removed or archived the directory; no temporary mount is left; nobody waits for ever;
* TOS: an answered publish has its bucket at the target path, and what a failed publish or a
  dead process leaves does not keep the next one from succeeding;
* credentials: a handler uses a credential that is valid, and both clients of one
  refresh.

The hazards this code is exposed to are listed, line by line, in
`PROJECT.json`, each with the properties that would catch it or a note on where
the plan covers it.

## 2. The modules

| module | models |
|---|---|
| `InFlight` | the table of `inflight.go` as operators on a set; each operation runs under the mutex, so it is one step |
| `ExclusiveOps` | abstract: at most one running operation per key, a crash ends all |
| `EbsProvision` | `CreateVolume`, `DeleteVolume` with the cloud client below them |
| `VolumeStore` | abstract: a volume is made, ready, given, dropped and gone, each once |
| `EbsProvisionProofs` | the theorems about `EbsProvision` |
| `EbsAttach`, `EbsAttachProofs` | `ControllerPublishVolume`, `ControllerUnpublishVolume`; the theorems about them |
| `EbsNode`, `EbsNodeProofs` | the four mount RPCs of the node service; the theorems about them |
| `EbsExpand`, `EbsExpandProofs` | `ControllerExpandVolume`, `NodeExpandVolume`; the theorems about them |
| `EbsSnapshot`, `EbsSnapshotProofs` | `CreateSnapshot`, `DeleteSnapshot`, `ListSnapshots`; the theorems about them |
| `NasMount` | the NFS share, the mount tables, the handlers, and `doNfsMount` and `createNasSubDir`, which both sides call |
| `NasController` | `CreateVolume`, `DeleteVolume` of the NAS driver over their scratch mounts |
| `NasNode` | publish and unpublish of the NAS driver, and the kubelet |
| `NasVolume` | composes `NasController` and `NasNode` with the claims and pods; the NAS properties |
| `NasVolumeProofs` | the theorems about `NasVolume`, and so about all three NAS modules |
| `TosNode`, `TosNodeProofs` | publish and unpublish of the TOS driver, with its launcher and s3fs; the theorems about them |
| `StsToken`, `StsTokenProofs` | the role token and its refresh; the theorems about the margin |
| `MC*` | constants and symmetry for TLC |

`InFlight` is used by `EbsProvision`, `EbsNode` and `EbsSnapshot`, and each of them is
checked to implement `ExclusiveOps`. `EbsProvision` implements `VolumeStore` as well, which knows
neither handlers nor calls: what is answered to the callers, with all retries, duplicates, delays and
restarts behind it, is a store of volumes. The other modules have no such table to
use, because their code has none.

Conventions. A handler is a process; its `pc` says before which call to the cloud
or the kernel it stands, since those are the points where others interleave. Code
between two such calls reads and writes only locals (and, under its mutex, the
in-flight table), so it is one step with the call before it. Argument checks that
end a call before it has done anything are left out: the inputs are calls that
pass them. `AnswerError` stands for every error return at a point, whatever its
text. An operator under a comment that names a mistake ("A mistake: ...", or a `\*` line such as
"Every failure of stat is taken for absence") is a bug one could make in the
definition after it; it is used by no specification. `PROJECT.json` lists them as
mutants and names, for every definition, the lines it translates.

### EbsProvision

`inFlight` is `cs.inFlight`; `pc`, `req`, `vid` are the locals of the handlers;
`live` says whether the caller of a handler still waits, the opposite of
`ctx.Done()`. `status`, `attr`, `listed` are the cloud. An accepted create request
gives a volume that `DescribeVolumes` does not return at first: that delay is why
`WaitVolumeBeCreated` (`cloud.go:466`) exists. `late` and `lateDelete` hold requests
whose reply will never be seen but which may still be carried out: a create request
has no client token, so the code cannot tell. A delete is sent with the context, so it is
not sent when the context is done already; a create is sent regardless. `told`, `gone`, `unsure` are history;
`told` holds each answer with its size and zone. `PodZone` has the zones the pod may find itself in
after a restart, `NoZone` among them: without metadata the request's or the cloud's zone counts
(`controllersvc.go:79`). Once a volume is listed it stays so until it is deleted: a listing that
misses it once is modelled in `EbsExpand` only.

| action | code |
|---|---|
| `BeginCreate`, `BeginDelete`, `Deadline` | arrival of an RPC; the end of its context |
| `InsertKey`, `Abort` | `controllersvc.go:65-69`, `175-179` |
| `ListByName` | `VolumeByName` and the checks, `controllersvc.go:76-141` |
| `CreateReplies`, `CreateFails` | the API call, `cloud.go:74-85` |
| `WaitVolumeBeCreated`, `WaitVolumeBeAvailable` | `cloud.go:87-93`, `442-480` |
| `FindById`, `DeleteCall`, `WaitVolumeBeDeleted` | `controllersvc.go:181-196`, `cloud.go:129-150`, `442-464` |
| `PollFails` | the error of a `DescribeVolumes` that ends `WaitVolumeBeStatus`, `cloud.go:448-451` |
| `Restart` | the process ends and starts again, perhaps in another zone |
| `CloudLateCreate`, `CloudLateDelete`, `CloudStatus`, `CloudListing` | the cloud |

The duplicate that remains. Listing by name and creating is not atomic with
respect to a creation whose fate is unknown. If a create call ends, in an error, at its
deadline or in a restart, before the plugin has seen the new volume in a
listing, a retry may create a second volume. `OneVolumePerName` says that this is the
*only* way: the name is then in `unsure`. The in-flight key, the listing and the
wait for the listing exclude every other one, and each of them is needed.

### EbsAttach

Neither RPC uses the in-flight table. `status` and `node` are the volume's state
and `InstanceId` in the cloud, which attaches only an available volume, detaches
only an attached one from the node it is attached to, and refuses the rest. The
external-attacher works on one VolumeAttachment, a pair of volume and node, at a
time, which `Begin` states; pairs overlap freely, and so do a call whose caller
has given up and its retry. `unsettled` records the pairs with a request whose
fate the plugin never learned, or an attachment the cloud reported as failed, since
such a request may take effect later or leave the volume elsewhere.

### EbsNode

`stageMounts` is the stack of mounts at each staging path, `bound` the bind mount
at each target path, `stageDirs` and `targetDirs` the existing paths: they survive
a `Restart`, and a `Reboot` empties the mounts. `GetDeviceNameFromMount` returns
the first entry of the mount table for a path, the kernel shows the last one:
`First` and `Top`. The kubelet's knowledge is `staged`/`published` (answered OK,
and not asked to undo since) and `stageMaybe`/`publishMaybe` (asked, and not
not answered undone since). The handlers ignore their context: `Deadline` only says
that nobody waits for the answer. `FormatAndMount` mounts by the device name that was read at the
beginning (`dev`), whichever volume has it by then. A forced detach takes the device away under the
mounts; `pulled` remembers the volumes this has happened to while the kubelet could use
them, about which the properties only say that an answered undo has left no mount.

### EbsExpand

One volume, whose `size` in the cloud counts GB while `req` and `claim` count bytes.
`goal` is the size a running extension is to reach; while it runs `VolumeById` may
return either size, and it may fail. `device` and `fs` are the sizes the kernel and
the filesystem have: they follow `size` one after the other. `late` holds
extensions whose reply was lost. `pc = "panic"` is the nil dereference of
`cloud.go:489`, which ends every goroutine of the process until `Restart`. It needs a poll
that finds no volume (`NoVolumeFound`): the volume was deleted, or one listing misses it
(`cloud.go:225`), which counts as a fault.

| action | code |
|---|---|
| `Raise`, `CallExpand`, `CallNodeExpand`, `Deadline` | the resizer and the kubelet |
| `Look` | `controllersvc.go:448-467` |
| `ExtendVolume`, `WaitVolumeBeExtended` | `cloud.go:97-127`, `482-504` |
| `Resize`, `CheckFs` | `nodesvc.go:369-383` |
| `Restart` | the controller process ends, by itself or by the panic |
| `CloudFinishes`, `CloudLateExtend`, `CloudDelete`, `Rescan` | the cloud, the kernel |

### EbsSnapshot

`CreateSnapshot` inserts the name, looks it up, reads the source and creates.
Its calls ignore the context. Unlike `CreateVolume` it answers without waiting until
a listing shows what it has made, so that even a create call answered OK can be
followed by a second snapshot of the name if the caller asks again; the
snapshotter does so only when the answer was lost. A snapshot that failed or is being
deleted is answered as one that is not ready: `AnswersFit` only promises that it is
not called ready. A name used for another source is refused; the run has one name and one source, so that
this part of `AnswersFit` rests on the proof.
`known` is what the snapshotter may ask to delete.

### NasMount, NasController, NasNode, NasVolume

The share is `base`, `dir` and `archive`; `mounts` is the mount table of both sides. A scratch or
temporary mount dies with its container, a target of a pod is on the host and stays. A system call
that works below a mount point works in the share if that is in `mounts`, and in the container's own,
empty directory if not: this is the hazard. All calls of one volume share the mount points `create`,
`delete` and `temp` of the controller, all pods of it `nodetemp`, and no table keeps them apart. `stage` and
`caller` are what the provisioner and the kubelet know and wait for; they give a call up after a
while and send another one beside it (`GiveUp`). `faults` counts the failures and restarts, up to
`MaxFaults`, and `failed` remembers those that some property names. The class's directory
(`base`) may be the root of the share: it is always there, and no `createNasSubDir` follows a
mount of it that failed (`ShareRoot`). `IsLikelyNotMountPoint` may fail: `createNasSubDir` ignores
that and mounts (`SubCheck`).

| action | code |
|---|---|
| `CallCreate`, `CallDelete`, `CallPublish`, `CallUnpublish`, `GiveUp` | the provisioner and the kubelet |
| `Release`, `DeletePod`, `Write` | claims and pods |
| `Grep`, `Mount`, `SubCheck`, `SubClean`, `SubMount`, `SubMkdir`, `SubUmount`, `Remount` | `doNfsMount`, `createNasSubDir` and the second mount, `utils.go:59-140` |
| `Mkdir`, `Undo`, `Unmount` | `CreateVolume`, `controllerserver.go:52-138` |
| `GetPV`, `Stat`, `Archive`, `RemoveAll`, `Deferred` | `DeleteVolume`, `controllerserver.go:141-235` |
| `Check`, `Unpublish` | `nodeserver.go:56-139` |
| `ControllerRestart`, `NodeRestart` | a container ends, with its mounts |

### TosNode

One pod and volume, since no two of them share a path. `mounts` counts the mounts on the
temporary path and on the target; `pending` is the s3fs processes that have been started
and have not mounted yet: the launcher answers when the `s3fs` command returns, and
`checkTosMounted` polls for four seconds. A mount may therefore appear when nobody
waits for it. `dead` holds the mounts whose s3fs has died: the mount table still shows them, but
every look at the path fails (`Usable`). An s3fs may die alone (`S3fsDies`), or all of them do with the
container of the launcher (`LauncherRestart`), which has a DaemonSet of its own and is replaced without
the plugin. `litter` is a sub-directory made in the temporary path when
nothing is mounted there, `sub` the one in the bucket. `cred` is the credential
file, which is created empty (`torn`) and then written. The pc names follow
`nodeserver.go:73-150` from top to bottom; every error after line 90 goes through
`cleanTmp` and `cleanTarget`, the deferred function. `odd` remembers which of four
things have happened after which the code promises less (a repeated or an overlapping publish,
an unpublish before a publish has ended, an s3fs that mounts over another); the properties name
those they except, and section 4 says what then goes wrong.

### StsToken

Time is discrete, and a token is the time it has left: `auth` that of `token.auth`,
`universal` and `ebs` those inside the two client pointers, `built` that of the clients
`NewServiceClients` has built and not yet stored. `Tick` ages all of them. The goroutine's
`pc` separates the two assignments of `sts.go:211-212`, which no reader's lock
holds together. `StartRefresh`, `StoreUniversal` and `StoreEbs` are `sts.go:150-155`: the first round of
the goroutine may run before, between and after the stores. `overwritten` remembers the
clients that were stored over renewed ones and not renewed again since; the properties name this exception.

## 3. The runs

| run | cfg | checks | bounds | states |
|---|---|---|---|---|
| provision_retry | `EbsProvision_retry.cfg` | `KeysExact`, `OneVolumePerName`, `GoneIsDeleted`, `ImplementsStore`, `ImplementsExclusion` | 2 handlers, 1 name, 2 volumes, 1 restart | 490 thousand |
| provision_answers | `EbsProvision_answers.cfg` | `AnswersFit`, `CallsEnd` | 1 handler, 3 requests that disagree about one name, a pod in 2 zones or none, 1 volume, 2 restarts, `FairSpec` | 481 thousand |
| attach_pairs | `EbsAttach_pairs.cfg` | `TypeOK`, `PublishedIsAttached`, `UnpublishedIsDetached` | 3 handlers, 1 volume, 2 nodes, 1 restart | 2.5 million |
| attach_overshoot | `EbsAttach_overshoot.cfg` | `NodeWithinLimit`, violated | 2 handlers, 2 volumes, limit 1 | |
| node_mounts | `EbsNode_mounts.cfg` | `TypeOK`, `StagedIsMounted`, `PublishedIsBound`, `DoneIsUnmounted`, `ImplementsExclusion` | 2 handlers, a filesystem and a block volume, 2 pods, 2 devices, forced detaches, 2 attachments, 1 restart | 4.3 million |
| node_resize | `EbsNode_resize.cfg` | `StagedIsResized`, violated | 1 handler, 1 volume from a snapshot | |
| expand_sizes | `EbsExpand_sizes.cfg` | `TypeOK`, `PromisedIsThere`, `GrownWithinTenth`, `Expanded` | 2 handlers, claims of 17, 21, 24 bytes, GB of 2 bytes, 10 GB at first, 2 faults, 1 deadline, 1 restart, a deletion, `FairSpec` | 858 thousand |
| expand_panic | `EbsExpand_panic.cfg` | `NoPanic`, violated | 1 handler, 1 claim, a deletion | |
| snapshot_names | `EbsSnapshot_names.cfg` | `TypeOK`, `OneSnapshotPerName`, `AnswersFit`, `ImplementsExclusion` | 2 handlers, 1 name, 1 source that grows, 2 snapshots, 1 restart | 1.8 million |
| nas_calls | `NasVolume_calls.cfg` | `TypeOK`, `BoundHasDir`, `DeletedIsGone`, `ArchiveKeepsData`, `NothingLeftMounted`, `RunningSeesVolume`, `StoppedIsUnmounted`, `EveryoneServed` | 2 calls at a time, 1 volume, 2 pods, 1 call given up, any 2 failures of 9 kinds (a restart among them), `FairSpec` | 980 thousand |
| tos_calls | `TosNode_calls.cfg` | `TypeOK`, `PublishedIsMounted`, `DoneIsUnmounted`, `SubPathCreated`, `Published`, `Unpublished` | 2 handlers, 2 faults, 1 deadline, 1 death of the plugin, the launcher or an s3fs, `FairSpec` | 1.2 million |
| sts_refresh | `StsToken_refresh.cfg` | `TypeOK`, `ClientsUsable`, `ClientsHoldToken` | the code's 5 and 30 minutes, tokens of 26 minutes or more, 3 failures in a row | 37 thousand |

The counts are distinct states, after symmetry where the cfg has it; a run with liveness
properties has none. The deadlock check is off only for `NasVolume`, which stops when
the provisioner has its last answer. The violated runs each show a disagreement of section 4.

Why the bounds are enough. The interesting conflicts are between two calls for one
key, and between a call and what an earlier one has left behind. Two handlers give
the first; one restart and unbounded deadlines give the second. A duplicate volume
needs two ids, and it makes no difference what happens to the others. In
`provision_answers` the retries of one handler are enough, since the key excludes
the second, and one volume, since the comparisons are with the one that is there. GB is 2 bytes; the
requests are for 3 bytes and for the default of 5, of two types, and for one zone, the other or any, so
that rounding and the comparisons of `controllersvc.go:107-123` matter; two restarts move the pod
to another zone and back, or into one it cannot read. `AnswersAreFit` is proved for every set of
requests. Three handlers in `attach_pairs` are an old publish,
the unpublish that follows it and a publish of the other pair. Two volumes reach a
limit of one. Two devices in `node_mounts` are what a mount over another one takes.
In `expand_sizes` a claim of 17 bytes fits the volume of 10 GB, 21 bytes takes 11 GB and
is within the tenth `NodeExpandVolume` forgives, 24 bytes is beyond it; two handlers
are two rounds of the resizer, or one and the kubelet's call. Two NAS calls share each
mount point, two pods share `nodetemp`, and two failures are one that leaves something behind and one
that meets it. Two TOS handlers are an overlap, and two
faults a failed publish whose cleanup fails as well. In `StsToken` the clock is the bound,
with the periods of the code; a token of 26 minutes is within the window of 30 when it is handed out, so
that the first round may renew it, and outlasts the four rounds of 6 minutes of three failures.
The counters are `MaxRestarts`, `MaxAttaches`, `MaxFaults`, `MaxTimeouts`, `MaxFailures`, each
named in the guard of the action it bounds. The theorems below hold for every value of them.

Fairness. `FairSpec` assumes weak fairness of each handler's steps, because the Go
runtime schedules goroutines and the HTTP client of the SDK returns from a call, with a reply or
an error; and weak fairness of `Deadline`, because every sidecar is deployed with
a `--timeout` (`deploy/ebs/csi-ebs-controller.yaml`). It assumes nothing of
the cloud: a volume may stay `creating` for ever, and may never be listed.
The error of a poll (`PollFails`) gets no fairness either, so that `CallsEnd` rests on each of the three
polls, for the creation, for "available" and for the deletion, looking at its context: without
that look in any one of them TLC finds a call that never ends. The mutant of `PROJECT.json` is one of the three.
`EbsExpand` adds that the resizer repeats a failed call, that a call which can no
longer succeed reaches its deadline, that the kubelet starts a controller that has panicked again, and
that the cloud ends, well or badly, an extension it has accepted; `MaxFaults` makes it succeed at
some time, which every retry needs.
`NasVolume` and `TosNode` assume that goroutines run, that the provisioner and the
kubelet repeat what has not succeeded, and that an s3fs that was started mounts or
ends; a failure happens finitely often (`Fault`, `MaxFaults`).

## 4. Where the code and its words differ

Three disagreements have a run of their own, whose counterexample TLC prints:

* **The limit of volumes per node can be passed** (`attach_overshoot`).
  `controllersvc.go:244` counts the volumes of the node and attaches afterwards,
  with nothing that holds the place; concurrent calls for different volumes
  all see the old count. The reserve that `NodeGetInfo` subtracts keeps the scheduler
  away from the limit and usually hides this.
* **A failed resize is not repeated** (`node_resize`). A volume made from a snapshot
  is mounted and then grown; when the growing fails, the call fails, but the retry
  sees the mount and answers OK at `nodesvc.go:119`. The volume keeps the size of
  the snapshot's filesystem.
* **A volume deleted while it is expanded stops the controller** (`expand_panic`).
  `WaitVolumeBeExtended` reads the capacity of a volume that `VolumeById` did not find. In the run
  the volume is deleted; a listing that misses it, in `expand_sizes`, has the same effect.

The others were met as counterexamples of a stronger property. They are now the
conditions under which the properties of the passing runs hold, each written in the property:

* **Publish can answer OK for the wrong node** (`unsettled` in `PublishedIsAttached`). The wait
  after `AttachVolume` compares only the status. It takes a stray detach: one whose reply
  was lost earlier is carried out between two polls, and a publish for another node,
  which had read the volume as available before, attaches it there. "attached" is then true
  of the other node. The wait could tell the difference by looking at the instance it has just read.
* **After a forced detach a staged volume may be one whose device is gone** (`pulled` in
  `EbsNode`). A volume attached again under another device name is mounted over the old one.
  Unstage takes one mount off, but then fails to remove the path and is repeated, so that
  `DoneIsUnmounted` holds for these volumes as well.
* **A small expansion is answered without being made** (`GrownWithinTenth`). The check of
  nine tenths is meant for the overhead of the filesystem, but a growth of less than a ninth
  passes as well when the kernel does not know the new size yet.
* **A NAS volume is answered as deleted while its data stays** (`failed` and the policy in `DeletedIsGone`). Two
  `DeleteVolume` calls share the mount point; the removal of the first fails and
  its deferred unmount uncovers the empty directory below, in which the second finds
  nothing and answers OK. An `archiveOnDelete` that does not parse, which `CreateVolume` accepts, has the
  same effect, and alone makes every deletion fail (`Waits`).
* **A NAS target may be mounted after its unpublish** (`overtaken` in `StoppedIsUnmounted`): a publish
  the kubelet has given up mounts when the unpublish has found nothing.
* **A NAS volume is answered without a directory on the share** (`failed` in `BoundHasDir`). After a
  failed mkdir `CreateVolume` unmounts what a second call is using; that one makes its
  directory in the container.
* **A repeated TOS publish unmounts a volume in use** (`"repeated"` in `PublishedIsMounted`). The
  test for a mounted target comes after the work on the temporary path, whose failure makes the
  deferred function unmount both.
* **Overlapping TOS publishes work beside the bucket** (`"overlap"` in `SubPathCreated`), and leave
  a directory behind on which no later publish succeeds (`litter` in `Published`).
* **A torn TOS credential file stays** (`cred` in `Published`): it is recognised by its name only.
* **A dead s3fs on the temporary path stays** (`Usable` in `Published`): the check of that path fails
  before the deferred cleanup is registered (`nodeserver.go:80-89`), so that every retry ends there. On the
  target path the cleanup takes it off, and the retry succeeds.
* **A second s3fs keeps a target mounted** (`"early"` and `"twice"` in `DoneIsUnmounted`): Unpublish
  takes one mount off.
* **A reply that is no role is taken for one** (outside the model of `StsToken`, which assumes
  that replies are roles). `getRoleToken` ignores the HTTP status, and an error document in JSON
  unmarshals into an empty credential.
* **The first clients may overwrite the renewed ones** (`overwritten` in `ClientsUsable` and
  `ClientsHoldToken`). `NewServiceClients` starts the goroutine before it stores its clients: a first
  token that is due is renewed at once, and the stores may then put the old clients back. The
  goroutine judges by the new token, so they stay until it is due, long after their own has expired.

## 5. The proofs

`EbsProvisionProofs` proves, for any number of handlers, names, requests, volumes
and restarts, from `ProvisionAssumption` (sizes are natural numbers, `None` and
`NoZone` are different from the things they stand in for):

| theorem | states | argument |
|---|---|---|
| `TypeCorrect` | `[](TypeOK /\ TypeInv)` | `TypeInv` adds to the types what the locals hold at each `pc` (`LocalsOK`) and that a volume the cloud knows has attributes (`CloudOK`); without them `KeyOf`, `Wanted` and the answers are not well formed |
| `InFlightExact` | `[]KeysExact` | every step is one of four kinds (`StepKinds`): nobody enters or leaves, one handler enters with a free key, one leaves, all leave |
| `ExclusionRefined` | `Spec => ImplementsExclusion` | the same four kinds are the steps of `ExclusiveOps` under the mapping `HeldKey` |
| `NoOtherDuplicates` | `[]OneVolumePerName` | `DupInv`, see below |
| `AnswersAreFit` | `[]AnswersFit` | the volume a handler has had created has the attributes it asked for (`CreatedAsWanted`), zone included, attributes never change, and rounding up covers the request (`CeilGBCovers`) |
| `DeletedIsDeleted` | `[]GoneIsDeleted` | an id a caller was told is listed until it is deleted (`DeleteInv`), so "not found" means deleted |
| `StoreRefined` | `Spec => ImplementsStore` | every step is a step of `VolumeStore` or a stutter (`StoreSteps`) under `StageOf` and `Given`; a deletion is asked, now or late, only for what a caller was given (`GivenInv`), and `DeleteInv` makes "not found" mean gone |

`OneVolumePerName` is not inductive. `DupInv` adds three facts: a request that may
be carried out late is one of an unsure name (`LateUnsure`); a handler that is about
to create has no volume of its name beside it, unless the name is unsure
(`CreatorAlone`); and a volume that no listing shows has a creator that still
waits for it (`UnlistedAwaited`). The last holds because `WaitVolumeBeCreated`
keeps the handler until it has seen its volume; together with `KeysExact` (that
creator holds the key, so no other handler of the name is listing) an empty listing then means
that there is no volume. That is the argument for the correctness of the code,
and the reason why both the key and the wait are needed.

The invariants share a description of the steps: what a step may do to a volume in the cloud
(`CloudMoved`: its status goes forward and its attributes stay), which handlers move (`OneMoves`,
`MovesOn`, `MovesNone`) and what it adds to the history (`HistorySteps`). Each proof cites these
instead of going through the actions again.

`EbsExpandProofs` proves, for any number of handlers, any claims, sizes and bounds, from
`ExpandAssumption`:

| theorem | states | argument |
|---|---|---|
| `TypeCorrect` | `[]TypeOK` | with what `late` and `claim` hold, so that sizes stay natural numbers |
| `PromisesKept` | `[]PromisedIsThere` | `SizeInv`, below, and rounding up covers the claim (`CeilGBCovers`) |
| `GrownEnough` | `[]GrownWithinTenth` | the same |

`SizeInv` adds to the two properties that the filesystem is never larger than the
device, the device never larger than the volume and an extension always to a larger
size (`SizesOrdered`), and that the kubelet never asks for more than the resizer was
promised (`NodeAsksPromised`). The size in the cloud then never shrinks, and the poll answers
only for a size it has seen finished. That is why a failed or late extension cannot
take a promise back.

`StsTokenProofs` proves, for any periods, from `TimesAssumption` and the hypothesis `Margin`,
`TypeCorrect` (`[]TypeOK`), `NeverExpired` (`[]ClientsUsable`) and `HoldsToken` (`[]ClientsHoldToken`). `Margin` says that
`MaxFailures + 1` rounds of a period and a request take less than the window and less than what a
token has left when it is handed out (which may be less than the window), and that every reply is a role. The
invariant is a budget: in each phase the token has more left than the rest of this round and one whole
round for each failure still to come (`Lasts`). `UniversalOK` and `EbsOK` follow the two pointers through
the start-up: as long as a pointer is nil its first client has the token that is judged by, so that a
store over nil is harmless and a store over anything else is recorded. With the code's
5 and 30 minutes and requests of a minute, three failures in a row are covered.

`EbsAttachProofs` proves, for any number of handlers, volumes, nodes and restarts, from
`AttachAssumption` (a finite number of volumes, `None` is none of them):

| theorem | states | argument |
|---|---|---|
| `TypeCorrect` | `[]TypeOK` | with what a handler's locals hold (`LocalsOK`) |
| `PublishedStaysAttached` | `[]PublishedIsAttached` | `AttachInv`, below |
| `UnpublishedStaysDetached` | `[]UnpublishedIsDetached` | the same |
| `OneNodeAtATime` | `[]NeverOnTwoNodes` | the same: two nodes answered OK for one volume are both `InstanceId`, or one is unsettled |
| `CountSufficesAlone` | `Spec /\ []OneAttacher => []NodeWithinLimit` | `RoomLeft`: a handler past the count still has room. `OneAttacher` says that no two handlers are between the count and `AttachVolume` for one node |

No lock joins the handler's reads to its decisions, and `WaitVolumeBeStatus` compares the
status and not the node. `AttachInv` says why the answers are true all the same: the attacher waits for one call
of a pair at a time (`LiveAlone`), a new call takes back what the opposite one was answered
(`LiveRetracts`), and the volume a handler waits for is on its way to the right node (`AwaitedOnNode`),
unless a request of unknown fate is about, which makes the pair unsettled (`LateUnsettled`).
`CountSufficesAlone` is the other side of the run `attach_overshoot`: the limit is exceeded by
handlers that count before the others have attached, and, where the fate of every request is known,
by nothing else.

`EbsNodeProofs` proves, for any number of handlers, volumes, pods and devices that vanish at any time:

| theorem | states | argument |
|---|---|---|
| `TypeCorrect` | `[]TypeOK` | with what the locals hold at each `pc`, the device found included |
| `InFlightExact` | `[]KeysExact` | the four kinds of steps, as in `EbsProvisionProofs` |
| `ExclusionRefined` | `Spec => ImplementsExclusion` | the same kinds, under the mapping `vol` |
| `StagedStaysMounted` | `[]StagedIsMounted` | `MountInv`, below |
| `PublishedStaysBound` | `[]PublishedIsBound` | the same |
| `DoneStaysUnmounted` | `[]DoneIsUnmounted` | the same |
| `OwnDeviceOnly` | `[]NoForeignDevice` | `MountInv`, and two attached volumes have two devices (`DevicesDiffer`): a name that was read is still the volume's when it is mounted, or the volume is in `pulled` |
| `DetachesClean` | `[][CleanDetach]_vars` | a detach by the attacher follows an answered unstage, and `DoneIsUnmounted` |
| `MountedStaysAttached` | `[]MountedIsAttached` | for `AbruptDetach = FALSE`: `pulled` stays empty |

`MountInv` has a part for each volume, `VolumeOK` (unless its device has vanished, it is mounted at most
once, from the device it has now, and only where the kubelet may have asked for it), and a part for each
handler, `HandlerOK` (the device it has read is still the volume's). A handler's
step changes only its own volume (`OthersKept`, from `KeysExact`), which is what the in-flight
table is for: without it two handlers could both see an empty path and mount it twice.

`EbsSnapshotProofs` proves, for any number of handlers, names, volumes, snapshots and
restarts, from `SnapshotAssumption`:

| theorem | states | argument |
|---|---|---|
| `TypeCorrect` | `[]TypeOK` | what the cloud keeps (`CloudOK`) is only preserved because a deletion always names a snapshot that was taken (`TakenOnly`) |
| `InFlightExact` | `[]KeysExact` | names and ids are keys of one table; the four kinds of steps |
| `ExclusionRefined` | `Spec => ImplementsExclusion` | the same kinds |
| `NameHasOneSnapshot` | `[]OneSnapshotPerName` | `NameInv`: what may be created late and what no listing shows is of an unsure name; else a handler about to create has its name to itself (`CreatorAlone`), having held the key from its listing on |
| `AnswersAreTrue` | `[]AnswersFit` | `ReadStillThere`: a volume never shrinks, so the bytes read before the create call are there in the snapshot |

`NasVolumeProofs` proves, for any volumes, pods and handlers, any kinds of failure, and any number of failures,
restarts and calls given up, from `NasAssumption`:

| theorem | states | inductive invariant |
|---|---|---|
| `TypeCorrect` | `[]TypeOK` | `TypeInv`: a handler is at a step of its own call, and a caller that waits is in the stage in which it asked (`CallersOK`) |
| `BoundStaysMade` | `[]BoundHasDir` | `MkdirOnShare`: a create at its mkdir has the share mounted, or the directory exists already: only another create past its own mkdir can have unmounted it |
| `DeletedStaysGone` | `[]DeletedIsGone` | `DropOnShare`: the same for deletes and the removal |
| `DataIsKept` | `[]ArchiveKeepsData` | itself; no step loses a directory with data that the class did not ask to delete |
| `IdleIsUnmounted` | `[]NothingLeftMounted` | `EveryMountIsUsed`: a scratch mount has a handler at one of the steps that end in its unmount |
| `RunningStaysMounted` | `[]RunningSeesVolume` | `MountedHasDir`: what is mounted for a pod exists until the volume is deleted |
| `StoppedStaysUnmounted` | `[]StoppedIsUnmounted` | `NoLatePublish`: from the call of an unpublish on no publish of the pod runs, unless it was overtaken |
| `NoDataTakenEarly` | `[][DataGoesLast]_vars` | `OrderInv`, below: a delete runs only when the claim was given back and all pods are stopped |

No table keeps the calls of one volume apart here, so the proofs rest on the order of the stages instead
(`OrderInv`): a delete runs only after the last pod was unpublished, and a stage never comes back. Each
step of a handler is first reduced to one of nine effects (`StepEffect`), and the invariants are proved about
these.

`TosNodeProofs` proves, for any number of handlers, faults, timeouts and restarts, from `TosAssumption`:

| theorem | states | inductive invariant |
|---|---|---|
| `TypeCorrect` | `[]TypeOK` | itself |
| `PublishedStaysMounted` | `[]PublishedIsMounted` | `PublishInv`: unless the kubelet's calls overlap one publish runs at a time, and none is left when it is answered, so nobody cleans up behind it |
| `DoneStaysUnmounted` | `[]DoneIsUnmounted` | `UnpublishInv`: from the call of an unpublish on no publish and no s3fs is under way, and there is one mount |
| `SubPathIsInBucket` | `[]SubPathCreated` | `TmpStays`: the temporary mount a handler has seen stays until it unmounts it |
| `TornIsForGood` | `[][TornForGood]_vars` | no invariant: a torn credential file that nobody is writing is never written again, and no s3fs is started from then on |

So every invariant and refinement of the passing runs has a theorem. The theorems whose formula no run
checks (`KeysExact` of two modules apart) are step properties and consequences stated in the proof
modules themselves, beside the run-checked properties they follow from.
Only model-checked are the liveness properties, `CallsEnd`, `Expanded`, `EveryoneServed`, `Published`
and `Unpublished`, since liveness under fairness and `ENABLED` are beyond the
prover, as is induction over data. All theorems are about `Spec`, without fairness.

## 6. What is not modelled, and the plan

Abstracted in what is modelled: names, ids, zones and types are atoms; the wording of errors; the
tags and topology of answers; the credentials several TOS volumes of one pod could share. The
cloud, NFS, s3fs and the Kubernetes callers are modelled from how the code uses them.

Not modelled, and why:

* the content source of a volume: `CreateVolume` passes it on and does not compare it
  (`controllersvc.go:107`), and nothing says what a second request with another source should get;
* the queries (`ValidateVolumeCapabilities`, `NodeGetInfo`, `NodeGetVolumeStats`, capabilities), the reserve
  of the node limit and the type and zone defaults: functions of one reading, without state;
* expansion of block volumes and the missing device in `NodeExpandVolume`, the VCI mode of
  the NAS controller: they answer and change nothing;
* the static key and the configuration files of `pkg/openapi`: read once, never changed;
* metadata, the gRPC server, identity services and metrics: input and output, constant answers.

Planned, in this order. The runs are meant to stay about a dozen, so that all of them can be
repeated on every change: a new module brings one run, or takes over the questions of an older one.

1. `EbsLifecycle`: provision, attach, stage and their opposites composed, with the
   order Kubernetes keeps between them, and an abstract volume life cycle they implement. The state of
   the parts multiplies, so the parts have to be replaced by abstract ones first; `VolumeStore` is the
   first of these.
2. Proofs about that composition: attach and stage keep `StagedIsMounted` through a detach that
   `EbsAttach` asks for. `DetachesClean` is the half of it on the node; the other half is that the
   attacher waits for the unstage, which `EbsNode` takes for granted.
