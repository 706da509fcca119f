------------------------------ MODULE EbsExpand ------------------------------
(***************************************************************************)
(* ControllerExpandVolume and NodeExpandVolume of the EBS plugin           *)
(* (pkg/ebs/controllersvc.go, nodesvc.go) with ExtendVolume and            *)
(* WaitVolumeBeExtended of pkg/ebs/cloud.go.                               *)
(*                                                                         *)
(* Neither RPC uses the in-flight table.  Calls for different volumes have *)
(* nothing in common, so the module follows one volume.  A size in the     *)
(* cloud is a number of GB, one in a request a number of bytes.  While the *)
(* volume is extending, DescribeVolumes may show the old size or already   *)
(* the new one, and the extension may still fail.                          *)
(*                                                                         *)
(* The callers are the external-resizer, which repeats the call for one    *)
(* claim until it succeeds and waits for one answer at a time, and the     *)
(* kubelet, which expands the filesystem once the resizer has its answer.  *)
(***************************************************************************)
EXTENDS Integers

CONSTANTS
  Handler,     \* goroutines serving RPCs
  Request,     \* sizes a claim may ask for, in bytes
  InitialSize, \* size of the volume at first, in GB
  GB,
  None,
  MaxFaults,   \* bound on the calls and extensions that fail, and on the
               \* listings that miss the volume
  MaxTimeouts, \* bound on the deadlines of calls that could still succeed
  MaxRestarts  \* bound on the restarts of the controller plugin

ASSUME ExpandAssumption ==
  /\ Request \subseteq Nat
  /\ InitialSize \in Nat
  /\ GB \in Nat \ {0}
  /\ None \notin Nat
  /\ MaxFaults \in Nat /\ MaxTimeouts \in Nat /\ MaxRestarts \in Nat

VARIABLES
  pc, req,    \* where each handler is, and the bytes it was asked for
  live,       \* its caller still waits: the context is not done
  exists,     \* cloud: DescribeVolumes knows the volume
  size,       \* cloud: its size in GB
  goal,       \* cloud: the size it is being extended to, or None
  late,       \* network: extensions that may be carried out although the
              \* plugin will never see their reply
  device,     \* node: size of the device as the kernel sees it
  fs,         \* node: size of the filesystem
  claim,      \* the resizer: bytes the claim asks for, 0 if none yet
  promised,   \* history: most bytes the resizer was answered
  grown,      \* history: most bytes the kubelet was answered
  faults, timeouts, restarts

handlerVars == <<pc, req, live>>
cloudVars   == <<exists, size, goal>>
nodeVars    == <<device, fs>>
history     == <<promised, grown>>
bounds      == <<faults, timeouts, restarts>>
vars == <<handlerVars, cloudVars, late, nodeVars, claim, history, bounds>>
-----------------------------------------------------------------------------
(* Bytes to GB, rounded up. *)
CeilGB(bytes) == (bytes + GB - 1) \div GB

Sizes == {CeilGB(r) : r \in Request}

(* A mistake: bytes where the cloud expects GB. *)
NewSizeInBytes(h) == req[h]

(* The size a call asks the cloud for. *)
NewSize(h) == CeilGB(req[h])

ControllerPc == {"look", "extend", "wait"}
NodePc       == {"resize", "checkFs"}
Pc == {"idle", "panic"} \cup ControllerPc \cup NodePc

Extending == goal # None

TypeOK ==
  /\ pc \in [Handler -> Pc]
  /\ req \in [Handler -> Request \cup {0}]
  /\ live \in [Handler -> BOOLEAN]
  /\ exists \in BOOLEAN
  /\ {size, device, fs} \subseteq Sizes \cup {InitialSize}
  /\ goal \in Sizes \cup {None}
  /\ late \subseteq Sizes
  /\ claim \in Request \cup {0}
  /\ promised \in Nat /\ grown \in Nat
  /\ faults \in 0..MaxFaults /\ timeouts \in 0..MaxTimeouts /\ restarts \in 0..MaxRestarts

Init ==
  /\ pc   = [h \in Handler |-> "idle"]
  /\ req  = [h \in Handler |-> 0]
  /\ live = [h \in Handler |-> FALSE]
  /\ exists = TRUE
  /\ size = InitialSize /\ device = InitialSize /\ fs = InitialSize
  /\ goal = None
  /\ late = {}
  /\ claim = 0
  /\ promised = 0 /\ grown = 0
  /\ faults = 0 /\ timeouts = 0 /\ restarts = 0
-----------------------------------------------------------------------------
(* Arrival and end of a call. *)

Panicked == \E h \in Handler : pc[h] = "panic"

Begin(h, r, start) ==
  /\ pc[h] = "idle"
  /\ pc'   = [pc EXCEPT ![h] = start]
  /\ req'  = [req EXCEPT ![h] = r]
  /\ live' = [live EXCEPT ![h] = TRUE]
  /\ UNCHANGED <<cloudVars, late, nodeVars, claim, history, bounds>>

(* The claim is asked to grow. *)
Raise ==
  /\ \E r \in Request : r > claim /\ claim' = r
  /\ UNCHANGED <<handlerVars, cloudVars, late, nodeVars, history, bounds>>

CallExpand(h) ==
  /\ claim > 0
  /\ ~Panicked
  /\ \A g \in Handler : pc[g] \in ControllerPc => ~live[g]
  /\ Begin(h, claim, "look")

(* The kubelet asks for what the resizer has been answered. *)
CallNodeExpand(h) ==
  /\ \A g \in Handler : pc[g] \in NodePc => ~live[g]
  /\ \E r \in Request : r <= promised /\ r > grown /\ Begin(h, r, "resize")

Return(h) ==
  /\ pc'   = [pc EXCEPT ![h] = "idle"]
  /\ req'  = [req EXCEPT ![h] = 0]
  /\ live' = [live EXCEPT ![h] = FALSE]

AnswerError(h) == Return(h) /\ UNCHANGED history

AnswerExpanded(h, bytes) ==
  /\ Return(h)
  /\ promised' = IF live[h] /\ bytes > promised THEN bytes ELSE promised
  /\ UNCHANGED grown

AnswerGrown(h) ==
  /\ Return(h)
  /\ grown' = IF live[h] /\ req[h] > grown THEN req[h] ELSE grown
  /\ UNCHANGED promised

GoTo(h, next) ==
  /\ pc' = [pc EXCEPT ![h] = next]
  /\ UNCHANGED <<req, live, history>>

(* A call to the cloud or the kernel fails. *)
Fault == faults < MaxFaults /\ faults' = faults + 1

(* Nothing will make this call succeed any more: it waits for a size the   *)
(* volume does not have and is not getting.                                *)
Stuck(h) == pc[h] = "wait" /\ ~Extending /\ size # NewSize(h)

(* The caller's timeout: the context is done, the handler runs on.  The    *)
(* extension of a volume usually takes less than that, which is what the   *)
(* bound says: only MaxTimeouts calls that are not stuck are given up.     *)
Deadline(h) ==
  /\ live[h]
  /\ live' = [live EXCEPT ![h] = FALSE]
  /\ \/ Stuck(h) /\ UNCHANGED timeouts
     \/ timeouts < MaxTimeouts /\ timeouts' = timeouts + 1
  /\ UNCHANGED <<pc, req, cloudVars, late, nodeVars, claim, history, faults, restarts>>
-----------------------------------------------------------------------------
(* ControllerExpandVolume. *)

(* What DescribeVolumes may say of the capacity. *)
Shown == {size * GB} \cup (IF Extending THEN {goal * GB} ELSE {})

(* A mistake: the state of the volume is not looked at. *)
LargeEnoughInAnyState(h, capacity) ==
  CeilGB(req[h]) * GB = capacity \/ req[h] < capacity

(* A mistake: only a volume of the very size is left alone. *)
LargeEnoughIfEqual(h, capacity) ==
  CeilGB(req[h]) * GB = capacity /\ ~Extending

(* The two comparisons that answer OK at once. *)
LargeEnough(h, capacity) ==
  /\ ~Extending
  /\ CeilGB(req[h]) * GB = capacity \/ req[h] < capacity

(* VolumeById and the decision. *)
Look(h) ==
  /\ pc[h] = "look"
  /\ \/ Fault /\ AnswerError(h)
     \/ /\ UNCHANGED faults
        /\ \/ ~exists /\ AnswerError(h)
           \/ /\ exists
              /\ \E capacity \in Shown :
                   IF LargeEnough(h, capacity)
                   THEN AnswerExpanded(h, capacity)
                   ELSE GoTo(h, "extend")
  /\ UNCHANGED <<cloudVars, late, nodeVars, claim, timeouts, restarts>>

(* The cloud only makes a volume larger, and does one extension at a time. *)
CloudAccepts(g) == exists /\ ~Extending /\ g > size

(* The request of ExtendVolume goes out with the context: when that ends   *)
(* during the call, the request may or may not have been sent.             *)
ExtendVolume(h) ==
  /\ pc[h] = "extend"
  /\ LET g == NewSize(h) IN
     \/ /\ live[h] /\ CloudAccepts(g)
        /\ goal' = g
        /\ GoTo(h, "wait")
        /\ UNCHANGED <<late, faults>>
     \/ /\ live[h] /\ ~CloudAccepts(g)
        /\ AnswerError(h)
        /\ UNCHANGED <<goal, late, faults>>
     \/ /\ IF live[h] THEN Fault ELSE UNCHANGED faults
        /\ late' \in {late, late \cup {g}}
        /\ AnswerError(h)
        /\ UNCHANGED goal
  /\ UNCHANGED <<exists, size, nodeVars, claim, timeouts, restarts>>

(* VolumeById may find no volume: the volume is gone, or one listing does  *)
(* not show it.                                                            *)
NoVolumeFound == (~exists /\ UNCHANGED faults) \/ (exists /\ Fault)

(* A mistake: any volume that has stopped extending will do. *)
WaitUntilSettled(h) ==
  /\ pc[h] = "wait"
  /\ \/ ~live[h] /\ AnswerError(h) /\ UNCHANGED faults
     \/ live[h] /\ NoVolumeFound /\ GoTo(h, "panic")
     \/ live[h] /\ exists /\ ~Extending /\ AnswerExpanded(h, req[h]) /\ UNCHANGED faults
  /\ UNCHANGED <<cloudVars, late, nodeVars, claim, timeouts, restarts>>

(* The poll looks for the exact size.  It reads vol.Capacity without       *)
(* asking whether a volume was found: a nil dereference, which nothing     *)
(* recovers from, ends the process.                                        *)
WaitVolumeBeExtended(h) ==
  /\ pc[h] = "wait"
  /\ \/ ~live[h] /\ AnswerError(h) /\ UNCHANGED faults
     \/ live[h] /\ NoVolumeFound /\ GoTo(h, "panic")
     \/ /\ live[h] /\ exists
        /\ ~Extending /\ size = NewSize(h)
        /\ AnswerExpanded(h, req[h])
        /\ UNCHANGED faults
  /\ UNCHANGED <<cloudVars, late, nodeVars, claim, timeouts, restarts>>

(* The controller process ends, by itself or by the panic, and is started  *)
(* again; the requests under way may still be carried out.                 *)
Restart ==
  /\ \/ Panicked /\ UNCHANGED restarts
     \/ restarts < MaxRestarts /\ restarts' = restarts + 1
  /\ LET lost == {h \in Handler : pc[h] \in ControllerPc \cup {"panic"}}
     IN /\ pc'   = [h \in Handler |-> IF h \in lost THEN "idle" ELSE pc[h]]
        /\ req'  = [h \in Handler |-> IF h \in lost THEN 0 ELSE req[h]]
        /\ live' = [h \in Handler |-> live[h] /\ h \notin lost]
  /\ \E sent \in SUBSET {h \in Handler : pc[h] = "extend"} :
       late' = late \cup {NewSize(h) : h \in sent}
  /\ UNCHANGED <<cloudVars, nodeVars, claim, history, faults, timeouts>>
-----------------------------------------------------------------------------
(* NodeExpandVolume of a mounted filesystem.  A block volume, or one whose *)
(* device is not found, is answered before anything happens.               *)

(* The resizer of mount-utils grows the filesystem to the device. *)
Resize(h) ==
  /\ pc[h] = "resize"
  /\ \/ Fault /\ AnswerError(h) /\ UNCHANGED fs
     \/ fs' = device /\ GoTo(h, "checkFs") /\ UNCHANGED faults
  /\ UNCHANGED <<cloudVars, late, device, claim, timeouts, restarts>>

(* A mistake: the size of the filesystem is not looked at. *)
CheckNoFs(h) ==
  /\ pc[h] = "checkFs"
  /\ AnswerGrown(h)
  /\ UNCHANGED <<cloudVars, late, nodeVars, claim, bounds>>

(* diskCapacity >= requestGB * 0.9 *)
CheckFs(h) ==
  /\ pc[h] = "checkFs"
  /\ IF fs * 10 >= CeilGB(req[h]) * 9 THEN AnswerGrown(h) ELSE AnswerError(h)
  /\ UNCHANGED <<cloudVars, late, nodeVars, claim, bounds>>

(* The kernel learns the new size of the device. *)
Rescan ==
  /\ device # size
  /\ device' = size
  /\ UNCHANGED <<handlerVars, cloudVars, late, fs, claim, history, bounds>>
-----------------------------------------------------------------------------
(* The cloud. *)

(* The volume ends up with its new size, or the extension fails. *)
CloudFinishes ==
  /\ Extending
  /\ goal' = None
  /\ \/ size' = goal /\ UNCHANGED faults
     \/ Fault /\ UNCHANGED size
  /\ UNCHANGED <<handlerVars, exists, late, nodeVars, claim, history, timeouts, restarts>>

(* A request whose reply was lost is carried out, or has got lost itself. *)
CloudLateExtend ==
  /\ \E g \in late :
       /\ late' = late \ {g}
       /\ goal' = IF CloudAccepts(g) THEN g ELSE goal
  /\ UNCHANGED <<handlerVars, exists, size, nodeVars, claim, history, bounds>>

(* The claim is deleted: DeleteVolume does not wait for an expansion. *)
CloudDelete ==
  /\ exists /\ ~Extending
  /\ exists' = FALSE
  /\ UNCHANGED <<handlerVars, size, goal, late, nodeVars, claim, history, bounds>>
-----------------------------------------------------------------------------
ControllerStep(h) == Look(h) \/ ExtendVolume(h) \/ WaitVolumeBeExtended(h)
NodeStep(h)       == Resize(h) \/ CheckFs(h)

(* A process that has panicked does nothing until it is started again. *)
HandlerStep(h) == (~Panicked /\ ControllerStep(h)) \/ NodeStep(h)

Next ==
  \/ Raise
  \/ \E h \in Handler :
       \/ CallExpand(h) \/ CallNodeExpand(h) \/ Deadline(h) \/ HandlerStep(h)
  \/ Restart
  \/ Rescan \/ CloudFinishes \/ CloudLateExtend \/ CloudDelete

Spec == Init /\ [][Next]_vars

(* The scheduler runs every goroutine, the resizer and the kubelet repeat  *)
(* their calls, a call that cannot succeed reaches its deadline, the cloud *)
(* finishes what it has accepted, and the kubelet starts the controller's  *)
(* container again when it has ended.                                      *)
Fairness ==
  /\ \A h \in Handler :
       /\ WF_vars(HandlerStep(h))
       /\ WF_vars(Stuck(h) /\ Deadline(h))
  /\ WF_vars(\E h \in Handler : CallExpand(h))
  /\ WF_vars(CloudFinishes)
  /\ WF_vars(Panicked /\ Restart)

FairSpec == Spec /\ Fairness
-----------------------------------------------------------------------------
(* Properties. *)

(* ControllerExpandVolume answers a capacity at controllersvc.go:463, 467  *)
(* and 477: the volume has at least that many bytes, however the calls of  *)
(* several resizer rounds overlap, and whatever extension fails.           *)
PromisedIsThere == promised <= size * GB

(* NodeExpandVolume answers OK at nodesvc.go:383: the filesystem then has  *)
(* nine tenths of the size, which the volume itself has in full.           *)
GrownWithinTenth ==
  /\ fs * 10 >= CeilGB(grown) * 9
  /\ grown <= size * GB

(* The resizer is answered OK in the end for the size the claim asks for:  *)
(* a call that waits for a size the volume has passed (cloud.go:489), and  *)
(* one that meets a running extension, and one that ends the process with  *)
(* its panic, leave a state from which the retry succeeds.  No claim and   *)
(* no answer ever shrinks, so it is enough that in the end the answers     *)
(* have caught up with the claim.                                          *)
Expanded == <>[](promised >= claim \/ ~exists)

(* controllersvc.go:456-459 answers an error for a volume that does not    *)
(* exist: it does not stop the plugin, which serves every other volume.    *)
NoPanic == ~Panicked
=============================================================================
