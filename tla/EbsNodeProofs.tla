---------------------------- MODULE EbsNodeProofs ----------------------------
(***************************************************************************)
(* Proofs about EbsNode for any number of handlers, volumes, pods and      *)
(* devices, with devices that vanish at any time.                          *)
(***************************************************************************)
EXTENDS EbsNode, TLAPS

StagePc     == {"stage", "stageCheck", "mount", "resize"}
UnstagePc   == {"unstage", "removeStage"}
PublishPc   == {"publish", "bind"}
UnpublishPc == {"unpublish", "removeTarget"}
DevicePc    == {"stageCheck", "mount", "resize"}

(* What a handler's locals hold at each point of its code.                 *)
LocalsOK ==
  \A h \in Handler :
    /\ vol[h] = None <=> pc[h] = "idle"
    /\ pc[h] \in PublishPc \cup UnpublishPc => pod[h] \in Pod
    /\ pc[h] \in DevicePc => vol[h] \notin BlockVolume /\ dev[h] \in Device

TypeInv == TypeOK /\ LocalsOK

(* The in-flight table holds exactly the volumes of the handlers at work.  *)
Working == {h \in Handler : vol[h] # None}

KeysExact ==
  /\ inFlight = {vol[h] : h \in Working}
  /\ \A g, h \in Working : vol[g] = vol[h] => g = h

(* Unless its device has vanished, a volume is mounted at most once at its *)
(* staging path, from that device, and so are its targets.  A mount is     *)
(* never there without the kubelet or the file system knowing the path.    *)
VolumeOK(v) ==
  /\ v \notin pulled => stageMounts[v] \in {<<>>, <<device[v]>>}
  /\ v \notin stageMaybe => stageMounts[v] = <<>> /\ v \notin staged
  /\ v \in staged \ (BlockVolume \cup pulled) => stageMounts[v] = <<device[v]>>
  /\ \A q \in Pod :
       /\ bound[<<v, q>>] # None => <<v, q>> \in targetDirs /\ <<v, q>> \in publishMaybe
       /\ bound[<<v, q>>] # None => v \in pulled \/ bound[<<v, q>>] = device[v]
       /\ <<v, q>> \in published => v \in pulled \/ bound[<<v, q>>] # None
       /\ <<v, q>> \in published => <<v, q>> \in publishMaybe

(* A handler works on what the kubelet knows it has asked for, and the     *)
(* device it has read is still the one of its volume, or vanished.         *)
HandlerOK(h) ==
  /\ pc[h] \in StagePc \cup UnstagePc => vol[h] \in stageMaybe
  /\ pc[h] \in UnstagePc => vol[h] \notin staged
  /\ pc[h] \in DevicePc => vol[h] \in pulled \/ dev[h] = device[vol[h]]
  /\ pc[h] = "resize" => vol[h] \in pulled \/ stageMounts[vol[h]] = <<device[vol[h]]>>
  /\ pc[h] \in PublishPc \cup UnpublishPc => PairOf(h) \in publishMaybe
  /\ pc[h] \in UnpublishPc => PairOf(h) \notin published
  /\ pc[h] = "bind" => PairOf(h) \in targetDirs

MountInv == (\A v \in Volume : VolumeOK(v)) /\ (\A h \in Handler : HandlerOK(h))
-----------------------------------------------------------------------------
(* A path's mounts. *)

LEMMA OneMountFacts ==
  ASSUME NEW d
  PROVE  /\ First(<<d>>) = d /\ Top(<<d>>) = d /\ Unmounted(<<d>>) = <<>>
         /\ Append(<<>>, d) = <<d>> /\ <<d>> # <<>>
         /\ First(<<>>) = None /\ Top(<<>>) = None /\ Unmounted(<<>>) = <<>>
BY DEF First, Top, Unmounted

LEMMA UnmountedType ==
  ASSUME NEW mounts \in Seq(Device)
  PROVE  Unmounted(mounts) \in Seq(Device)
BY DEF Unmounted
-----------------------------------------------------------------------------
(* Type correctness. *)

HandlerTypes ==
  /\ inFlight \subseteq Volume
  /\ pc \in [Handler -> Pc]
  /\ vol \in [Handler -> Volume \cup {None}]
  /\ pod \in [Handler -> Pod \cup {None}]
  /\ dev \in [Handler -> Device \cup {None}]
  /\ live \in [Handler -> BOOLEAN]

KubeletTypes ==
  /\ staged \subseteq Volume /\ stageMaybe \subseteq Volume
  /\ published \subseteq Pair /\ publishMaybe \subseteq Pair

LEMMA TypeReturn ==
  ASSUME TypeInv, NEW h \in Handler, Return(h)
  PROVE  HandlerTypes' /\ LocalsOK'
<1> USE DEF TypeInv, TypeOK, Return, Delete
<1>1. HandlerTypes'
  BY DEF HandlerTypes, Pc
<1>2. LocalsOK'
  BY DEF LocalsOK, PublishPc, UnpublishPc, DevicePc
<1> QED BY <1>1, <1>2

LEMMA TypeGoTo ==
  ASSUME TypeInv, NEW h \in Handler, NEW n \in Pc \ {"idle"}, GoTo(h, n), pc[h] # "idle",
         dev' \in [Handler -> Device \cup {None}], \A g \in Handler : g # h => dev'[g] = dev[g],
         n \in PublishPc \cup UnpublishPc => pod[h] \in Pod,
         n \in DevicePc => vol[h] \notin BlockVolume /\ dev'[h] \in Device
  PROVE  HandlerTypes' /\ LocalsOK' /\ KubeletTypes'
<1> USE DEF TypeInv, TypeOK, GoTo, kubeletVars
<1>1. HandlerTypes' /\ KubeletTypes'
  BY DEF HandlerTypes, KubeletTypes
<1>2. LocalsOK'
  BY DEF LocalsOK
<1> QED BY <1>1, <1>2

LEMMA TypeAnswer ==
  ASSUME TypeInv, NEW h \in Handler, pc[h] # "idle",
         \/ AnswerError(h) \/ AnswerStaged(h) \/ AnswerUnstaged(h)
         \/ pc[h] \in PublishPc /\ AnswerPublished(h)
         \/ AnswerUnpublished(h)
  PROVE  HandlerTypes' /\ LocalsOK' /\ KubeletTypes'
<1>1. vol[h] \in Volume /\ (pc[h] \in PublishPc => pod[h] \in Pod)
  BY DEF TypeInv, TypeOK, LocalsOK
<1>2. Return(h)
  BY DEF AnswerError, AnswerStaged, AnswerUnstaged, AnswerPublished, AnswerUnpublished
<1>3. staged' \subseteq Volume /\ stageMaybe' \subseteq Volume
  BY <1>1 DEF TypeInv, TypeOK, AnswerError, AnswerStaged, AnswerUnstaged, AnswerPublished,
              AnswerUnpublished, kubeletVars
<1>4. published' \subseteq Pair /\ publishMaybe' \subseteq Pair
  BY <1>1 DEF TypeInv, TypeOK, AnswerError, AnswerStaged, AnswerUnstaged, AnswerPublished,
              AnswerUnpublished, kubeletVars, Pair, PairOf
<1> QED BY <1>2, <1>3, <1>4, TypeReturn DEF KubeletTypes

LEMMA TypeHandler == ASSUME TypeInv, NEW h \in Handler, HandlerStep(h) PROVE TypeInv'
<1> USE DEF StagePc, UnstagePc, PublishPc, UnpublishPc, DevicePc, deviceVars, mountVars, counters
<1> DEFINE OwnTypes == HandlerTypes' /\ LocalsOK' /\ KubeletTypes'
<1>0. /\ pc[h] # "idle" => vol[h] \in Volume
      /\ pc[h] \in PublishPc \cup UnpublishPc => pod[h] \in Pod /\ PairOf(h) \in Pair
  BY DEF TypeInv, TypeOK, LocalsOK, PairOf, Pair
<1>1. CASE Stage(h)
  <2>1. CASE AnswerError(h) \/ AnswerStaged(h)
    BY <1>1, <2>1, TypeAnswer DEF Stage, TypeInv, TypeOK, HandlerTypes, KubeletTypes
  <2>2. CASE /\ vol[h] \notin BlockVolume /\ device[vol[h]] # None
             /\ dev' = [dev EXCEPT ![h] = device[vol[h]]] /\ GoTo(h, "stageCheck")
    <3>1. /\ dev' \in [Handler -> Device \cup {None}] /\ dev'[h] \in Device
          /\ \A g \in Handler : g # h => dev'[g] = dev[g]
      BY <1>0, <1>1, <2>2 DEF Stage, TypeInv, TypeOK
    <3>2. OwnTypes
      BY <1>1, <2>2, <3>1, TypeGoTo DEF Stage, Pc
    <3> QED BY <1>1, <3>2 DEF Stage, TypeInv, TypeOK, HandlerTypes, KubeletTypes
  <2> QED BY <1>1, <2>1, <2>2 DEF Stage
<1>2. CASE StageCheck(h)
  <2>1. OwnTypes
    <3>1. CASE AnswerError(h) \/ AnswerStaged(h)
      BY <1>2, <3>1, TypeAnswer DEF StageCheck
    <3>2. CASE GoTo(h, "mount") /\ UNCHANGED dev
      BY <1>2, <3>2, TypeGoTo DEF StageCheck, Pc, TypeInv, TypeOK, LocalsOK
    <3> QED BY <1>2, <3>1, <3>2 DEF StageCheck
  <2>2. stageDirs' \subseteq Volume
    BY <1>0, <1>2 DEF StageCheck, TypeInv, TypeOK
  <2> QED BY <1>2, <2>1, <2>2 DEF StageCheck, TypeInv, TypeOK, HandlerTypes, KubeletTypes
<1>3. CASE FormatAndMount(h)
  <2>1. OwnTypes
    <3>1. CASE AnswerError(h) \/ AnswerStaged(h)
      BY <1>3, <3>1, TypeAnswer DEF FormatAndMount
    <3>2. CASE GoTo(h, "resize") /\ UNCHANGED dev
      BY <1>3, <3>2, TypeGoTo DEF FormatAndMount, Pc, TypeInv, TypeOK, LocalsOK
    <3> QED BY <1>3, <3>1, <3>2 DEF FormatAndMount
  <2>2. stageMounts' \in [Volume -> Seq(Device)]
    <3>1. dev[h] \in Device /\ stageMounts[vol[h]] \in Seq(Device)
      BY <1>0, <1>3 DEF FormatAndMount, TypeInv, TypeOK, LocalsOK
    <3>2. Append(stageMounts[vol[h]], dev[h]) \in Seq(Device)
      BY <3>1
    <3> QED BY <1>3, <3>2 DEF FormatAndMount, TypeInv, TypeOK
  <2> QED BY <1>3, <2>1, <2>2 DEF FormatAndMount, TypeInv, TypeOK, HandlerTypes, KubeletTypes
<1>4. CASE Resize(h)
  <2>1. OwnTypes
    BY <1>4, TypeAnswer DEF Resize
  <2>2. grown' \subseteq Volume /\ resizeFailed' \subseteq Volume
    BY <1>0, <1>4 DEF Resize, TypeInv, TypeOK
  <2> QED BY <1>4, <2>1, <2>2 DEF Resize, TypeInv, TypeOK, HandlerTypes, KubeletTypes
<1>5. CASE Unstage(h)
  <2>1. OwnTypes
    <3>1. CASE AnswerError(h)
      BY <1>5, <3>1, TypeAnswer DEF Unstage
    <3>2. CASE GoTo(h, "removeStage") /\ UNCHANGED dev
      BY <1>5, <3>2, TypeGoTo DEF Unstage, Pc, TypeInv, TypeOK
    <3> QED BY <1>5, <3>1, <3>2 DEF Unstage
  <2>2. stageMounts' \in [Volume -> Seq(Device)]
    <3>1. Unmounted(stageMounts[vol[h]]) \in Seq(Device)
      BY <1>0, <1>5, UnmountedType DEF Unstage, TypeInv, TypeOK
    <3> QED BY <1>5, <3>1 DEF Unstage, TypeInv, TypeOK
  <2> QED BY <1>5, <2>1, <2>2 DEF Unstage, TypeInv, TypeOK, HandlerTypes, KubeletTypes
<1>6. CASE RemoveStage(h)
  <2>1. OwnTypes
    BY <1>6, TypeAnswer DEF RemoveStage
  <2>2. stageDirs' \subseteq Volume
    BY <1>6 DEF RemoveStage, TypeInv, TypeOK
  <2> QED BY <1>6, <2>1, <2>2 DEF RemoveStage, TypeInv, TypeOK, HandlerTypes, KubeletTypes
<1>7. CASE Publish(h)
  <2>1. OwnTypes
    <3>1. CASE AnswerError(h) \/ AnswerPublished(h)
      BY <1>7, <3>1, TypeAnswer DEF Publish
    <3>2. CASE GoTo(h, "bind") /\ UNCHANGED dev
      BY <1>0, <1>7, <3>2, TypeGoTo DEF Publish, Pc, TypeInv, TypeOK
    <3> QED BY <1>7, <3>1, <3>2 DEF Publish
  <2>2. targetDirs' \subseteq Pair
    BY <1>0, <1>7 DEF Publish, TypeInv, TypeOK
  <2> QED BY <1>7, <2>1, <2>2 DEF Publish, TypeInv, TypeOK, HandlerTypes, KubeletTypes
<1>8. CASE Bind(h)
  <2>1. OwnTypes
    BY <1>8, TypeAnswer DEF Bind
  <2>2. bound' \in [Pair -> Device \cup {None}]
    <3>1. stageMounts[vol[h]] \in Seq(Device) /\ device[vol[h]] \in Device \cup {None}
      BY <1>0, <1>8 DEF Bind, TypeInv, TypeOK
    <3>2. Top(stageMounts[vol[h]]) \in Device \cup {None}
      BY <3>1 DEF Top
    <3>3. CASE UNCHANGED bound
      BY <3>3 DEF TypeInv, TypeOK
    <3>4. CASE \E d \in Device \cup {None} : bound' = [bound EXCEPT ![PairOf(h)] = d]
      BY <3>4 DEF TypeInv, TypeOK
    <3> QED BY <1>8, <3>1, <3>2, <3>3, <3>4 DEF Bind
  <2> QED BY <1>8, <2>1, <2>2 DEF Bind, TypeInv, TypeOK, HandlerTypes, KubeletTypes
<1>9. CASE Unpublish(h)
  <2>1. OwnTypes
    <3>1. CASE AnswerError(h) \/ AnswerUnpublished(h)
      BY <1>9, <3>1, TypeAnswer DEF Unpublish
    <3>2. CASE GoTo(h, "removeTarget") /\ UNCHANGED dev
      BY <1>0, <1>9, <3>2, TypeGoTo DEF Unpublish, Pc, TypeInv, TypeOK
    <3> QED BY <1>9, <3>1, <3>2 DEF Unpublish
  <2>2. bound' \in [Pair -> Device \cup {None}]
    BY <1>9 DEF Unpublish, TypeInv, TypeOK
  <2> QED BY <1>9, <2>1, <2>2 DEF Unpublish, TypeInv, TypeOK, HandlerTypes, KubeletTypes
<1>10. CASE RemoveTarget(h)
  <2>1. OwnTypes
    BY <1>10, TypeAnswer DEF RemoveTarget
  <2>2. targetDirs' \subseteq Pair
    BY <1>10 DEF RemoveTarget, TypeInv, TypeOK
  <2> QED BY <1>10, <2>1, <2>2 DEF RemoveTarget, TypeInv, TypeOK, HandlerTypes, KubeletTypes
<1> QED BY <1>1, <1>2, <1>3, <1>4, <1>5, <1>6, <1>7, <1>8, <1>9, <1>10 DEF HandlerStep

LEMMA TypeArrive ==
  ASSUME TypeInv, NEW h \in Handler, NEW v \in Volume, NEW p \in Pod \cup {None},
         NEW start \in {"stage", "unstage", "publish", "unpublish"}, Arrive(h, v, p, start),
         start \in {"publish", "unpublish"} => p \in Pod
  PROVE  HandlerTypes' /\ LocalsOK'
<1> USE NodeAssumption DEF TypeInv, TypeOK
<1>1. CASE CanInsert(inFlight, v)
  <2>1. HandlerTypes'
    <3>1. start \in Pc
      BY DEF Pc
    <3>2. pc' \in [Handler -> Pc] /\ inFlight' \subseteq Volume
      BY <1>1, <3>1 DEF Arrive, Insert
    <3>3. vol' \in [Handler -> Volume \cup {None}]
      <4>1. vol' = [vol EXCEPT ![h] = v]
        BY <1>1 DEF Arrive
      <4> QED BY <4>1
    <3>4. pod' \in [Handler -> Pod \cup {None}]
      <4>1. pod' = [pod EXCEPT ![h] = p]
        BY <1>1 DEF Arrive
      <4> QED BY <4>1
    <3>5. live' \in [Handler -> BOOLEAN] /\ UNCHANGED dev
      BY <1>1 DEF Arrive
    <3> QED BY <3>2, <3>3, <3>4, <3>5 DEF HandlerTypes
  <2>2. LocalsOK'
    BY <1>1 DEF Arrive, LocalsOK, PublishPc, UnpublishPc, DevicePc
  <2> QED BY <2>1, <2>2
<1>2. CASE ~CanInsert(inFlight, v)
  BY <1>2 DEF Arrive, HandlerTypes, LocalsOK
<1> QED BY <1>1, <1>2

LEMMA TypeCall ==
  ASSUME TypeInv, NEW h \in Handler,
         CallStage(h) \/ CallUnstage(h) \/ CallPublish(h) \/ CallUnpublish(h)
  PROVE  TypeInv'
<1> USE DEF TypeInv, TypeOK, HandlerTypes
<1>1. CASE CallStage(h)
  <2>1. PICK v \in Volume : Arrive(h, v, None, "stage") /\ stageMaybe' = stageMaybe \cup {v}
    BY <1>1 DEF CallStage
  <2>2. HandlerTypes' /\ LocalsOK'
    BY <2>1, TypeArrive
  <2> QED BY <1>1, <2>1, <2>2 DEF CallStage, Arrive, deviceVars, mountVars, counters
<1>2. CASE CallUnstage(h)
  <2>1. PICK v \in stageMaybe : Arrive(h, v, None, "unstage") /\ staged' = staged \ {v}
    BY <1>2 DEF CallUnstage
  <2>2. HandlerTypes' /\ LocalsOK'
    BY <2>1, TypeArrive
  <2> QED BY <1>2, <2>1, <2>2 DEF CallUnstage, Arrive, deviceVars, mountVars, counters
<1>3. CASE CallPublish(h)
  <2>1. PICK v \in staged, p \in Pod :
          Arrive(h, v, p, "publish") /\ publishMaybe' = publishMaybe \cup {<<v, p>>}
    BY <1>3 DEF CallPublish
  <2>2. HandlerTypes' /\ LocalsOK'
    BY <2>1, TypeArrive
  <2>3. publishMaybe' \subseteq Pair
    BY <2>1 DEF Pair
  <2> QED BY <1>3, <2>1, <2>2, <2>3 DEF CallPublish, Arrive, deviceVars, mountVars, counters
<1>4. CASE CallUnpublish(h)
  <2>1. PICK p \in publishMaybe :
          Arrive(h, p[1], p[2], "unpublish") /\ published' = published \ {p}
    BY <1>4 DEF CallUnpublish
  <2>2. p[1] \in Volume /\ p[2] \in Pod
    BY DEF Pair
  <2>3. HandlerTypes' /\ LocalsOK'
    BY <2>1, <2>2, TypeArrive
  <2> QED BY <1>4, <2>1, <2>3 DEF CallUnpublish, Arrive, deviceVars, mountVars, counters
<1> QED BY <1>1, <1>2, <1>3, <1>4

LEMMA TypeWorld ==
  ASSUME TypeInv, \/ Restart \/ Reboot \/ \E v \in Volume : Attach(v) \/ Detach(v)
                  \/ \E h \in Handler : Deadline(h)
  PROVE  TypeInv'
<1> USE NodeAssumption
    DEF TypeInv, TypeOK, handlerVars, deviceVars, mountVars, kubeletVars, counters
<1>1. LoseHandlers => HandlerTypes' /\ LocalsOK' /\ restarts' \in 0..MaxRestarts
  BY DEF LoseHandlers, HandlerTypes, LocalsOK, NewInFlight, Pc, PublishPc, UnpublishPc, DevicePc
<1>2. CASE Restart
  BY <1>1, <1>2 DEF Restart, HandlerTypes
<1>3. CASE Reboot
  <2>1. stageMounts' \in [Volume -> Seq(Device)] /\ bound' \in [Pair -> Device \cup {None}]
    BY <1>3 DEF Reboot
  <2> QED BY <1>1, <1>3, <2>1 DEF Reboot, HandlerTypes
<1>4. ASSUME NEW v \in Volume, Attach(v) PROVE TypeInv'
  <2>1. device' \in [Volume -> Device \cup {None}] /\ attaches' \in 0..MaxAttaches
    BY <1>4 DEF Attach
  <2> QED BY <1>4, <2>1 DEF Attach, LocalsOK
<1>5. ASSUME NEW v \in Volume, Detach(v) PROVE TypeInv'
  <2>1. device' \in [Volume -> Device \cup {None}] /\ pulled' \subseteq Volume
    BY <1>5 DEF Detach
  <2> QED BY <1>5, <2>1 DEF Detach, LocalsOK
<1>6. ASSUME NEW h \in Handler, Deadline(h) PROVE TypeInv'
  <2>1. live' \in [Handler -> BOOLEAN]
    BY <1>6 DEF Deadline
  <2> QED BY <1>6, <2>1 DEF Deadline, LocalsOK
<1> QED BY <1>2, <1>3, <1>4, <1>5, <1>6

LEMMA TypeInit == Init => TypeInv
<1> SUFFICES ASSUME Init PROVE TypeInv
  OBVIOUS
<1>1. restarts \in 0..MaxRestarts /\ attaches \in 0..MaxAttaches
  BY NodeAssumption DEF Init
<1>2. stageMounts \in [Volume -> Seq(Device)]
  BY DEF Init
<1>3. LocalsOK /\ HandlerTypes
  BY NodeAssumption
     DEF Init, LocalsOK, HandlerTypes, NewInFlight, Pc, PublishPc, UnpublishPc, DevicePc
<1> QED BY <1>1, <1>2, <1>3, NodeAssumption DEF Init, TypeInv, TypeOK, HandlerTypes

LEMMA TypeStep == ASSUME TypeInv, [Next]_vars PROVE TypeInv'
<1>1. CASE UNCHANGED vars
  BY <1>1 DEF vars, handlerVars, deviceVars, mountVars, kubeletVars, counters, TypeInv, TypeOK,
              LocalsOK
<1> QED BY <1>1, TypeCall, TypeHandler, TypeWorld DEF Next

LEMMA TypeInvariant == Spec => []TypeInv
BY TypeInit, TypeStep, PTL DEF Spec

(* Every variable keeps its type: staging never mounts a device that was   *)
(* not found, and the target path always names a volume and a pod.         *)
THEOREM TypeCorrect == Spec => []TypeOK
<1>1. TypeInv => TypeOK
  BY DEF TypeInv
<1> QED BY <1>1, TypeInvariant, PTL
-----------------------------------------------------------------------------
(* The in-flight table. *)

(* How a step changes who works on what: one handler enters with a free    *)
(* volume, one leaves, all leave, or nobody moves.                         *)
Enters(h, v) == /\ vol[h] = None /\ v \notin inFlight
                /\ vol' = [vol EXCEPT ![h] = v] /\ inFlight' = inFlight \cup {v}
Leaves(h)  == vol[h] # None /\ Return(h)
AllLeave   == vol' = [h \in Handler |-> None] /\ inFlight' = {}
NoneMoves  == UNCHANGED <<inFlight, vol>>

LEMMA StepKinds ==
  ASSUME TypeInv, [Next]_vars
  PROVE  \/ NoneMoves \/ AllLeave
         \/ \E h \in Handler : Leaves(h) \/ \E v \in Volume : Enters(h, v)
<1> USE DEF TypeInv, TypeOK, NoneMoves
<1>1. ASSUME NEW h \in Handler, NEW v, NEW p, NEW start, Arrive(h, v, p, start)
      PROVE  NoneMoves \/ Enters(h, v)
  BY <1>1 DEF Arrive, CanInsert, Insert, Enters, LocalsOK
<1>2. ASSUME NEW h \in Handler,
             CallStage(h) \/ CallUnstage(h) \/ CallPublish(h) \/ CallUnpublish(h)
      PROVE  NoneMoves \/ \E v \in Volume : Enters(h, v)
  <2>1. PICK v \in Volume, p \in Pod \cup {None}, start \in Pc : Arrive(h, v, p, start)
    BY <1>2 DEF CallStage, CallUnstage, CallPublish, CallUnpublish, Pair, Pc
  <2> QED BY <1>1, <2>1
<1>3. ASSUME NEW h \in Handler, Deadline(h) PROVE NoneMoves
  BY <1>3 DEF Deadline
<1>4. ASSUME NEW h \in Handler, HandlerStep(h) PROVE NoneMoves \/ Leaves(h)
  <2>1. vol[h] # None
    BY <1>4 DEF LocalsOK, HandlerStep, Stage, StageCheck, FormatAndMount, Resize, Unstage,
                RemoveStage, Publish, Bind, Unpublish, RemoveTarget
  <2>2. Return(h) \/ UNCHANGED <<inFlight, vol>>
    BY <1>4 DEF HandlerStep, Stage, StageCheck, FormatAndMount, Resize, Unstage, RemoveStage,
                Publish, Bind, Unpublish, RemoveTarget, GoTo, AnswerError, AnswerStaged,
                AnswerUnstaged, AnswerPublished, AnswerUnpublished
  <2> QED BY <2>1, <2>2 DEF Leaves
<1>5. CASE Restart \/ Reboot
  BY <1>5 DEF Restart, Reboot, LoseHandlers, AllLeave, NewInFlight
<1>6. CASE \/ UNCHANGED vars \/ \E v \in Volume : Attach(v) \/ Detach(v)
  BY <1>6 DEF vars, Attach, Detach, handlerVars
<1> QED BY <1>2, <1>3, <1>4, <1>5, <1>6 DEF Next

LEMMA KeysStep == ASSUME TypeInv, KeysExact, [Next]_vars PROVE KeysExact'
<1> USE DEF TypeInv, TypeOK, KeysExact, Working
<1>1. CASE NoneMoves
  BY <1>1 DEF NoneMoves
<1>2. CASE AllLeave
  BY <1>2 DEF AllLeave
<1>3. ASSUME NEW h \in Handler, NEW v \in Volume, Enters(h, v) PROVE KeysExact'
  <2>1. v # None /\ Working' = Working \cup {h} /\ \A g \in Working : vol'[g] = vol[g]
    BY <1>3, NodeAssumption DEF Enters
  <2> QED BY <1>3, <2>1 DEF Enters
<1>4. ASSUME NEW h \in Handler, Leaves(h) PROVE KeysExact'
  <2>1. Working' = Working \ {h} /\ \A g \in Working \ {h} : vol'[g] = vol[g]
    BY <1>4 DEF Leaves, Return
  <2>2. inFlight' = inFlight \ {vol[h]}
    BY <1>4 DEF Leaves, Return, Delete
  <2> QED BY <1>4, <2>1, <2>2 DEF Leaves
<1> QED BY <1>1, <1>2, <1>3, <1>4, StepKinds

(* The table never loses the volume of a running call nor keeps that of a  *)
(* finished one, so the four RPCs of a volume keep out of each other.      *)
THEOREM InFlightExact == Spec => []KeysExact
<1>1. Init => KeysExact
  BY DEF Init, KeysExact, Working, NewInFlight
<1>2. TypeInv /\ KeysExact /\ [Next]_vars => KeysExact'
  BY KeysStep
<1> QED BY <1>1, <1>2, TypeInvariant, PTL DEF Spec

(* The handlers implement the abstract exclusion: every step starts one    *)
(* operation on a free volume, ends one, ends them all, or changes nothing.*)
THEOREM ExclusionRefined == Spec => ImplementsExclusion
<1>1. Init => Exclusive!Init
  BY DEF Init, Exclusive!Init
<1>2. ASSUME TypeInv, KeysExact, [Next]_vars
      PROVE  [Exclusive!Next]_vol
  <2>1. CASE NoneMoves
    BY <2>1 DEF NoneMoves
  <2>2. CASE AllLeave
    BY <2>2 DEF AllLeave, Exclusive!Next, Exclusive!Crash
  <2>3. ASSUME NEW h \in Handler, NEW v \in Volume, Enters(h, v) PROVE Exclusive!Next
    <3>1. \A g \in Handler : vol[g] # v
      BY <1>2, <2>3, NodeAssumption DEF Enters, KeysExact, Working
    <3> QED BY <2>3, <3>1 DEF Enters, Exclusive!Next, Exclusive!Start
  <2>4. ASSUME NEW h \in Handler, Leaves(h) PROVE Exclusive!Next
    BY <2>4 DEF Leaves, Return, Exclusive!Next, Exclusive!Finish
  <2> QED BY <1>2, <2>1, <2>2, <2>3, <2>4, StepKinds
<1> QED BY <1>1, <1>2, TypeInvariant, InFlightExact, PTL DEF Spec, ImplementsExclusion, Exclusive!Spec
-----------------------------------------------------------------------------
(* The mounts. *)

(* A step of handler h, which works on volume v, leaves alone every other  *)
(* handler and what belongs to other volumes.                              *)
Elsewhere(h, v) ==
  /\ UNCHANGED <<device, pulled>>
  /\ \A g \in Handler \ {h} : /\ pc'[g] = pc[g] /\ vol'[g] = vol[g]
                              /\ pod'[g] = pod[g] /\ dev'[g] = dev[g]
  /\ \A w \in Volume \ {v} :
       /\ stageMounts'[w] = stageMounts[w]
       /\ w \in staged' <=> w \in staged
       /\ w \in stageMaybe' <=> w \in stageMaybe
       /\ \A q \in Pod :
            /\ bound'[<<w, q>>] = bound[<<w, q>>]
            /\ <<w, q>> \in targetDirs' <=> <<w, q>> \in targetDirs
            /\ <<w, q>> \in published' <=> <<w, q>> \in published
            /\ <<w, q>> \in publishMaybe' <=> <<w, q>> \in publishMaybe

LEMMA HandlerWhere ==
  ASSUME TypeInv, NEW h \in Handler, HandlerStep(h)
  PROVE  vol[h] \in Volume /\ Elsewhere(h, vol[h])
<1> USE DEF TypeInv, TypeOK, LocalsOK, StagePc, UnstagePc, PublishPc, UnpublishPc, DevicePc,
            deviceVars, mountVars, kubeletVars
<1>1. vol[h] \in Volume
  BY DEF HandlerStep, Stage, StageCheck, FormatAndMount, Resize, Unstage, RemoveStage, Publish,
         Bind, Unpublish, RemoveTarget
<1>2. UNCHANGED <<device, pulled>>
  BY DEF HandlerStep, Stage, StageCheck, FormatAndMount, Resize, Unstage, RemoveStage, Publish,
         Bind, Unpublish, RemoveTarget
<1>3. pc[h] \in PublishPc \cup UnpublishPc => PairOf(h) \in Pair
  BY <1>1 DEF PairOf, Pair
<1>4. \A g \in Handler \ {h} : /\ pc'[g] = pc[g] /\ vol'[g] = vol[g]
                               /\ pod'[g] = pod[g] /\ dev'[g] = dev[g]
  BY DEF HandlerStep, Stage, StageCheck, FormatAndMount, Resize, Unstage, RemoveStage, Publish,
         Bind, Unpublish, RemoveTarget, GoTo, AnswerError, AnswerStaged,
         AnswerUnstaged, AnswerPublished, AnswerUnpublished, Return
<1>5. \A w \in Volume \ {vol[h]} : stageMounts'[w] = stageMounts[w]
  BY DEF HandlerStep, Stage, StageCheck, FormatAndMount, Resize, Unstage, RemoveStage, Publish,
         Bind, Unpublish, RemoveTarget
<1>6. \A w \in Volume \ {vol[h]} :
        /\ w \in staged' <=> w \in staged
        /\ w \in stageMaybe' <=> w \in stageMaybe
  BY DEF HandlerStep, Stage, StageCheck, FormatAndMount, Resize, Unstage, RemoveStage, Publish,
         Bind, Unpublish, RemoveTarget, GoTo, AnswerError, AnswerStaged,
         AnswerUnstaged, AnswerPublished, AnswerUnpublished
<1>7. \A w \in Volume \ {vol[h]}, q \in Pod :
        /\ <<w, q>> \in targetDirs' <=> <<w, q>> \in targetDirs
        /\ <<w, q>> \in published' <=> <<w, q>> \in published
        /\ <<w, q>> \in publishMaybe' <=> <<w, q>> \in publishMaybe
  BY DEF HandlerStep, Stage, StageCheck, FormatAndMount, Resize, Unstage, RemoveStage, Publish,
         Bind, Unpublish, RemoveTarget, GoTo, AnswerError, AnswerStaged,
         AnswerUnstaged, AnswerPublished, AnswerUnpublished, PairOf
<1>8. \A w \in Volume \ {vol[h]}, q \in Pod : bound'[<<w, q>>] = bound[<<w, q>>]
  <2>1. \/ UNCHANGED bound
        \/ pc[h] \in PublishPc \cup UnpublishPc /\ \E d : bound' = [bound EXCEPT ![PairOf(h)] = d]
    BY DEF HandlerStep, Stage, StageCheck, FormatAndMount, Resize, Unstage, RemoveStage, Publish,
           Bind, Unpublish, RemoveTarget
  <2>2. \A w \in Volume \ {vol[h]}, q \in Pod : <<w, q>> \in Pair /\ <<w, q>> # PairOf(h)
    BY DEF Pair, PairOf
  <2> QED BY <1>3, <2>1, <2>2
<1> QED BY <1>1, <1>2, <1>4, <1>5, <1>6, <1>7, <1>8 DEF Elsewhere

(* So it is enough to look at the handler and its volume.                  *)
LEMMA OthersKept ==
  ASSUME TypeInv, TypeInv', KeysExact, MountInv, NEW h \in Handler, NEW v \in Volume,
         v = vol[h], Elsewhere(h, v), VolumeOK(v)', HandlerOK(h)'
  PROVE  MountInv'
<1>1. ASSUME NEW w \in Volume PROVE VolumeOK(w)'
  <2>1. CASE w = v
    BY <2>1
  <2>2. CASE w # v
    BY <2>2 DEF MountInv, VolumeOK, Elsewhere
  <2> QED BY <2>1, <2>2
<1>2. ASSUME NEW g \in Handler PROVE HandlerOK(g)'
  <2>1. CASE g = h
    BY <2>1
  <2>2. CASE g # h /\ pc[g] = "idle"
    BY <2>2 DEF Elsewhere, HandlerOK, StagePc, UnstagePc, PublishPc, UnpublishPc, DevicePc
  <2>3. CASE g # h /\ pc[g] # "idle"
    <3>1. vol[g] \in Volume \ {v}
      BY <2>3, NodeAssumption DEF TypeInv, TypeOK, LocalsOK, KeysExact, Working
    <3>2. pc[g] \in PublishPc \cup UnpublishPc => pod[g] \in Pod
      BY DEF TypeInv, LocalsOK
    <3>3. /\ pc'[g] = pc[g] /\ vol'[g] = vol[g] /\ pod'[g] = pod[g] /\ dev'[g] = dev[g]
      BY <2>3 DEF Elsewhere
    <3>4. /\ UNCHANGED <<device, pulled>>
          /\ stageMounts'[vol[g]] = stageMounts[vol[g]]
          /\ vol[g] \in staged' <=> vol[g] \in staged
          /\ vol[g] \in stageMaybe' <=> vol[g] \in stageMaybe
      BY <3>1 DEF Elsewhere
    <3>5. pc[g] \in PublishPc \cup UnpublishPc =>
            /\ PairOf(g)' = PairOf(g)
            /\ PairOf(g) \in targetDirs' <=> PairOf(g) \in targetDirs
            /\ PairOf(g) \in published' <=> PairOf(g) \in published
            /\ PairOf(g) \in publishMaybe' <=> PairOf(g) \in publishMaybe
      BY <3>1, <3>2, <3>3 DEF Elsewhere, PairOf
    <3>6. HandlerOK(g)
      BY DEF MountInv
    <3> QED BY <3>3, <3>4, <3>5, <3>6 DEF HandlerOK, PublishPc
  <2> QED BY <2>1, <2>2, <2>3
<1> QED BY <1>1, <1>2 DEF MountInv

(* NodeStageVolume and NodeUnstageVolume.                                  *)
LEMMA StageKept ==
  ASSUME TypeInv, MountInv, NEW h \in Handler, NEW v \in Volume, v = vol[h],
         \/ Stage(h) \/ StageCheck(h) \/ FormatAndMount(h) \/ Resize(h)
         \/ Unstage(h) \/ RemoveStage(h)
  PROVE  VolumeOK(v)' /\ HandlerOK(h)'
<1> USE DEF TypeInv, TypeOK, StagePc, UnstagePc, PublishPc, UnpublishPc, DevicePc,
            deviceVars, mountVars, kubeletVars
<1>0. VolumeOK(v) /\ HandlerOK(h) /\ (pc[h] \in DevicePc => v \notin BlockVolume)
  BY DEF MountInv, LocalsOK
<1>1. pc'[h] = "idle" => HandlerOK(h)'
  BY DEF HandlerOK
<1>2. ASSUME Return(h) PROVE pc'[h] = "idle"
  BY <1>2 DEF Return
<1>3. ASSUME AnswerError(h), UNCHANGED <<device, pulled, stageMounts, bound, targetDirs>>
      PROVE  VolumeOK(v)' /\ HandlerOK(h)'
  BY <1>0, <1>1, <1>2, <1>3 DEF AnswerError, VolumeOK
<1>4. ASSUME AnswerStaged(h), UNCHANGED <<device, pulled, bound, targetDirs>>,
             v \in stageMaybe, v \in BlockVolume \cup pulled \/ stageMounts'[v] = <<device[v]>>,
             v \notin pulled => stageMounts'[v] \in {<<>>, <<device[v]>>}
      PROVE  VolumeOK(v)' /\ HandlerOK(h)'
  BY <1>0, <1>1, <1>2, <1>4 DEF AnswerStaged, VolumeOK
<1>5. ASSUME NEW n, GoTo(h, n) PROVE pc'[h] = n /\ vol'[h] = v /\ PairOf(h)' = PairOf(h)
  BY <1>5 DEF GoTo, PairOf
<1>6. CASE Stage(h)
  <2>1. CASE AnswerError(h)
    BY <1>3, <1>6, <2>1 DEF Stage
  <2>2. CASE v \in BlockVolume /\ AnswerStaged(h)
    BY <1>0, <1>4, <1>6, <2>2 DEF Stage, HandlerOK, VolumeOK
  <2>3. CASE dev' = [dev EXCEPT ![h] = device[vol[h]]] /\ GoTo(h, "stageCheck")
    <3>1. dev'[h] = device[v]
      BY <2>3
    <3>2. VolumeOK(v)'
      BY <1>0, <1>6, <2>3 DEF Stage, GoTo, VolumeOK
    <3>3. HandlerOK(h)'
      BY <1>0, <1>5, <1>6, <2>3, <3>1 DEF Stage, GoTo, HandlerOK
    <3> QED BY <3>2, <3>3
  <2> QED BY <1>6, <2>1, <2>2, <2>3 DEF Stage
<1>7. CASE StageCheck(h)
  <2>1. CASE AnswerError(h)
    BY <1>3, <1>7, <2>1 DEF StageCheck
  <2>2. CASE First(stageMounts[v]) = dev[h] /\ AnswerStaged(h)
    <3>1. dev[h] \in Device
      BY <1>7 DEF StageCheck, LocalsOK
    <3>2. v \in pulled \/ stageMounts[v] = <<device[v]>>
      <4>1. First(stageMounts[v]) # None
        BY <2>2, <3>1, NodeAssumption
      <4>2. stageMounts[v] # <<>>
        BY <4>1, OneMountFacts
      <4> QED BY <1>0, <4>2 DEF VolumeOK
    <3> QED BY <1>0, <1>4, <1>7, <2>2, <3>2 DEF StageCheck, HandlerOK, VolumeOK
  <2>3. CASE GoTo(h, "mount") /\ UNCHANGED dev
    <3>1. VolumeOK(v)'
      BY <1>0, <1>7, <2>3 DEF StageCheck, GoTo, VolumeOK
    <3>2. HandlerOK(h)'
      BY <1>0, <1>5, <1>7, <2>3 DEF StageCheck, GoTo, HandlerOK
    <3> QED BY <3>1, <3>2
  <2> QED BY <1>7, <2>1, <2>2, <2>3 DEF StageCheck
<1>8. CASE FormatAndMount(h)
  <2>1. CASE AnswerError(h) /\ UNCHANGED stageMounts
    BY <1>3, <1>8, <2>1 DEF FormatAndMount
  <2>2. CASE /\ Top(stageMounts[v]) # dev[h]
             /\ stageMounts' = [stageMounts EXCEPT ![v] = Append(@, dev[h])]
    <3>1. v \in pulled \/ stageMounts[v] = <<>>
      BY <1>0, <1>8, <2>2, OneMountFacts DEF FormatAndMount, HandlerOK, VolumeOK
    <3>2. /\ stageMounts'[v] = Append(stageMounts[v], dev[h])
          /\ v \in pulled \/ dev[h] = device[v]
      BY <1>0, <1>8, <2>2 DEF FormatAndMount, HandlerOK
    <3>3. v \in pulled \/ stageMounts'[v] = <<device[v]>>
      BY <3>1, <3>2, OneMountFacts
    <3>4. v \in stageMaybe
      BY <1>0, <1>8 DEF FormatAndMount, HandlerOK
    <3>5. CASE AnswerStaged(h)
      BY <1>4, <1>8, <3>3, <3>4, <3>5 DEF FormatAndMount
    <3>6. CASE GoTo(h, "resize") /\ UNCHANGED dev
      <4>1. VolumeOK(v)'
        BY <1>0, <1>8, <3>3, <3>4, <3>6 DEF FormatAndMount, GoTo, VolumeOK
      <4>2. HandlerOK(h)'
        BY <1>0, <1>5, <1>8, <3>3, <3>4, <3>6 DEF FormatAndMount, GoTo, HandlerOK
      <4> QED BY <4>1, <4>2
    <3> QED BY <1>8, <2>2, <3>5, <3>6 DEF FormatAndMount
  <2> QED BY <1>8, <2>1, <2>2 DEF FormatAndMount
<1>9. CASE Resize(h)
  <2>1. v \in stageMaybe /\ (v \in pulled \/ stageMounts[v] = <<device[v]>>)
    BY <1>0, <1>9 DEF Resize, HandlerOK
  <2>2. CASE AnswerError(h)
    BY <1>3, <1>9, <2>2 DEF Resize
  <2>3. CASE AnswerStaged(h)
    BY <1>4, <1>9, <2>1, <2>3 DEF Resize
  <2> QED BY <1>9, <2>2, <2>3 DEF Resize
<1>10. CASE Unstage(h)
  <2>1. CASE AnswerError(h) /\ UNCHANGED stageMounts
    BY <1>3, <1>10, <2>1 DEF Unstage
  <2>2. CASE /\ stageMounts' = [stageMounts EXCEPT ![v] = Unmounted(@)]
             /\ GoTo(h, "removeStage") /\ UNCHANGED dev
    <3>1. v \notin staged /\ v \in stageMaybe
      BY <1>0, <1>10 DEF Unstage, HandlerOK
    <3>2. v \in pulled \/ stageMounts'[v] = <<>>
      BY <1>0, <2>2, OneMountFacts DEF VolumeOK
    <3>3. VolumeOK(v)'
      BY <1>0, <1>10, <2>2, <3>1, <3>2 DEF Unstage, GoTo, VolumeOK
    <3>4. HandlerOK(h)'
      BY <1>0, <1>5, <1>10, <2>2, <3>1 DEF Unstage, GoTo, HandlerOK
    <3> QED BY <3>3, <3>4
  <2> QED BY <1>10, <2>1, <2>2 DEF Unstage
<1>11. CASE RemoveStage(h)
  <2>1. CASE AnswerError(h)
    BY <1>3, <1>11, <2>1 DEF RemoveStage
  <2>2. CASE stageMounts[v] = <<>> /\ AnswerUnstaged(h)
    <3>1. v \notin staged
      BY <1>0, <1>11 DEF RemoveStage, HandlerOK
    <3>2. VolumeOK(v)'
      BY <1>0, <1>11, <2>2, <3>1 DEF RemoveStage, AnswerUnstaged, VolumeOK
    <3> QED BY <1>1, <1>2, <2>2, <3>2 DEF AnswerUnstaged
  <2> QED BY <1>11, <2>1, <2>2 DEF RemoveStage
<1> QED BY <1>6, <1>7, <1>8, <1>9, <1>10, <1>11

(* NodePublishVolume and NodeUnpublishVolume.                              *)
LEMMA PublishKept ==
  ASSUME TypeInv, MountInv, NEW h \in Handler, NEW v \in Volume, v = vol[h],
         Publish(h) \/ Bind(h) \/ Unpublish(h) \/ RemoveTarget(h)
  PROVE  VolumeOK(v)' /\ HandlerOK(h)'
<1> USE DEF TypeInv, TypeOK, StagePc, UnstagePc, PublishPc, UnpublishPc, DevicePc,
            deviceVars, mountVars, kubeletVars
<1>0. VolumeOK(v) /\ HandlerOK(h) /\ pod[h] \in Pod
  BY DEF MountInv, LocalsOK, Publish, Bind, Unpublish, RemoveTarget
<1> DEFINE q == pod[h]
<1>1. PairOf(h) = <<v, q>> /\ \A r \in Pod : <<v, r>> \in Pair /\ (<<v, r>> = <<v, q>> <=> r = q)
  BY DEF PairOf, Pair
<1>2. pc'[h] = "idle" => HandlerOK(h)'
  BY DEF HandlerOK
<1>3. ASSUME Return(h) PROVE pc'[h] = "idle"
  BY <1>3 DEF Return
<1>4. ASSUME AnswerError(h),
             UNCHANGED <<device, pulled, stageMounts, bound>>,
             \A r \in Pod : bound[<<v, r>>] # None => <<v, r>> \in targetDirs'
      PROVE  VolumeOK(v)' /\ HandlerOK(h)'
  BY <1>0, <1>2, <1>3, <1>4 DEF AnswerError, VolumeOK
<1>5. ASSUME NEW n, GoTo(h, n)
      PROVE  pc'[h] = n /\ vol'[h] = v /\ PairOf(h)' = PairOf(h) /\ UNCHANGED kubeletVars
  BY <1>5 DEF GoTo, PairOf
<1>6. CASE Publish(h)
  <2>1. <<v, q>> \in publishMaybe
    BY <1>0, <1>1, <1>6 DEF Publish, HandlerOK
  <2>2. CASE AnswerError(h) /\ UNCHANGED targetDirs
    BY <1>0, <1>4, <1>6, <2>2 DEF Publish, VolumeOK
  <2>3. CASE targetDirs' = targetDirs \cup {PairOf(h)} /\ AnswerError(h)
    BY <1>0, <1>4, <1>6, <2>3 DEF Publish, VolumeOK
  <2>4. CASE /\ targetDirs' = targetDirs \cup {PairOf(h)}
             /\ bound[PairOf(h)] # None /\ AnswerPublished(h)
    <3>1. VolumeOK(v)'
      BY <1>0, <1>1, <1>6, <2>1, <2>4 DEF Publish, AnswerPublished, VolumeOK
    <3> QED BY <1>2, <1>3, <2>4, <3>1 DEF AnswerPublished
  <2>5. CASE targetDirs' = targetDirs \cup {PairOf(h)} /\ GoTo(h, "bind") /\ UNCHANGED dev
    <3>1. VolumeOK(v)'
      BY <1>0, <1>5, <1>6, <2>5 DEF Publish, VolumeOK
    <3>2. pc'[h] = "bind" /\ PairOf(h)' = <<v, q>> /\ publishMaybe' = publishMaybe
      BY <1>1, <1>5, <2>5
    <3>3. <<v, q>> \in targetDirs'
      BY <1>1, <2>5
    <3>4. HandlerOK(h)'
      BY <2>1, <3>2, <3>3 DEF HandlerOK
    <3> QED BY <3>1, <3>4
  <2> QED BY <1>6, <2>2, <2>3, <2>4, <2>5 DEF Publish
<1>7. CASE Bind(h)
  <2>1. <<v, q>> \in publishMaybe /\ <<v, q>> \in targetDirs
    BY <1>0, <1>1, <1>7 DEF Bind, HandlerOK
  <2>2. CASE AnswerError(h) /\ UNCHANGED bound
    BY <1>0, <1>4, <1>7, <2>2 DEF Bind, VolumeOK
  <2>3. ASSUME NEW d, d = IF v \in BlockVolume THEN device[v] ELSE Top(stageMounts[v]),
               d # None, bound' = [bound EXCEPT ![PairOf(h)] = d], AnswerPublished(h)
        PROVE  VolumeOK(v)' /\ HandlerOK(h)'
    <3>1. v \in pulled \/ d = device[v]
      BY <1>0, <2>3, OneMountFacts DEF VolumeOK
    <3>2. bound'[<<v, q>>] = d /\ \A r \in Pod \ {q} : bound'[<<v, r>>] = bound[<<v, r>>]
      BY <1>0, <1>1, <2>3
    <3>3. /\ UNCHANGED <<device, pulled, stageMounts, targetDirs, staged, stageMaybe, publishMaybe>>
          /\ published' \subseteq published \cup {<<v, q>>}
      BY <1>1, <1>7, <2>3 DEF Bind, AnswerPublished
    <3>4. VolumeOK(v)'
      BY <1>0, <1>1, <2>1, <2>3, <3>1, <3>2, <3>3 DEF VolumeOK
    <3> QED BY <1>2, <1>3, <2>3, <3>4 DEF AnswerPublished
  <2> QED BY <1>7, <2>2, <2>3 DEF Bind
<1>8. CASE Unpublish(h)
  <2>1. <<v, q>> \in publishMaybe /\ <<v, q>> \notin published
    BY <1>0, <1>1, <1>8 DEF Unpublish, HandlerOK
  <2>2. CASE AnswerError(h) /\ UNCHANGED bound
    BY <1>0, <1>4, <1>8, <2>2 DEF Unpublish, VolumeOK
  <2>3. CASE PairOf(h) \notin targetDirs /\ AnswerUnpublished(h) /\ UNCHANGED bound
    <3>1. bound[<<v, q>>] = None
      BY <1>0, <1>1, <2>3 DEF VolumeOK
    <3>2. VolumeOK(v)'
      BY <1>0, <1>1, <1>8, <2>1, <2>3, <3>1 DEF Unpublish, AnswerUnpublished, VolumeOK
    <3> QED BY <1>2, <1>3, <2>3, <3>2 DEF AnswerUnpublished
  <2>4. CASE /\ bound' = [bound EXCEPT ![PairOf(h)] = None]
             /\ GoTo(h, "removeTarget") /\ UNCHANGED dev
    <3>1. bound'[<<v, q>>] = None /\ \A r \in Pod \ {q} : bound'[<<v, r>>] = bound[<<v, r>>]
      BY <1>0, <1>1, <2>4
    <3>2. /\ UNCHANGED <<staged, stageMaybe, published, publishMaybe>>
          /\ pc'[h] = "removeTarget" /\ PairOf(h)' = <<v, q>>
      BY <1>1, <1>5, <2>4
    <3>3. UNCHANGED <<device, pulled, stageMounts, targetDirs>>
      BY <1>8 DEF Unpublish
    <3>4. VolumeOK(v)'
      BY <1>0, <2>1, <3>1, <3>2, <3>3 DEF VolumeOK
    <3>5. HandlerOK(h)'
      BY <2>1, <3>2 DEF HandlerOK
    <3> QED BY <3>4, <3>5
  <2> QED BY <1>8, <2>2, <2>3, <2>4 DEF Unpublish
<1>9. CASE RemoveTarget(h)
  <2>1. <<v, q>> \in publishMaybe /\ <<v, q>> \notin published
    BY <1>0, <1>1, <1>9 DEF RemoveTarget, HandlerOK
  <2>2. CASE AnswerError(h) /\ UNCHANGED targetDirs
    BY <1>0, <1>4, <1>9, <2>2 DEF RemoveTarget, VolumeOK
  <2>3. CASE /\ bound[PairOf(h)] = None /\ targetDirs' = targetDirs \ {PairOf(h)}
             /\ AnswerUnpublished(h)
    <3>1. VolumeOK(v)'
      BY <1>0, <1>1, <1>9, <2>1, <2>3 DEF RemoveTarget, AnswerUnpublished, VolumeOK
    <3> QED BY <1>2, <1>3, <2>3, <3>1 DEF AnswerUnpublished
  <2> QED BY <1>9, <2>2, <2>3 DEF RemoveTarget
<1> QED BY <1>6, <1>7, <1>8, <1>9

(* The kubelet only calls: what it has called it remembers.                *)
LEMMA CallKept ==
  ASSUME TypeInv, MountInv, NEW h \in Handler,
         CallStage(h) \/ CallUnstage(h) \/ CallPublish(h) \/ CallUnpublish(h)
  PROVE  MountInv'
<1> USE DEF StagePc, UnstagePc, PublishPc, UnpublishPc, DevicePc, deviceVars, mountVars
<1>1. ASSUME NEW v, NEW p, NEW start, Arrive(h, v, p, start)
      PROVE  /\ UNCHANGED <<dev, device, pulled, stageMounts, bound, targetDirs>>
             /\ \A g \in Handler :
                  \/ pc'[g] = pc[g] /\ vol'[g] = vol[g] /\ pod'[g] = pod[g]
                  \/ g = h /\ pc'[g] = start /\ vol'[g] = v /\ pod'[g] = p
  BY <1>1 DEF Arrive, TypeInv, TypeOK
<1>2. ASSUME UNCHANGED <<device, pulled, stageMounts, bound, targetDirs>>,
             staged' \subseteq staged, stageMaybe \subseteq stageMaybe',
             published' \subseteq published, publishMaybe \subseteq publishMaybe'
      PROVE  \A v \in Volume : VolumeOK(v)'
  BY <1>2 DEF MountInv, VolumeOK
<1>3. ASSUME UNCHANGED <<dev, device, pulled, stageMounts, targetDirs>>, NEW g \in Handler,
             pc'[g] = pc[g], vol'[g] = vol[g], pod'[g] = pod[g],
             staged' \subseteq staged, stageMaybe \subseteq stageMaybe',
             published' \subseteq published, publishMaybe \subseteq publishMaybe'
      PROVE  HandlerOK(g)'
  <2>1. HandlerOK(g) /\ PairOf(g)' = PairOf(g)
    BY <1>3 DEF MountInv, PairOf
  <2> QED BY <1>3, <2>1 DEF HandlerOK
<1>4. CASE CallStage(h)
  <2>1. PICK v \in Volume : Arrive(h, v, None, "stage") /\ stageMaybe' = stageMaybe \cup {v}
    BY <1>4 DEF CallStage
  <2>2. UNCHANGED <<staged, published, publishMaybe>>
    BY <1>4 DEF CallStage
  <2>3. ASSUME NEW g \in Handler, pc'[g] = "stage", vol'[g] = v PROVE HandlerOK(g)'
    BY <2>1, <2>3 DEF HandlerOK
  <2>4. \A g \in Handler : HandlerOK(g)'
    BY <1>1, <1>3, <2>1, <2>2, <2>3
  <2> QED BY <1>1, <1>2, <2>1, <2>2, <2>4 DEF MountInv
<1>5. CASE CallUnstage(h)
  <2>1. PICK v \in stageMaybe : Arrive(h, v, None, "unstage") /\ staged' = staged \ {v}
    BY <1>5 DEF CallUnstage
  <2>2. UNCHANGED <<stageMaybe, published, publishMaybe>>
    BY <1>5 DEF CallUnstage
  <2>3. ASSUME NEW g \in Handler, pc'[g] = "unstage", vol'[g] = v PROVE HandlerOK(g)'
    BY <2>1, <2>2, <2>3 DEF HandlerOK
  <2>4. \A g \in Handler : HandlerOK(g)'
    BY <1>1, <1>3, <2>1, <2>2, <2>3
  <2> QED BY <1>1, <1>2, <2>1, <2>2, <2>4 DEF MountInv
<1>6. CASE CallPublish(h)
  <2>1. PICK v \in staged, p \in Pod :
          Arrive(h, v, p, "publish") /\ publishMaybe' = publishMaybe \cup {<<v, p>>}
    BY <1>6 DEF CallPublish
  <2>2. UNCHANGED <<staged, stageMaybe, published>>
    BY <1>6 DEF CallPublish
  <2>3. ASSUME NEW g \in Handler, pc'[g] = "publish", vol'[g] = v, pod'[g] = p PROVE HandlerOK(g)'
    BY <2>1, <2>3 DEF HandlerOK, PairOf
  <2>4. \A g \in Handler : HandlerOK(g)'
    BY <1>1, <1>3, <2>1, <2>2, <2>3
  <2> QED BY <1>1, <1>2, <2>1, <2>2, <2>4 DEF MountInv
<1>7. CASE CallUnpublish(h)
  <2>1. PICK p \in publishMaybe :
          Arrive(h, p[1], p[2], "unpublish") /\ published' = published \ {p}
    BY <1>7 DEF CallUnpublish
  <2>2. UNCHANGED <<staged, stageMaybe, publishMaybe>> /\ p = <<p[1], p[2]>>
    BY <1>7 DEF CallUnpublish, TypeInv, TypeOK, Pair
  <2>3. ASSUME NEW g \in Handler, pc'[g] = "unpublish", vol'[g] = p[1], pod'[g] = p[2]
        PROVE  HandlerOK(g)'
    BY <2>1, <2>2, <2>3 DEF HandlerOK, PairOf
  <2>4. \A g \in Handler : HandlerOK(g)'
    BY <1>1, <1>3, <2>1, <2>2, <2>3
  <2> QED BY <1>1, <1>2, <2>1, <2>2, <2>4 DEF MountInv
<1> QED BY <1>4, <1>5, <1>6, <1>7

(* The controller's attachments.                                           *)
LEMMA DeviceKept ==
  ASSUME TypeInv, MountInv, NEW v \in Volume, Attach(v) \/ Detach(v)
  PROVE  MountInv'
<1> USE DEF handlerVars, mountVars, kubeletVars
<1>1. /\ UNCHANGED <<pc, vol, pod, dev, stageMounts, bound, targetDirs>>
      /\ UNCHANGED <<staged, stageMaybe, published, publishMaybe>>
      /\ \A w \in Volume \ {v} : device'[w] = device[w] /\ (w \in pulled' <=> w \in pulled)
  BY DEF Attach, Detach, TypeInv, TypeOK
<1>2. ASSUME NEW w \in Volume, w # v PROVE VolumeOK(w)'
  BY <1>1, <1>2 DEF MountInv, VolumeOK
<1>3. ASSUME NEW h \in Handler, vol[h] # v \/ pc[h] \notin DevicePc PROVE HandlerOK(h)'
  <2>1. HandlerOK(h) /\ PairOf(h)' = PairOf(h)
    BY <1>1 DEF MountInv, PairOf
  <2>2. pc[h] \in DevicePc => vol[h] \in Volume \ {v}
    BY <1>3 DEF TypeInv, TypeOK, LocalsOK, DevicePc
  <2>3. pc[h] \in DevicePc
        => device'[vol[h]] = device[vol[h]] /\ (vol[h] \in pulled' <=> vol[h] \in pulled)
    BY <1>1, <2>2
  <2> QED BY <1>1, <2>1, <2>3 DEF HandlerOK, DevicePc
<1>4. VolumeOK(v)
  BY DEF MountInv
<1>5. CASE Attach(v)
  <2>1. device[v] = None /\ UNCHANGED pulled /\ stageMounts[v] \in Seq(Device)
    BY <1>5 DEF Attach, TypeInv, TypeOK
  <2>2. stageMounts[v] # <<None>>
    BY <2>1, NodeAssumption
  <2>3. VolumeOK(v)'
    BY <1>1, <1>4, <2>1, <2>2 DEF VolumeOK
  <2>4. ASSUME NEW h \in Handler, vol[h] = v, pc[h] \in DevicePc PROVE HandlerOK(h)'
    <3>1. v \in pulled
      BY <2>1, <2>4, NodeAssumption DEF MountInv, HandlerOK, TypeInv, LocalsOK
    <3>2. HandlerOK(h) /\ PairOf(h)' = PairOf(h)
      BY <1>1 DEF MountInv, PairOf
    <3> QED BY <1>1, <2>1, <2>4, <3>1, <3>2 DEF HandlerOK
  <2> QED BY <1>2, <1>3, <2>3, <2>4 DEF MountInv
<1>6. CASE Detach(v) /\ MayUse(v)
  <2>1. v \in pulled'
    BY <1>6 DEF Detach
  <2>2. VolumeOK(v)'
    BY <1>1, <1>4, <2>1 DEF VolumeOK
  <2>3. ASSUME NEW h \in Handler, vol[h] = v, pc[h] \in DevicePc PROVE HandlerOK(h)'
    <3>1. HandlerOK(h) /\ PairOf(h)' = PairOf(h)
      BY <1>1 DEF MountInv, PairOf
    <3> QED BY <1>1, <2>1, <2>3, <3>1 DEF HandlerOK
  <2> QED BY <1>2, <1>3, <2>2, <2>3 DEF MountInv
<1>7. CASE Detach(v) /\ ~MayUse(v)
  <2>1. v \notin stageMaybe /\ \A q \in Pod : <<v, q>> \notin publishMaybe
    BY <1>7 DEF MayUse
  <2>2. VolumeOK(v)'
    BY <1>1, <1>4, <2>1 DEF VolumeOK
  <2>3. \A h \in Handler : vol[h] = v => pc[h] \notin DevicePc
    BY <2>1 DEF MountInv, HandlerOK, StagePc, DevicePc
  <2> QED BY <1>2, <1>3, <2>2, <2>3 DEF MountInv
<1> QED BY <1>5, <1>6, <1>7

LEMMA MountStep == ASSUME TypeInv, KeysExact, MountInv, [Next]_vars PROVE MountInv'
<1>1. ASSUME NEW h \in Handler, HandlerStep(h) PROVE MountInv'
  <2>1. vol[h] \in Volume /\ Elsewhere(h, vol[h])
    BY <1>1, HandlerWhere
  <2>2. PICK v \in Volume : v = vol[h]
    BY <2>1
  <2>3. VolumeOK(v)' /\ HandlerOK(h)'
    BY <1>1, <2>2, StageKept, PublishKept DEF HandlerStep
  <2> QED BY <2>1, <2>2, <2>3, OthersKept, TypeStep
<1>2. ASSUME pc' = [h \in Handler |-> "idle"], \A v \in Volume : VolumeOK(v)' PROVE MountInv'
  BY <1>2 DEF MountInv, HandlerOK, StagePc, UnstagePc, PublishPc, UnpublishPc, DevicePc
<1>3. CASE Restart
  BY <1>2, <1>3 DEF Restart, LoseHandlers, deviceVars, mountVars, kubeletVars, MountInv, VolumeOK
<1>4. CASE Reboot
  <2>1. ASSUME NEW v \in Volume PROVE VolumeOK(v)'
    BY <1>4 DEF Reboot, VolumeOK, Pair
  <2> QED BY <1>2, <1>4, <2>1 DEF Reboot, LoseHandlers
<1>5. CASE UNCHANGED vars \/ \E h \in Handler : Deadline(h)
  BY <1>5 DEF vars, Deadline, handlerVars, deviceVars, mountVars, kubeletVars, MountInv, VolumeOK,
              HandlerOK, PairOf
<1> QED BY <1>1, <1>3, <1>4, <1>5, CallKept, DeviceKept DEF Next

LEMMA MountInvariant == Spec => []MountInv
<1>1. Init => MountInv
  BY DEF Init, MountInv, VolumeOK, HandlerOK, Pair, StagePc, UnstagePc, PublishPc, UnpublishPc,
         DevicePc
<1> QED BY <1>1, MountStep, TypeInvariant, InFlightExact, PTL DEF Spec

(* A volume the kubelet believes to be staged is mounted once, from the    *)
(* device it has now, however many calls were cut short before.            *)
THEOREM StagedStaysMounted == Spec => []StagedIsMounted
<1>1. TypeInv /\ MountInv => StagedIsMounted
  BY DEF TypeInv, TypeOK, MountInv, VolumeOK, StagedIsMounted
<1> QED BY <1>1, MountInvariant, TypeInvariant, PTL

(* A pod the kubelet believes to have a volume has that volume's device.   *)
THEOREM PublishedStaysBound == Spec => []PublishedIsBound
<1>1. ASSUME TypeInv, MountInv PROVE PublishedIsBound
  <2>1. SUFFICES ASSUME NEW p \in published
                 PROVE  p[1] \in pulled \/ (bound[p] # None /\ bound[p] = device[p[1]])
    BY DEF PublishedIsBound
  <2>2. p[1] \in Volume /\ p[2] \in Pod /\ p = <<p[1], p[2]>>
    BY <1>1 DEF TypeInv, TypeOK, Pair
  <2> QED BY <1>1, <2>2 DEF MountInv, VolumeOK
<1> QED BY <1>1, MountInvariant, TypeInvariant, PTL

(* When the kubelet is done with a volume or a target nothing is mounted   *)
(* there, also when mounts had piled up after a forced detach.             *)
THEOREM DoneStaysUnmounted == Spec => []DoneIsUnmounted
<1>1. MountInv => DoneIsUnmounted
  BY DEF MountInv, VolumeOK, DoneIsUnmounted
<1> QED BY <1>1, MountInvariant, PTL
-----------------------------------------------------------------------------
(* Whose device it is. *)

(* Only the controller's attachments change which device a volume is.      *)
LEMMA AttachmentsOnly ==
  ASSUME [Next]_vars
  PROVE  UNCHANGED <<device, pulled>> \/ \E v \in Volume : Attach(v) \/ Detach(v)
BY DEF Next, vars, deviceVars, CallStage, CallUnstage, CallPublish, CallUnpublish, Arrive,
       Deadline, HandlerStep, Stage, StageCheck, FormatAndMount, Resize, Unstage,
       RemoveStage, Publish, Bind, Unpublish, RemoveTarget, Restart, Reboot

(* The node never has two disks under one name.                            *)
DevicesDiffer ==
  \A v, w \in Volume : v # w /\ device[v] # None => device[v] # device[w]

LEMMA DevicesStayDifferent == Spec => []DevicesDiffer
<1>1. Init => DevicesDiffer
  BY DEF Init, DevicesDiffer
<1>2. ASSUME TypeInv, DevicesDiffer, [Next]_vars PROVE DevicesDiffer'
  <2>1. CASE UNCHANGED device
    BY <1>2, <2>1 DEF DevicesDiffer
  <2>2. ASSUME NEW v \in Volume, Attach(v) PROVE DevicesDiffer'
    <3>1. PICK d \in Device : /\ \A w \in Volume : device[w] # d
                              /\ device' = [device EXCEPT ![v] = d]
      BY <2>2 DEF Attach
    <3> QED BY <1>2, <3>1 DEF TypeInv, TypeOK, DevicesDiffer
  <2>3. ASSUME NEW v \in Volume, Detach(v) PROVE DevicesDiffer'
    <3>1. device' = [device EXCEPT ![v] = None]
      BY <2>3 DEF Detach
    <3> QED BY <1>2, <3>1 DEF TypeInv, TypeOK, DevicesDiffer
  <2> QED BY <1>2, <2>1, <2>2, <2>3, AttachmentsOnly
<1> QED BY <1>1, <1>2, TypeInvariant, PTL DEF Spec

(* What is mounted for a volume whose device has not vanished is never the *)
(* disk of another volume, though NodeStageVolume mounts by the name it    *)
(* read some calls before (nodesvc.go:89-124).                             *)
NoForeignDevice ==
  \A v \in Volume \ pulled, w \in Volume : v # w /\ device[w] # None =>
    /\ \A i \in DOMAIN stageMounts[v] : stageMounts[v][i] # device[w]
    /\ \A q \in Pod : bound[<<v, q>>] # device[w]

THEOREM OwnDeviceOnly == Spec => []NoForeignDevice
<1>1. ASSUME MountInv, DevicesDiffer PROVE NoForeignDevice
  <2>1. SUFFICES ASSUME NEW v \in Volume \ pulled, NEW w \in Volume, v # w, device[w] # None
                 PROVE  /\ \A i \in DOMAIN stageMounts[v] : stageMounts[v][i] # device[w]
                        /\ \A q \in Pod : bound[<<v, q>>] # device[w]
    BY DEF NoForeignDevice
  <2>2. device[v] # device[w] /\ VolumeOK(v)
    BY <1>1, <2>1 DEF MountInv, DevicesDiffer
  <2>3. ASSUME NEW i \in DOMAIN stageMounts[v] PROVE stageMounts[v][i] # device[w]
    <3>1. stageMounts[v] = <<device[v]>>
      BY <2>2, <2>3 DEF VolumeOK
    <3> QED BY <2>2, <2>3, <3>1
  <2> QED BY <2>1, <2>2, <2>3 DEF VolumeOK
<1> QED BY <1>1, MountInvariant, DevicesStayDifferent, PTL

(* The controller and the node together: a device that is taken away while *)
(* something of it is mounted is one taken by force.  Every other detach   *)
(* finds the staging path and all targets of the volume unmounted.         *)
CleanDetach ==
  \A v \in Volume :
    device[v] # None /\ device'[v] = None /\ v \notin pulled'
    => stageMounts[v] = <<>> /\ \A q \in Pod : bound[<<v, q>>] = None

THEOREM DetachesClean == Spec => [][CleanDetach]_vars
<1>1. ASSUME TypeInv, MountInv, [Next]_vars, NEW v \in Volume,
             device[v] # None, device'[v] = None, v \notin pulled'
      PROVE  stageMounts[v] = <<>> /\ \A q \in Pod : bound[<<v, q>>] = None
  <2>1. PICK w \in Volume : Attach(w) \/ Detach(w)
    BY <1>1, AttachmentsOnly
  <2>2. w = v
    BY <1>1, <2>1, NodeAssumption DEF Attach, Detach, TypeInv, TypeOK
  <2>3. ~MayUse(v)
    BY <1>1, <2>1, <2>2, NodeAssumption DEF Attach, Detach, TypeInv, TypeOK
  <2> QED BY <1>1, <2>3 DEF MayUse, MountInv, VolumeOK
<1>2. TypeInv /\ MountInv /\ [Next]_vars => CleanDetach
  BY <1>1 DEF CleanDetach
<1> QED BY <1>2, MountInvariant, TypeInvariant, PTL DEF Spec

(* When no device is ever taken by force, whatever the handlers, restarts  *)
(* and deadlines do, what is mounted on the node is attached to it, and    *)
(* from the disk of the volume itself.                                     *)
MountedIsAttached ==
  AbruptDetach = FALSE =>
    \A v \in Volume :
      /\ stageMounts[v] # <<>> => device[v] # None /\ stageMounts[v] = <<device[v]>>
      /\ \A q \in Pod :
           bound[<<v, q>>] # None => device[v] # None /\ bound[<<v, q>>] = device[v]

NonePulled == AbruptDetach = FALSE => pulled = {}

THEOREM MountedStaysAttached == Spec => []MountedIsAttached
<1>1. Init => NonePulled
  BY DEF Init, NonePulled
<1>2. ASSUME NonePulled, [Next]_vars PROVE NonePulled'
  <2> QED BY <1>2, AttachmentsOnly DEF Attach, Detach, NonePulled
<1>3. ASSUME TypeInv, MountInv, NonePulled PROVE MountedIsAttached
  <2>1. ASSUME AbruptDetach = FALSE, NEW v \in Volume, stageMounts[v] # <<>>
        PROVE  device[v] # None /\ stageMounts[v] = <<device[v]>>
    <3>1. stageMounts[v] = <<device[v]>>
      BY <1>3, <2>1 DEF MountInv, VolumeOK, NonePulled
    <3>2. <<device[v]>> \in Seq(Device)
      BY <1>3, <3>1 DEF TypeInv, TypeOK
    <3>3. device[v] \in Device
      BY <3>2
    <3> QED BY <3>1, <3>3, NodeAssumption
  <2> QED BY <1>3, <2>1 DEF MountInv, VolumeOK, NonePulled, MountedIsAttached
<1> QED BY <1>1, <1>2, <1>3, MountInvariant, TypeInvariant, PTL DEF Spec
=============================================================================
