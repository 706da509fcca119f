---------------------------- MODULE TosNodeProofs ----------------------------
(***************************************************************************)
(* Proofs about TosNode for any number of handlers, faults, timeouts and   *)
(* restarts.                                                               *)
(***************************************************************************)
EXTENDS TosNode, TLAPS

Unpublishing == {h \in Handler : pc[h] = "unpublish"}

(* There is no in-flight table: only the order of the kubelet's calls      *)
(* keeps publishes apart, and the history says when it did not.            *)
OneAtATime == "overlap" \notin odd => \A g, h \in Publishing : g = h

(* Nobody is left to take a published mount away.                          *)
NoneAfterPublished ==
  published /\ odd \cap {"repeated", "overlap"} = {} => Publishing = {}

(* The kubelet unpublishes the volume of a deleted pod, and an answer to a *)
(* publish it called before is lost.                                       *)
UnpublishAfterDelete ==
  Unpublishing # {} => /\ deleted /\ ~published
                       /\ \A h \in Publishing : ~live[h]

PublishInv == OneAtATime /\ NoneAfterPublished /\ UnpublishAfterDelete /\ PublishedIsMounted

(* From the call of an unpublish on nothing that mounts is under way.      *)
NothingUnderWay ==
  "early" \notin odd /\ (done \/ Unpublishing # {})
    => deleted /\ Publishing = {} /\ pending["target"] = 0

OneMount == "twice" \notin odd => mounts["target"] <= 1

UnpublishInv == NothingUnderWay /\ OneMount /\ DoneIsUnmounted

(* The temporary mount a handler has seen stays until it unmounts it.      *)
TmpStays == \A h \in Handler : pc[h] = "subDir" => mounts["tmp"] > 0 \/ "overlap" \in odd

SubPathInv == TmpStays /\ SubPathCreated
-----------------------------------------------------------------------------
(* Type correctness. *)

LEMMA InAllMounts ==
  ASSUME NEW m
  PROVE  m \in AllMounts <=> \E p \in Path : \E i \in 1..mounts[p] : m = <<p, i>>
BY DEF AllMounts, Path

(* What a step of a handler leaves of its own and of the history.          *)
ControlOK ==
  /\ pc \in [Handler -> Pc] /\ live \in [Handler -> BOOLEAN]
  /\ published \in BOOLEAN /\ done \in BOOLEAN /\ odd \subseteq Odd

LEMMA TypeControl ==
  ASSUME TypeOK, NEW h \in Handler,
         \/ \E n \in Pc : GoTo(h, n)
         \/ AnswerError(h) \/ AnswerPublished(h) \/ AnswerUnpublished(h)
  PROVE  ControlOK'
BY DEF TypeOK, ControlOK, Pc, GoTo, AnswerError, AnswerPublished, AnswerUnpublished, Return

(* A mount taken off, or left alone.                                       *)
LEMMA TypeUnmount ==
  ASSUME TypeOK, NEW p \in Path, Unmount(p) \/ UNCHANGED <<mounts, dead>>
  PROVE  /\ mounts' \in [Path -> Nat] /\ dead' \subseteq AllMounts'
         /\ \A q \in Path : mounts'[q] <= mounts[q]
         /\ \A q \in Path \ {p} : mounts'[q] = mounts[q]
<1>1. CASE UNCHANGED <<mounts, dead>>
  BY <1>1 DEF TypeOK, AllMounts
<1>2. CASE Unmount(p)
  <2>1. /\ mounts' \in [Path -> Nat]
        /\ mounts'[p] = mounts[p] - 1
        /\ \A q \in Path \ {p} : mounts'[q] = mounts[q]
    BY <1>2 DEF TypeOK, Unmount, IsMounted
  <2>2. ASSUME NEW m \in dead' PROVE m \in AllMounts'
    <3>1. m \in AllMounts /\ m # <<p, mounts[p]>>
      BY <1>2 DEF TypeOK, Unmount
    <3>2. PICK q \in Path : \E i \in 1..mounts[q] : m = <<q, i>>
      BY <3>1, InAllMounts
    <3>3. PICK i \in 1..mounts[q] : m = <<q, i>>
      BY <3>2
    <3>4. i \in 1..mounts'[q]
      BY <2>1, <3>1, <3>3 DEF TypeOK
    <3>5. m \in AllMounts' <=> \E r \in Path : \E j \in 1..mounts'[r] : m = <<r, j>>
      BY DEF AllMounts, Path
    <3> QED BY <3>3, <3>4, <3>5
  <2> QED BY <2>1, <2>2 DEF TypeOK
<1> QED BY <1>1, <1>2

(* The publish handler up to the mounts it has to take away.               *)
LEMMA TypePublish ==
  ASSUME TypeOK, NEW h \in Handler, UNCHANGED <<deleted, timeouts, restarts>>,
         \/ StatCred(h) \/ WriteCred(h) \/ MakeTmpDir(h) \/ CheckTmp(h) \/ MountTmp(h)
         \/ WaitTmp(h) \/ MakeSubDir(h) \/ RemoveTmp(h)
         \/ MakeTargetDir(h) \/ CheckTarget(h) \/ MountTarget(h) \/ WaitTarget(h)
  PROVE  TypeOK'
<1>1. UNCHANGED <<mounts, dead>> /\ dead' \subseteq AllMounts'
  BY DEF StatCred, WriteCred, MakeTmpDir, CheckTmp, MountTmp, MountTarget, Launch, WaitTmp,
         MakeSubDir, RemoveTmp, MakeTargetDir, CheckTarget, WaitTarget, host, TypeOK, AllMounts
<1>2. (\E n \in Pc : GoTo(h, n)) \/ AnswerError(h) \/ AnswerPublished(h)
  BY DEF StatCred, WriteCred, MakeTmpDir, CheckTmp, MountTmp, MountTarget, Launch, WaitTmp,
         MakeSubDir, RemoveTmp, MakeTargetDir, CheckTarget, WaitTarget, Cleanup, Pc, PublishPc
<1>3. ControlOK'
  BY <1>2, TypeControl
<1>4. faults' \in 0..MaxFaults
  BY TosAssumption
     DEF StatCred, WriteCred, MakeTmpDir, CheckTmp, MountTmp, MountTarget, Launch, WaitTmp,
         MakeSubDir, RemoveTmp, MakeTargetDir, CheckTarget, WaitTarget, Breaks, CheckTosMounted,
         Succeeds, Fails, TypeOK
<1>5. cred' \in {"none", "torn", "full"}
      /\ \A g \in Handler : pc'[g] \in PublishPc \ {"cred"} => cred' # "none"
  <2>1. pc[h] \in PublishPc
    BY DEF StatCred, WriteCred, MakeTmpDir, CheckTmp, MountTmp, MountTarget, Launch, WaitTmp,
           MakeSubDir, RemoveTmp, MakeTargetDir, CheckTarget, WaitTarget, PublishPc
  <2>2. \A g \in Handler : g # h => pc'[g] = pc[g]
    BY <1>2 DEF GoTo, AnswerError, AnswerPublished, Return, TypeOK
  <2>3. CASE StatCred(h)
    BY <2>2, <2>3 DEF StatCred, GoTo, AnswerError, Return, TypeOK, PublishPc
  <2>4. CASE WriteCred(h)
    BY <2>2, <2>4 DEF WriteCred, TypeOK, PublishPc
  <2>5. CASE ~StatCred(h) /\ ~WriteCred(h)
    <3>1. pc[h] \in PublishPc \ {"cred"} /\ UNCHANGED cred
      BY <2>5 DEF MakeTmpDir, CheckTmp, MountTmp, MountTarget, Launch, WaitTmp, PublishPc, host,
                  MakeSubDir, RemoveTmp, MakeTargetDir, CheckTarget, WaitTarget
    <3> QED BY <2>2, <3>1 DEF TypeOK
  <2> QED BY <2>3, <2>4, <2>5
<1>6. pending' \in [Path -> Nat]
  BY DEF StatCred, WriteCred, MakeTmpDir, CheckTmp, MountTmp, MountTarget, Launch, WaitTmp,
         MakeSubDir, RemoveTmp, MakeTargetDir, CheckTarget, WaitTarget, host, TypeOK, Path
<1>7. litter' \in BOOLEAN /\ sub' \in BOOLEAN
  BY DEF StatCred, WriteCred, MakeTmpDir, CheckTmp, MountTmp, MountTarget, Launch, WaitTmp,
         MakeSubDir, RemoveTmp, MakeTargetDir, CheckTarget, WaitTarget, host, TypeOK
<1>8. dir' \subseteq Path /\ \A p \in Path \ dir' : mounts'[p] = 0
  <2>1. CASE RemoveTmp(h)
    BY <2>1 DEF RemoveTmp, IsMounted, TypeOK
  <2>2. CASE ~RemoveTmp(h)
    BY <1>1, <2>2
       DEF StatCred, WriteCred, MakeTmpDir, CheckTmp, MountTmp, MountTarget, Launch, WaitTmp,
           MakeSubDir, MakeTargetDir, CheckTarget, WaitTarget, host, TypeOK, Path
  <2> QED BY <2>1, <2>2
<1> QED BY <1>1, <1>3, <1>4, <1>5, <1>6, <1>7, <1>8 DEF TypeOK, ControlOK

(* The handlers that take a mount off.                                     *)
LEMMA TypeTakeOff ==
  ASSUME TypeOK, NEW h \in Handler, UNCHANGED <<deleted, timeouts, restarts>>,
         UnmountTmp(h) \/ CleanTmp(h) \/ CleanTarget(h) \/ Unpublish(h)
  PROVE  TypeOK'
<1>1. PICK p \in Path : Unmount(p) \/ UNCHANGED <<mounts, dead>>
  BY DEF UnmountTmp, CleanTmp, CleanTarget, Unpublish, Path
<1>2. /\ mounts' \in [Path -> Nat] /\ dead' \subseteq AllMounts'
      /\ \A q \in Path : mounts'[q] <= mounts[q]
  BY <1>1, TypeUnmount
<1>3. UNCHANGED <<cred, dir, litter, pending, sub>>
  BY DEF UnmountTmp, CleanTmp, CleanTarget, Unpublish
<1>4. \A q \in Path \ dir' : mounts'[q] = 0
  BY <1>2, <1>3 DEF TypeOK
<1>5. /\ (\E n \in Pc : GoTo(h, n)) \/ AnswerError(h) \/ AnswerUnpublished(h)
      /\ \A g \in Handler : pc'[g] \in PublishPc \ {"cred"} => pc[g] \in PublishPc \ {"cred"}
  BY DEF UnmountTmp, CleanTmp, CleanTarget, Unpublish, Cleanup, GoTo, AnswerError,
         AnswerUnpublished, Return, Pc, PublishPc, TypeOK
<1>6. ControlOK'
  BY <1>5, TypeControl
<1>7. faults' \in 0..MaxFaults
  BY TosAssumption DEF UnmountTmp, CleanTmp, CleanTarget, Unpublish, Succeeds, Fails, TypeOK
<1> QED BY <1>2, <1>3, <1>4, <1>5, <1>6, <1>7 DEF TypeOK, ControlOK

LEMMA TypeMountAppears == ASSUME TypeOK, MountAppears PROVE TypeOK'
<1>1. PICK p \in Path :
        /\ pending[p] > 0
        /\ pending' = [pending EXCEPT ![p] = @ - 1]
        /\ \/ /\ MountPointFit(p) /\ Succeeds
              /\ Mount(p)
              /\ odd' = odd \cup (IF p = "target" /\ IsMounted(p) THEN {"twice"} ELSE {})
           \/ /\ IF MountPointFit(p) /\ ~IsMounted(p) THEN Fails ELSE Succeeds
              /\ UNCHANGED <<mounts, dead, odd>>
  BY DEF MountAppears
<1>2. pending' \in [Path -> Nat]
  BY <1>1 DEF TypeOK
<1>3. odd' \subseteq Odd
  BY <1>1 DEF TypeOK, Odd
<1>4. faults' \in 0..MaxFaults
  BY <1>1, TosAssumption DEF TypeOK, Fails, Succeeds
<1>5. /\ mounts' \in [Path -> Nat] /\ dead' \subseteq AllMounts'
      /\ \A q \in Path \ dir : mounts'[q] = 0
  <2>1. CASE UNCHANGED <<mounts, dead>>
    BY <2>1 DEF TypeOK, AllMounts
  <2>2. CASE Mount(p) /\ MountPointFit(p)
    <3>1. /\ mounts' \in [Path -> Nat] /\ p \in dir
          /\ mounts'[p] = mounts[p] + 1 /\ \A q \in Path \ {p} : mounts'[q] = mounts[q]
      BY <2>2 DEF Mount, MountPointFit, TypeOK
    <3>2. ASSUME NEW m \in dead PROVE m \in AllMounts'
      <4>1. PICK q \in Path : \E i \in 1..mounts[q] : m = <<q, i>>
        BY InAllMounts DEF TypeOK
      <4>2. \E i \in 1..mounts'[q] : m = <<q, i>>
        BY <3>1, <4>1 DEF TypeOK
      <4>3. m \in AllMounts' <=> \E r \in Path : \E j \in 1..mounts'[r] : m = <<r, j>>
        BY DEF AllMounts, Path
      <4> QED BY <4>2, <4>3
    <3> QED BY <2>2, <3>1, <3>2 DEF Mount, TypeOK
  <2> QED BY <1>1, <2>1, <2>2
<1> QED BY <1>2, <1>3, <1>4, <1>5 DEF MountAppears, kubelet, TypeOK

LEMMA TypeDies ==
  ASSUME TypeOK, S3fsDies \/ LauncherRestart \/ Restart
  PROVE  TypeOK'
<1>1. AllMounts' = AllMounts
  BY DEF S3fsDies, LauncherRestart, Restart, AllMounts
<1>2. restarts' \in 0..MaxRestarts
  BY TosAssumption DEF S3fsDies, LauncherRestart, Restart, TypeOK
<1>3. CASE S3fsDies
  <2>1. dead' \subseteq AllMounts
    BY <1>3 DEF S3fsDies, TypeOK
  <2> QED BY <1>1, <1>2, <1>3, <2>1 DEF S3fsDies, kubelet, TypeOK
<1>4. CASE LauncherRestart
  <2>1. PICK cut \in SUBSET {h \in Handler : \E p \in Path : pc[h] = MountPc[p]} :
          pc' = [h \in Handler |-> IF h \in cut THEN "cleanTmp" ELSE pc[h]]
    BY <1>4 DEF LauncherRestart
  <2>2. \A h \in cut : pc[h] \in {"tmpMount", "targetMount"}
    BY DEF MountPc, Path
  <2>3. pc' \in [Handler -> Pc]
    BY <2>1 DEF TypeOK, Pc, PublishPc
  <2>4. \A h \in Handler : pc'[h] \in PublishPc \ {"cred"} => cred # "none"
    BY <2>1, <2>2 DEF TypeOK, PublishPc
  <2>5. pending' \in [Path -> Nat] /\ dead' \subseteq AllMounts
    BY <1>4 DEF LauncherRestart
  <2> QED BY <1>1, <1>2, <1>4, <2>3, <2>4, <2>5 DEF LauncherRestart, kubelet, TypeOK
<1>5. CASE Restart
  <2>1. pending' \in [Path -> Nat]
    BY <1>5 DEF Restart, TypeOK
  <2>2. /\ pc' \in [Handler -> Pc] /\ live' \in [Handler -> BOOLEAN]
        /\ \A h \in Handler : pc'[h] \notin PublishPc
    BY <1>5 DEF Restart, Pc, PublishPc
  <2> QED BY <1>1, <1>2, <1>5, <2>1, <2>2 DEF Restart, kubelet, TypeOK
<1> QED BY <1>3, <1>4, <1>5

LEMMA TypeStep == ASSUME TypeOK, [Next]_vars PROVE TypeOK'
<1>1. CASE UNCHANGED vars
  BY <1>1 DEF vars, host, kubelet, bounds, TypeOK, AllMounts
<1>2. CASE DeletePod
  BY <1>2 DEF DeletePod, host, bounds, TypeOK, AllMounts
<1>3. ASSUME NEW h \in Handler, CallPublish(h) \/ CallUnpublish(h) PROVE TypeOK'
  <2>1. /\ pc' \in [Handler -> Pc] /\ live' \in [Handler -> BOOLEAN]
        /\ \A g \in Handler : pc'[g] \in PublishPc \ {"cred"} => pc[g] \in PublishPc \ {"cred"}
    BY <1>3 DEF CallPublish, CallUnpublish, Begin, TypeOK, Pc, PublishPc
  <2>2. odd' \subseteq Odd
    BY <1>3 DEF CallPublish, CallUnpublish, TypeOK, Odd
  <2> QED BY <1>3, <2>1, <2>2 DEF CallPublish, CallUnpublish, host, kubelet, bounds, TypeOK, AllMounts
<1>4. ASSUME NEW h \in Handler, GiveUp(h) PROVE TypeOK'
  <2>1. live' \in [Handler -> BOOLEAN] /\ timeouts' \in 0..MaxTimeouts
    BY <1>4, TosAssumption DEF GiveUp, TypeOK
  <2> QED BY <1>4, <2>1 DEF GiveUp, host, kubelet, TypeOK, AllMounts
<1> QED BY <1>1, <1>2, <1>3, <1>4, TypePublish, TypeTakeOff, TypeMountAppears, TypeDies
        DEF Next, HandlerStep, PublishStep

(* Every variable keeps its type: a dead s3fs has left a mount behind, a   *)
(* path that does not exist has none, and from the credentials on there is *)
(* a credential file.                                                      *)
THEOREM TypeCorrect == Spec => []TypeOK
<1>1. Init => TypeOK
  <2>1. ASSUME Init PROVE pc \in [Handler -> Pc] /\ \A h \in Handler : pc[h] \notin PublishPc
    BY <2>1 DEF Init, Pc, PublishPc
  <2>2. ASSUME Init PROVE faults \in 0..MaxFaults /\ timeouts \in 0..MaxTimeouts
                          /\ restarts \in 0..MaxRestarts
    BY <2>2, TosAssumption DEF Init
  <2>3. ASSUME Init PROVE mounts \in [Path -> Nat] /\ pending \in [Path -> Nat]
                          /\ \A p \in Path : mounts[p] = 0
    BY <2>3 DEF Init
  <2> QED BY <2>1, <2>2, <2>3 DEF Init, TypeOK
<1> QED BY <1>1, TypeStep, PTL DEF Spec
-----------------------------------------------------------------------------
(* What a step of a publish handler may do to the rest.                    *)

(* It goes on, fails, or answers with the target mounted.                  *)
LEMMA PublishShape ==
  ASSUME TypeOK, NEW h \in Handler, PublishStep(h)
  PROVE  /\ h \in Publishing /\ UNCHANGED <<odd, done>>
         /\ \A g \in Handler : g # h => pc'[g] = pc[g] /\ live'[g] = live[g]
         /\ \/ UNCHANGED <<live, published>> /\ pc'[h] \in PublishPc
            \/ UNCHANGED published /\ ~live'[h] /\ pc'[h] = "idle"
            \/ /\ published' => published \/ live[h]
               /\ ~live'[h] /\ pc'[h] = "idle"
               /\ IsMounted("target") /\ UNCHANGED mounts
<1> USE DEF TypeOK, Publishing
<1>1. ASSUME NEW n \in PublishPc, GoTo(h, n), pc[h] \in PublishPc
      PROVE  /\ UNCHANGED <<odd, done, live, published>> /\ pc'[h] \in PublishPc
             /\ \A g \in Handler : g # h => pc'[g] = pc[g] /\ live'[g] = live[g]
  BY <1>1 DEF GoTo
<1>2. ASSUME AnswerError(h)
      PROVE  /\ UNCHANGED <<odd, done, published>> /\ ~live'[h] /\ pc'[h] = "idle"
             /\ \A g \in Handler : g # h => pc'[g] = pc[g] /\ live'[g] = live[g]
  BY <1>2 DEF AnswerError, Return
<1>3. ASSUME AnswerPublished(h)
      PROVE  /\ UNCHANGED <<odd, done>> /\ ~live'[h] /\ pc'[h] = "idle"
             /\ published' => published \/ live[h]
             /\ \A g \in Handler : g # h => pc'[g] = pc[g] /\ live'[g] = live[g]
  BY <1>3 DEF AnswerPublished, Return
<1>4. pc[h] \in PublishPc
  BY DEF PublishStep, StatCred, WriteCred, MakeTmpDir, CheckTmp, MountTmp, MountTarget, WaitTmp,
         MakeSubDir, UnmountTmp, RemoveTmp, MakeTargetDir, CheckTarget, WaitTarget, CleanTmp,
         CleanTarget, PublishPc
<1>5. \/ \E n \in PublishPc : GoTo(h, n)
      \/ AnswerError(h)
      \/ AnswerPublished(h) /\ IsMounted("target") /\ UNCHANGED mounts
  BY DEF PublishStep, StatCred, WriteCred, MakeTmpDir, CheckTmp, MountTmp, MountTarget, Launch,
         WaitTmp, MakeSubDir, UnmountTmp, RemoveTmp, MakeTargetDir, CheckTarget, WaitTarget,
         CleanTmp, CleanTarget, Cleanup, host, PublishPc
<1> QED BY <1>1, <1>2, <1>3, <1>4, <1>5

(* A mount goes only at the end of an unsuccessful publish, and the bucket *)
(* keeps its sub-directory.                                                *)
LEMMA PublishEffects ==
  ASSUME TypeOK, NEW h \in Handler, PublishStep(h)
  PROVE  /\ mounts'["target"] <= mounts["target"]
         /\ pc[h] # "cleanTarget" => mounts'["target"] = mounts["target"]
         /\ pc[h] \notin {"tmpUmount", "cleanTmp"} => mounts'["tmp"] = mounts["tmp"]
         /\ sub => sub'
<1>1. CASE UnmountTmp(h) \/ CleanTmp(h)
  <2>1. Unmount("tmp") \/ UNCHANGED <<mounts, dead>>
    BY <1>1 DEF UnmountTmp, CleanTmp
  <2>2. mounts'["target"] = mounts["target"] /\ mounts["target"] \in Nat
    BY <2>1, TypeUnmount DEF Path, TypeOK
  <2>3. pc[h] \in {"tmpUmount", "cleanTmp"} /\ UNCHANGED sub
    BY <1>1 DEF UnmountTmp, CleanTmp
  <2> QED BY <2>2, <2>3
<1>2. CASE CleanTarget(h)
  <2>1. Unmount("target") \/ UNCHANGED <<mounts, dead>>
    BY <1>2 DEF CleanTarget
  <2>2. mounts'["tmp"] = mounts["tmp"] /\ mounts'["target"] <= mounts["target"]
    BY <2>1, TypeUnmount DEF Path
  <2> QED BY <1>2, <2>2 DEF CleanTarget
<1>3. CASE ~UnmountTmp(h) /\ ~CleanTmp(h) /\ ~CleanTarget(h)
  <2>1. UNCHANGED mounts /\ (sub => sub') /\ mounts["target"] \in Nat
    BY <1>3 DEF PublishStep, StatCred, WriteCred, MakeTmpDir, CheckTmp, MountTmp, MountTarget,
                Launch, WaitTmp, MakeSubDir, RemoveTmp, MakeTargetDir, CheckTarget, WaitTarget,
                host, TypeOK, Path
  <2> QED BY <2>1
<1> QED BY <1>1, <1>2, <1>3

(* The other steps on the host: mounts come, never go.                     *)
LEMMA MountsAppear ==
  ASSUME TypeOK, MountAppears
  PROVE  /\ \A p \in Path : mounts[p] <= mounts'[p] /\ pending'[p] <= pending[p]
         /\ mounts'["target"] # mounts["target"] => pending["target"] > 0
         /\ mounts'["target"] > 1 => mounts'["target"] = mounts["target"] \/ "twice" \in odd'
         /\ odd \subseteq odd' /\ odd' \subseteq odd \cup {"twice"}
<1>1. PICK p \in Path :
        /\ pending[p] > 0
        /\ pending' = [pending EXCEPT ![p] = @ - 1]
        /\ \/ /\ Mount(p)
              /\ odd' = odd \cup (IF p = "target" /\ IsMounted(p) THEN {"twice"} ELSE {})
           \/ UNCHANGED <<mounts, dead, odd>>
  BY DEF MountAppears
<1>2. \A q \in Path : pending'[q] <= pending[q]
  BY <1>1 DEF TypeOK
<1>3. CASE UNCHANGED <<mounts, odd>>
  BY <1>2, <1>3 DEF TypeOK
<1>4. CASE /\ Mount(p)
           /\ odd' = odd \cup (IF p = "target" /\ IsMounted(p) THEN {"twice"} ELSE {})
  <2>1. /\ \A q \in Path : mounts[q] \in Nat
        /\ \A q \in Path \ {p} : mounts'[q] = mounts[q]
        /\ mounts'[p] = mounts[p] + 1
    BY <1>4 DEF Mount, TypeOK
  <2>2. "target" \in Path
    BY DEF Path
  <2> QED BY <1>1, <1>2, <1>4, <2>1, <2>2 DEF IsMounted
<1> QED BY <1>1, <1>3, <1>4
-----------------------------------------------------------------------------
(* What is published stays mounted. *)

LEMMA PublishInvStep == ASSUME TypeOK, PublishInv, [Next]_vars PROVE PublishInv'
<1> USE DEF PublishInv
<1>1. ASSUME NEW h \in Handler, PublishStep(h), UNCHANGED deleted PROVE PublishInv'
  <2>1. /\ h \in Publishing /\ UNCHANGED odd /\ Publishing' \subseteq Publishing
        /\ Publishing \subseteq Handler /\ Unpublishing' = Unpublishing
        /\ \A g \in Handler : live'[g] => live[g]
    BY <1>1, PublishShape DEF Publishing, Unpublishing, PublishPc, TypeOK
  <2>2. OneAtATime'
    BY <2>1 DEF OneAtATime
  <2>3. \/ UNCHANGED published
        \/ /\ published' => published \/ live[h]
           /\ pc'[h] = "idle" /\ IsMounted("target") /\ UNCHANGED mounts
    BY <1>1, PublishShape
  <2>4. CASE UNCHANGED published
    <3>1. ~(published /\ odd \cap {"repeated", "overlap"} = {})
      BY <2>1 DEF NoneAfterPublished
    <3>2. UnpublishAfterDelete'
      BY <1>1, <2>1, <2>4 DEF UnpublishAfterDelete
    <3>3. ~(published' /\ odd' \cap {"repeated", "overlap"} = {})
      BY <2>1, <2>4, <3>1
    <3> QED BY <2>2, <3>2, <3>3 DEF NoneAfterPublished, PublishedIsMounted
  <2>5. CASE /\ published' => published \/ live[h]
             /\ pc'[h] = "idle" /\ IsMounted("target") /\ UNCHANGED mounts
    <3>1. NoneAfterPublished'
      <4>1. odd \cap {"repeated", "overlap"} = {} => Publishing = {h}
        BY <2>1 DEF OneAtATime
      <4>2. h \notin Publishing'
        BY <2>5 DEF Publishing, PublishPc
      <4> QED BY <2>1, <4>1, <4>2 DEF NoneAfterPublished
    <3>2. UnpublishAfterDelete'
      BY <1>1, <2>1, <2>5 DEF UnpublishAfterDelete
    <3>3. IsMounted("target")'
      BY <2>5 DEF IsMounted
    <3> QED BY <2>2, <3>1, <3>2, <3>3 DEF PublishedIsMounted
  <2> QED BY <2>3, <2>4, <2>5
<1>2. ASSUME NEW h \in Handler, Unpublish(h), UNCHANGED deleted PROVE PublishInv'
  <2>1. /\ h \in Unpublishing /\ UNCHANGED <<odd, published>> /\ Publishing \subseteq Handler
        /\ Publishing' = Publishing /\ Unpublishing' \subseteq Unpublishing
        /\ \A g \in Handler : live'[g] => live[g]
    BY <1>2 DEF Unpublish, AnswerUnpublished, AnswerError, Return, Publishing, Unpublishing,
                PublishPc, TypeOK
  <2>2. ~published
    BY <2>1 DEF UnpublishAfterDelete
  <2>3. UnpublishAfterDelete'
    BY <1>2, <2>1 DEF UnpublishAfterDelete
  <2> QED BY <2>1, <2>2, <2>3 DEF OneAtATime, NoneAfterPublished, PublishedIsMounted
<1>3. ASSUME NEW h \in Handler, CallPublish(h) PROVE PublishInv'
  <2>1. /\ ~deleted /\ Publishing' = Publishing \cup {h} /\ Unpublishing' = Unpublishing
        /\ UNCHANGED <<mounts, published, deleted>>
    BY <1>3 DEF CallPublish, Begin, host, kubelet, Publishing, Unpublishing, PublishPc, TypeOK
  <2>2. /\ odd \subseteq odd'
        /\ published => "repeated" \in odd'
        /\ Publishing # {} => "overlap" \in odd'
    BY <1>3 DEF CallPublish
  <2> QED BY <2>1, <2>2
          DEF OneAtATime, NoneAfterPublished, UnpublishAfterDelete, PublishedIsMounted, IsMounted
<1>4. ASSUME NEW h \in Handler, CallUnpublish(h) PROVE PublishInv'
  <2>1. /\ deleted' /\ ~published' /\ Publishing' = Publishing
        /\ \A g \in Publishing : ~live'[g]
    BY <1>4 DEF CallUnpublish, Begin, Quiet, Publishing, PublishPc, TypeOK
  <2>2. odd \subseteq odd'
    BY <1>4 DEF CallUnpublish
  <2> QED BY <2>1, <2>2
          DEF OneAtATime, NoneAfterPublished, UnpublishAfterDelete, PublishedIsMounted
<1>5. ASSUME NEW h \in Handler, GiveUp(h) PROVE PublishInv'
  <2>1. /\ UNCHANGED <<pc, mounts, odd, deleted, published>>
        /\ \A g \in Handler : live'[g] => live[g]
    BY <1>5 DEF GiveUp, host, kubelet, TypeOK
  <2> QED BY <2>1 DEF OneAtATime, NoneAfterPublished, UnpublishAfterDelete, PublishedIsMounted,
                      IsMounted, Publishing, Unpublishing
<1>6. CASE DeletePod \/ S3fsDies \/ UNCHANGED vars
  <2>1. UNCHANGED <<pc, live, mounts, odd, published>> /\ (deleted => deleted')
    BY <1>6 DEF DeletePod, S3fsDies, vars, host, kubelet
  <2> QED BY <2>1 DEF OneAtATime, NoneAfterPublished, UnpublishAfterDelete, PublishedIsMounted,
                      IsMounted, Publishing, Unpublishing
<1>7. CASE MountAppears
  <2>1. UNCHANGED <<pc, live, deleted, published>> /\ odd \subseteq odd'
    BY <1>7, MountsAppear DEF MountAppears, kubelet
  <2>2. IsMounted("target") => IsMounted("target")'
    BY <1>7, MountsAppear, TypeStep DEF IsMounted, TypeOK, Path, Next
  <2> QED BY <2>1, <2>2 DEF OneAtATime, NoneAfterPublished, UnpublishAfterDelete,
                            PublishedIsMounted, Publishing, Unpublishing
<1>8. CASE LauncherRestart
  <2>1. PICK cut \in SUBSET {h \in Handler : \E p \in Path : pc[h] = MountPc[p]} :
          pc' = [h \in Handler |-> IF h \in cut THEN "cleanTmp" ELSE pc[h]]
    BY <1>8 DEF LauncherRestart
  <2>2. \A h \in cut : pc[h] \in {"tmpMount", "targetMount"}
    BY DEF MountPc, Path
  <2>3. Publishing' = Publishing /\ Unpublishing' = Unpublishing
    BY <2>1, <2>2 DEF Publishing, Unpublishing, PublishPc, TypeOK
  <2> QED BY <1>8, <2>3 DEF LauncherRestart, kubelet, OneAtATime, NoneAfterPublished,
                            UnpublishAfterDelete, PublishedIsMounted, IsMounted
<1>9. CASE Restart
  <2>1. Publishing' = {} /\ Unpublishing' = {} /\ UNCHANGED <<mounts, odd, published>>
    BY <1>9 DEF Restart, kubelet, Publishing, Unpublishing, PublishPc
  <2> QED BY <2>1 DEF OneAtATime, NoneAfterPublished, UnpublishAfterDelete, PublishedIsMounted,
                      IsMounted
<1> QED BY <1>1, <1>2, <1>3, <1>4, <1>5, <1>6, <1>7, <1>8, <1>9 DEF Next, HandlerStep

(* What the kubelet was told is published stays mounted until it asks for  *)
(* its removal, whatever dies and restarts, unless its own calls overlap.  *)
THEOREM PublishedStaysMounted == Spec => []PublishedIsMounted
<1>1. Init => PublishInv
  BY DEF Init, PublishInv, OneAtATime, NoneAfterPublished, UnpublishAfterDelete,
         PublishedIsMounted, Publishing, Unpublishing, PublishPc
<1>2. PublishInv => PublishedIsMounted
  BY DEF PublishInv
<1> QED BY <1>1, <1>2, PublishInvStep, TypeCorrect, PTL DEF Spec
-----------------------------------------------------------------------------
(* What is unpublished stays unmounted. *)

LEMMA UnpublishInvStep == ASSUME TypeOK, UnpublishInv, [Next]_vars PROVE UnpublishInv'
<1> USE DEF UnpublishInv
<1>0. mounts["target"] \in Nat /\ mounts'["target"] \in Nat
      /\ pending["target"] \in Nat /\ pending'["target"] \in Nat
  BY TypeStep DEF TypeOK, Path
<1>1. ASSUME mounts'["target"] <= mounts["target"], odd \subseteq odd', done' => done,
             "early" \notin odd /\ (done' \/ Unpublishing' # {})
               => /\ done \/ Unpublishing # {}
                  /\ (deleted /\ Publishing = {} => deleted' /\ Publishing' = {})
                  /\ (deleted /\ Publishing = {} /\ pending["target"] = 0 => pending'["target"] = 0)
      PROVE  UnpublishInv'
  BY <1>0, <1>1 DEF NothingUnderWay, OneMount, DoneIsUnmounted, IsMounted
<1>2. ASSUME NEW h \in Handler, PublishStep(h), UNCHANGED deleted PROVE UnpublishInv'
  <2>1. /\ h \in Publishing /\ UNCHANGED <<odd, done>> /\ Unpublishing' = Unpublishing
        /\ mounts'["target"] <= mounts["target"]
    BY <1>2, PublishShape, PublishEffects DEF Publishing, Unpublishing, PublishPc, TypeOK
  <2> QED BY <1>1, <1>2, <2>1
<1>3. ASSUME NEW h \in Handler, Unpublish(h), UNCHANGED deleted PROVE UnpublishInv'
  <2>1. /\ h \in Unpublishing /\ UNCHANGED <<odd, pending>>
        /\ Publishing' = Publishing /\ Unpublishing' \subseteq Unpublishing
    BY <1>3 DEF Unpublish, AnswerUnpublished, AnswerError, Return, Publishing, Unpublishing,
                PublishPc, TypeOK
  <2>2. mounts'["target"] <= mounts["target"]
    BY <1>3, TypeUnmount DEF Unpublish, Path
  <2>3. NothingUnderWay' /\ OneMount'
    BY <1>0, <1>3, <2>1, <2>2 DEF NothingUnderWay, OneMount
  <2>4. DoneIsUnmounted'
    <3>1. CASE AnswerError(h)
      BY <1>0, <2>1, <2>2, <3>1 DEF AnswerError, DoneIsUnmounted, IsMounted
    <3>2. CASE Unmount("target")
      <4>1. mounts'["target"] = mounts["target"] - 1
        BY <3>2 DEF Unmount, TypeOK, Path
      <4> QED BY <1>0, <2>1, <4>1 DEF OneMount, DoneIsUnmounted, IsMounted
    <3>3. CASE ~IsMounted("target") /\ UNCHANGED mounts
      BY <3>3 DEF DoneIsUnmounted, IsMounted
    <3> QED BY <1>3, <3>1, <3>2, <3>3 DEF Unpublish
  <2> QED BY <2>3, <2>4
<1>4. ASSUME NEW h \in Handler, CallPublish(h) PROVE UnpublishInv'
  <2>1. /\ ~deleted /\ Unpublishing' = Unpublishing
        /\ UNCHANGED <<mounts, pending, done, deleted>> /\ odd \subseteq odd'
    BY <1>4 DEF CallPublish, Begin, host, kubelet, Unpublishing, TypeOK
  <2> QED BY <1>0, <1>1, <2>1
<1>5. ASSUME NEW h \in Handler, CallUnpublish(h) PROVE UnpublishInv'
  <2>1. /\ deleted' /\ ~done' /\ Publishing' = Publishing
        /\ UNCHANGED <<mounts, pending>>
    BY <1>5 DEF CallUnpublish, Begin, host, Publishing, PublishPc, TypeOK
  <2>2. /\ odd \subseteq odd'
        /\ Publishing # {} \/ pending["target"] > 0 => "early" \in odd'
    BY <1>5 DEF CallUnpublish
  <2> QED BY <1>0, <2>1, <2>2 DEF NothingUnderWay, OneMount, DoneIsUnmounted, IsMounted
<1>6. CASE DeletePod \/ S3fsDies \/ UNCHANGED vars \/ \E h \in Handler : GiveUp(h)
  <2>1. UNCHANGED <<pc, mounts, pending, odd, done>> /\ (deleted => deleted')
    BY <1>6 DEF DeletePod, S3fsDies, vars, host, kubelet, GiveUp
  <2>2. Publishing' = Publishing /\ Unpublishing' = Unpublishing
    BY <2>1 DEF Publishing, Unpublishing
  <2> QED BY <1>0, <1>1, <2>1, <2>2
<1>7. CASE MountAppears
  <2>1. /\ Publishing' = Publishing /\ Unpublishing' = Unpublishing
        /\ UNCHANGED <<done, deleted>> /\ odd \subseteq odd'
        /\ pending'["target"] <= pending["target"]
        /\ mounts'["target"] # mounts["target"] => pending["target"] > 0
    BY <1>7, MountsAppear DEF MountAppears, kubelet, Publishing, Unpublishing, Path
  <2>2. NothingUnderWay'
    BY <1>0, <2>1 DEF NothingUnderWay
  <2>3. OneMount'
    BY <1>0, <1>7, <2>1, MountsAppear DEF OneMount
  <2>4. DoneIsUnmounted'
    BY <1>0, <2>1 DEF NothingUnderWay, DoneIsUnmounted, IsMounted
  <2> QED BY <2>2, <2>3, <2>4
<1>8. CASE LauncherRestart
  <2>1. PICK cut \in SUBSET {h \in Handler : \E p \in Path : pc[h] = MountPc[p]} :
          pc' = [h \in Handler |-> IF h \in cut THEN "cleanTmp" ELSE pc[h]]
    BY <1>8 DEF LauncherRestart
  <2>2. \A h \in cut : pc[h] \in {"tmpMount", "targetMount"}
    BY DEF MountPc, Path
  <2>3. Publishing' = Publishing /\ Unpublishing' = Unpublishing
    BY <2>1, <2>2 DEF Publishing, Unpublishing, PublishPc, TypeOK
  <2>4. pending'["target"] = 0
    BY <1>8 DEF LauncherRestart, Path
  <2> QED BY <1>0, <1>1, <1>8, <2>3, <2>4 DEF LauncherRestart, kubelet
<1>9. CASE Restart
  <2>1. Publishing' = {} /\ Unpublishing' = {} /\ UNCHANGED <<mounts, odd, done, deleted>>
    BY <1>9 DEF Restart, kubelet, Publishing, Unpublishing, PublishPc
  <2>2. Publishing = {} => UNCHANGED pending
    BY <1>9 DEF Restart, Publishing, MountPc, Path, PublishPc
  <2> QED BY <1>0, <1>1, <2>1, <2>2
<1> QED BY <1>2, <1>3, <1>4, <1>5, <1>6, <1>7, <1>8, <1>9 DEF Next, HandlerStep

(* After an OK of NodeUnpublishVolume nothing comes back to the target: no *)
(* publish is left and no s3fs that could still mount.                     *)
THEOREM DoneStaysUnmounted == Spec => []DoneIsUnmounted
<1>1. Init => UnpublishInv
  BY DEF Init, UnpublishInv, NothingUnderWay, OneMount, DoneIsUnmounted, Unpublishing, Path
<1>2. UnpublishInv => DoneIsUnmounted
  BY DEF UnpublishInv
<1> QED BY <1>1, <1>2, UnpublishInvStep, TypeCorrect, PTL DEF Spec
-----------------------------------------------------------------------------
(* The sub-directory is in the bucket. *)

SubPathPc == {"tmpUmount", "tmpRemove", "targetDir", "targetCheck", "targetMount"}

LEMMA SubPathHandler ==
  ASSUME TypeOK, OneAtATime, SubPathInv, NEW h \in Handler, PublishStep(h)
  PROVE  SubPathInv'
<1> USE DEF SubPathInv
<1>1. /\ h \in Publishing /\ UNCHANGED odd
      /\ \A g \in Handler : g # h => pc'[g] = pc[g]
  BY PublishShape
<1>2. pc'[h] = "subDir" => mounts'["tmp"] > 0
  BY <1>1 DEF PublishStep, StatCred, WriteCred, MakeTmpDir, CheckTmp, MountTmp, MountTarget,
              Launch, WaitTmp, MakeSubDir, UnmountTmp, RemoveTmp, MakeTargetDir, CheckTarget,
              WaitTarget, CleanTmp, CleanTarget, Cleanup, GoTo, AnswerError, AnswerPublished,
              Return, host, IsMounted, TypeOK
<1>3. ASSUME NEW g \in Handler, g # h, pc[g] = "subDir", "overlap" \notin odd
      PROVE  mounts'["tmp"] = mounts["tmp"]
  <2>1. g \in Publishing
    BY <1>3 DEF Publishing, PublishPc
  <2> QED BY <1>1, <1>3, <2>1 DEF OneAtATime
<1>4. TmpStays'
  BY <1>1, <1>2, <1>3 DEF TmpStays
<1>5. pc'[h] \in SubPathPc => sub' \/ "overlap" \in odd
  <2>1. CASE MakeSubDir(h)
    BY <2>1 DEF MakeSubDir, Cleanup, GoTo, TmpStays, IsMounted, SubPathPc, TypeOK
  <2>2. CASE ~MakeSubDir(h)
    <3>1. pc'[h] \in SubPathPc => pc[h] \in SubPathPc
      BY <2>2 DEF PublishStep, StatCred, WriteCred, MakeTmpDir, CheckTmp, MountTmp, MountTarget,
              Launch, WaitTmp, UnmountTmp, RemoveTmp, MakeTargetDir, CheckTarget,
              WaitTarget, CleanTmp, CleanTarget, Cleanup, GoTo, AnswerError, AnswerPublished,
              Return, SubPathPc, TypeOK
    <3> QED BY <3>1, PublishEffects DEF SubPathCreated, SubPathPc
  <2> QED BY <2>1, <2>2
<1>6. SubPathCreated'
  BY <1>1, <1>5, PublishEffects DEF SubPathCreated, SubPathPc
<1> QED BY <1>4, <1>6

LEMMA SubPathStep == ASSUME TypeOK, PublishInv, SubPathInv, [Next]_vars PROVE SubPathInv'
<1> USE DEF SubPathInv
<1>1. ASSUME mounts["tmp"] > 0 => mounts'["tmp"] > 0, UNCHANGED sub, odd \subseteq odd',
             \A g \in Handler : pc'[g] \in SubPathPc \cup {"subDir"} => pc'[g] = pc[g]
      PROVE  SubPathInv'
  BY <1>1 DEF TmpStays, SubPathCreated, SubPathPc
<1>2. ASSUME NEW h \in Handler, PublishStep(h) PROVE SubPathInv'
  BY <1>2, SubPathHandler DEF PublishInv
<1>3. ASSUME NEW h \in Handler, Unpublish(h) PROVE SubPathInv'
  <2>1. UNCHANGED mounts \/ Unmount("target")
    BY <1>3 DEF Unpublish
  <2>2. mounts["tmp"] > 0 => mounts'["tmp"] > 0
    BY <2>1, TypeUnmount DEF Path, Unmount, TypeOK
  <2> QED BY <1>1, <1>3, <2>2
          DEF Unpublish, AnswerUnpublished, AnswerError, Return, SubPathPc, TypeOK
<1>4. ASSUME NEW h \in Handler, CallPublish(h) \/ CallUnpublish(h) \/ GiveUp(h) PROVE SubPathInv'
  BY <1>1, <1>4 DEF CallPublish, CallUnpublish, GiveUp, Begin, host, SubPathPc, TypeOK
<1>5. CASE DeletePod \/ S3fsDies \/ Restart \/ UNCHANGED vars
  BY <1>1, <1>5 DEF DeletePod, S3fsDies, Restart, vars, host, SubPathPc
<1>6. CASE MountAppears
  <2>1. mounts["tmp"] > 0 => mounts'["tmp"] > 0
    BY <1>6, MountsAppear, TypeStep DEF Path, TypeOK, Next
  <2> QED BY <1>1, <1>6, <2>1, MountsAppear DEF MountAppears
<1>7. CASE LauncherRestart
  BY <1>1, <1>7 DEF LauncherRestart, SubPathPc
<1> QED BY <1>2, <1>3, <1>4, <1>5, <1>6, <1>7 DEF Next, HandlerStep

(* A handler that gets past the temporary mount has its sub-directory in   *)
(* the bucket, not in the empty path below it.                             *)
THEOREM SubPathIsInBucket == Spec => []SubPathCreated
<1>1. Init => PublishInv /\ SubPathInv
  BY DEF Init, PublishInv, OneAtATime, NoneAfterPublished, UnpublishAfterDelete,
         PublishedIsMounted, Publishing, Unpublishing, PublishPc, SubPathInv, TmpStays,
         SubPathCreated
<1>2. SubPathInv => SubPathCreated
  BY DEF SubPathInv
<1> QED BY <1>1, <1>2, PublishInvStep, SubPathStep, TypeCorrect, PTL DEF Spec
-----------------------------------------------------------------------------
(* A credential file that was cut short.                                   *)

(* The file is torn, and nobody is left who would finish it. *)
TornAlone == cred = "torn" /\ \A h \in Handler : pc[h] # "writeCred"

(* It stays so, and no s3fs is started from then on. *)
TornForGood == TornAlone => TornAlone' /\ \A p \in Path : pending'[p] <= pending[p]

LEMMA TornHandler ==
  ASSUME TypeOK, NEW h \in Handler, PublishStep(h) \/ Unpublish(h), TornAlone
  PROVE  UNCHANGED <<cred, pending>> /\ pc'[h] # "writeCred"
         /\ \A g \in Handler : g # h => pc'[g] = pc[g]
<1> USE DEF TornAlone, TypeOK
<1>1. CASE StatCred(h) \/ WriteCred(h)
  BY <1>1 DEF StatCred, WriteCred, GoTo, AnswerError, Return
<1>2. CASE MountTmp(h) \/ MountTarget(h)
  BY <1>2 DEF MountTmp, MountTarget, Launch, Cleanup, GoTo
<1>3. CASE MakeTmpDir(h) \/ CheckTmp(h) \/ WaitTmp(h) \/ MakeSubDir(h)
  BY <1>3 DEF MakeTmpDir, CheckTmp, WaitTmp, MakeSubDir, Cleanup, GoTo, AnswerError, Return, host
<1>4. CASE UnmountTmp(h) \/ RemoveTmp(h) \/ MakeTargetDir(h) \/ CheckTarget(h)
  BY <1>4 DEF UnmountTmp, RemoveTmp, MakeTargetDir, CheckTarget, Cleanup, GoTo, AnswerPublished,
              Return, host
<1>5. CASE WaitTarget(h) \/ CleanTmp(h) \/ CleanTarget(h) \/ Unpublish(h)
  BY <1>5 DEF WaitTarget, CleanTmp, CleanTarget, Unpublish, Cleanup, GoTo, AnswerPublished,
              AnswerUnpublished, AnswerError, Return, host
<1> QED BY <1>1, <1>2, <1>3, <1>4, <1>5 DEF PublishStep

LEMMA TornStep == ASSUME TypeOK, [Next]_vars PROVE TornForGood
<1> SUFFICES ASSUME TornAlone
             PROVE  TornAlone' /\ \A p \in Path : pending'[p] <= pending[p]
  BY DEF TornForGood
<1>1. \A p \in Path : pending[p] \in Nat
  BY DEF TypeOK
<1>2. ASSUME UNCHANGED <<cred, pending>>, \A g \in Handler : pc'[g] # "writeCred"
      PROVE  TornAlone' /\ \A p \in Path : pending'[p] <= pending[p]
  BY <1>1, <1>2 DEF TornAlone
<1>3. ASSUME NEW h \in Handler, PublishStep(h) \/ Unpublish(h)
      PROVE  TornAlone' /\ \A p \in Path : pending'[p] <= pending[p]
  BY <1>2, <1>3, TornHandler DEF TornAlone
<1>4. ASSUME NEW h \in Handler, CallPublish(h) \/ CallUnpublish(h) \/ GiveUp(h)
      PROVE  TornAlone' /\ \A p \in Path : pending'[p] <= pending[p]
  BY <1>2, <1>4 DEF CallPublish, CallUnpublish, GiveUp, Begin, host, TornAlone, TypeOK
<1>5. CASE DeletePod \/ S3fsDies \/ UNCHANGED vars
  BY <1>2, <1>5 DEF DeletePod, S3fsDies, vars, host, TornAlone
<1>6. CASE MountAppears
  BY <1>6, MountsAppear DEF MountAppears, TornAlone
<1>7. CASE LauncherRestart
  BY <1>1, <1>7 DEF LauncherRestart, TornAlone, TypeOK
<1>8. CASE Restart
  BY <1>2, <1>8 DEF Restart, TornAlone
<1> QED BY <1>3, <1>4, <1>5, <1>6, <1>7, <1>8 DEF Next, HandlerStep

(* A credential file whose writer died or failed half-way is never written *)
(* again: a file of that name is taken for a complete one (util.go:118).   *)
(* No s3fs is started for the volume any more, so the exception that the   *)
(* property Published makes is a state nothing leads out of.               *)
THEOREM TornIsForGood == Spec => [][TornForGood]_vars
<1> QED BY TypeCorrect, TornStep, PTL DEF Spec
=============================================================================
