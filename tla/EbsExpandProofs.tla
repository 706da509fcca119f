--------------------------- MODULE EbsExpandProofs ---------------------------
(***************************************************************************)
(* Theorems about EbsExpand, for any number of handlers, any requests and  *)
(* any number of faults, deadlines and restarts.                           *)
(***************************************************************************)
EXTENDS EbsExpand, TLAPS

USE DEF ControllerPc, NodePc, Pc, handlerVars, cloudVars, nodeVars, history, bounds
-----------------------------------------------------------------------------
(* Types. *)

(* Rounding up yields a number of GB that covers the bytes. *)
LEMMA CeilGBCovers ==
  ASSUME NEW b \in Nat
  PROVE  CeilGB(b) \in Nat /\ b <= CeilGB(b) * GB
BY ExpandAssumption DEF CeilGB

(* More GB are more bytes. *)
LEMMA MoreBytes ==
  ASSUME NEW m \in Nat, NEW n \in Nat, m <= n
  PROVE  m * GB <= n * GB /\ m * GB \in Nat
BY ExpandAssumption

(* A number of GB is a number of bytes. *)
LEMMA BytesAreNat == ASSUME NEW n \in Nat PROVE n * GB \in Nat
BY ExpandAssumption

(* The sizes of the model are numbers of GB. *)
LEMMA SizesAreNat == Sizes \subseteq Nat
BY ExpandAssumption, CeilGBCovers DEF Sizes

(* What a handler at work was asked for, and what an answer may contain. *)
Working ==
  \A h \in Handler : pc[h] \in ControllerPc \cup NodePc => req[h] \in Request

TypeInv == TypeOK /\ Working

LEMMA TypeInit == Init => TypeInv
BY ExpandAssumption DEF Init, TypeInv, TypeOK, Working

(* Every answer is a number of bytes. *)
LEMMA AnswersAreNat ==
  ASSUME TypeInv, NEW h \in Handler
  PROVE  req[h] \in Nat /\ Shown \subseteq Nat
<1>1. size \in Nat /\ (goal # None => goal \in Nat)
  BY ExpandAssumption, SizesAreNat DEF TypeInv, TypeOK
<1>2. req[h] \in Nat
  <2>1. req[h] \in Request \cup {0}
    BY DEF TypeInv, TypeOK
  <2>2. Request \subseteq Nat
    BY ExpandAssumption
  <2>3. CASE req[h] \in Request
    BY <2>2, <2>3
  <2>4. CASE req[h] = 0
    BY <2>4
  <2> QED BY <2>1, <2>3, <2>4
<1>3. size * GB \in Nat /\ (goal # None => goal * GB \in Nat)
  BY <1>1, BytesAreNat
<1> QED BY <1>2, <1>3 DEF Shown, Extending

LEMMA TypeStep == ASSUME TypeInv, [Next]_vars PROVE TypeInv'
<1> USE DEF TypeInv, TypeOK, Working
<1>1. CASE UNCHANGED vars
  BY <1>1 DEF vars
<1>2. CASE Raise
  BY <1>2 DEF Raise
<1>3. ASSUME NEW h \in Handler, CallExpand(h) PROVE TypeInv'
  BY <1>3, ExpandAssumption DEF CallExpand, Begin
<1>4. ASSUME NEW h \in Handler, CallNodeExpand(h) PROVE TypeInv'
  BY <1>4 DEF CallNodeExpand, Begin
<1>5. ASSUME NEW h \in Handler, Deadline(h) PROVE TypeInv'
  BY <1>5, ExpandAssumption DEF Deadline, Stuck
<1>6. ASSUME NEW h \in Handler, Look(h) PROVE TypeInv'
  <2>1. CASE AnswerError(h)
    BY <1>6, <2>1, ExpandAssumption DEF Look, AnswerError, Return, Fault
  <2>2. CASE GoTo(h, "extend") /\ UNCHANGED faults
    BY <1>6, <2>2 DEF Look, GoTo
  <2>3. ASSUME NEW capacity \in Shown, AnswerExpanded(h, capacity), UNCHANGED faults
        PROVE  TypeInv'
    BY <1>6, <2>3, AnswersAreNat DEF Look, AnswerExpanded, Return
  <2> QED BY <1>6, <2>1, <2>2, <2>3 DEF Look
<1>7. ASSUME NEW h \in Handler, ExtendVolume(h) PROVE TypeInv'
  <2>1. NewSize(h) \in Sizes
    BY <1>7 DEF ExtendVolume, NewSize, Sizes
  <2>2. CASE AnswerError(h) /\ UNCHANGED goal
    BY <1>7, <2>1, <2>2, ExpandAssumption DEF ExtendVolume, AnswerError, Return, Fault
  <2>3. CASE goal' = NewSize(h) /\ GoTo(h, "wait") /\ UNCHANGED <<late, faults>>
    BY <1>7, <2>1, <2>3 DEF ExtendVolume, GoTo
  <2> QED BY <1>7, <2>2, <2>3 DEF ExtendVolume
<1>8. ASSUME NEW h \in Handler, WaitVolumeBeExtended(h) PROVE TypeInv'
  <2>0. faults' \in 0..MaxFaults
    BY <1>8, ExpandAssumption DEF WaitVolumeBeExtended, NoVolumeFound, Fault
  <2>1. CASE AnswerError(h)
    BY <1>8, <2>0, <2>1 DEF WaitVolumeBeExtended, AnswerError, Return
  <2>2. CASE GoTo(h, "panic")
    BY <1>8, <2>0, <2>2 DEF WaitVolumeBeExtended, GoTo
  <2>3. CASE AnswerExpanded(h, req[h])
    BY <1>8, <2>0, <2>3, AnswersAreNat DEF WaitVolumeBeExtended, AnswerExpanded, Return
  <2> QED BY <1>8, <2>1, <2>2, <2>3 DEF WaitVolumeBeExtended
<1>9. ASSUME NEW h \in Handler, Resize(h) PROVE TypeInv'
  <2>1. faults' \in 0..MaxFaults
    BY <1>9, ExpandAssumption DEF Resize, Fault
  <2>2. CASE AnswerError(h) /\ UNCHANGED fs
    BY <1>9, <2>1, <2>2 DEF Resize, AnswerError, Return
  <2>3. CASE fs' = device /\ GoTo(h, "checkFs")
    BY <1>9, <2>1, <2>3 DEF Resize, GoTo
  <2> QED BY <1>9, <2>2, <2>3 DEF Resize
<1>10. ASSUME NEW h \in Handler, CheckFs(h) PROVE TypeInv'
  BY <1>10, AnswersAreNat DEF CheckFs, AnswerGrown, AnswerError, Return
<1>11. CASE Restart
  <2>1. PICK sent \in SUBSET {h \in Handler : pc[h] = "extend"} :
           late' = late \cup {NewSize(h) : h \in sent}
    BY <1>11 DEF Restart
  <2>2. late' \subseteq Sizes
    BY <2>1 DEF NewSize, Sizes
  <2> QED BY <1>11, <2>2, ExpandAssumption DEF Restart
<1>12. CASE Rescan
  BY <1>12 DEF Rescan
<1>13. CASE CloudFinishes
  BY <1>13, ExpandAssumption DEF CloudFinishes, Extending, Fault
<1>14. CASE CloudLateExtend
  BY <1>14 DEF CloudLateExtend
<1>15. CASE CloudDelete
  BY <1>15 DEF CloudDelete
<1> QED
  BY <1>1, <1>2, <1>3, <1>4, <1>5, <1>6, <1>7, <1>8, <1>9, <1>10, <1>11, <1>12, <1>13,
     <1>14, <1>15
  DEF Next, HandlerStep, ControllerStep, NodeStep

(* Every variable keeps its type: the sizes the cloud is asked for, and    *)
(* ever has, are those of the requests, in GB, or the first one.           *)
THEOREM TypeCorrect == Spec => []TypeOK
<1>1. TypeInv => TypeOK
  BY DEF TypeInv
<1> QED BY <1>1, TypeInit, TypeStep, PTL DEF Spec
-----------------------------------------------------------------------------
(* Answers. *)

(* The three sizes: the filesystem is never larger than the device, nor    *)
(* the device than the volume, and the cloud only ever makes the volume    *)
(* larger.                                                                 *)
SizesOrdered ==
  /\ fs <= device
  /\ device <= size
  /\ goal # None => goal > size

(* The kubelet expands what the resizer has been promised. *)
NodeAsksPromised ==
  \A h \in Handler : pc[h] \in NodePc => req[h] <= promised

SizeInv == SizesOrdered /\ NodeAsksPromised /\ PromisedIsThere /\ GrownWithinTenth

LEMMA SizeInit == Init => SizeInv
<1> SUFFICES ASSUME Init PROVE SizeInv
  OBVIOUS
<1>1. CeilGB(0) = 0
  BY ExpandAssumption DEF CeilGB
<1>2. InitialSize * GB \in Nat
  BY ExpandAssumption, MoreBytes
<1> QED
  BY <1>1, <1>2, ExpandAssumption
  DEF Init, SizeInv, SizesOrdered, NodeAsksPromised, PromisedIsThere, GrownWithinTenth

(* The types as plain numbers. *)
LEMMA Numbers ==
  ASSUME TypeInv
  PROVE  /\ size \in Nat /\ device \in Nat /\ fs \in Nat
         /\ goal # None => goal \in Nat
         /\ promised \in Nat /\ grown \in Nat
         /\ \A h \in Handler : req[h] \in Nat
         /\ size * GB \in Nat
<1>1. /\ size \in Nat /\ device \in Nat /\ fs \in Nat
      /\ goal # None => goal \in Nat
      /\ promised \in Nat /\ grown \in Nat
  BY ExpandAssumption, SizesAreNat DEF TypeInv, TypeOK
<1>2. \A h \in Handler : req[h] \in Nat
  BY AnswersAreNat
<1> QED BY <1>1, <1>2, BytesAreNat

(* An answer of ControllerExpandVolume is within the size of the volume.   *)
LEMMA ExpandedStep ==
  ASSUME TypeInv, SizeInv, NEW h \in Handler, NEW bytes \in Nat,
         bytes <= size * GB, AnswerExpanded(h, bytes),
         UNCHANGED <<size, goal, nodeVars>>
  PROVE  SizeInv'
<1>1. promised' >= promised /\ promised' <= size * GB /\ promised' \in Nat
  BY Numbers DEF SizeInv, PromisedIsThere, AnswerExpanded
<1>2. NodeAsksPromised'
  BY <1>1, Numbers
  DEF SizeInv, NodeAsksPromised, AnswerExpanded, Return, TypeInv, TypeOK
<1>3. GrownWithinTenth'
  BY DEF SizeInv, GrownWithinTenth, AnswerExpanded, CeilGB
<1> QED BY <1>1, <1>2, <1>3 DEF SizeInv, SizesOrdered, PromisedIsThere

(* A step that leaves the sizes and the answers alone, and starts no       *)
(* expansion on the node.                                                  *)
LEMMA OtherStep ==
  ASSUME SizeInv, UNCHANGED <<size, nodeVars, history>>,
         goal' # None => goal' > size,
         \A h \in Handler : pc'[h] \in NodePc => pc[h] \in NodePc /\ req'[h] = req[h]
  PROVE  SizeInv'
BY DEF SizeInv, SizesOrdered, NodeAsksPromised, PromisedIsThere, GrownWithinTenth, CeilGB

LEMMA SizeStep == ASSUME TypeInv, SizeInv, [Next]_vars PROVE SizeInv'
<1> USE DEF TypeInv, TypeOK
<1>0. goal # None => goal > size
  BY DEF SizeInv, SizesOrdered
<1>1. CASE UNCHANGED vars
  BY <1>0, <1>1, OtherStep DEF vars
<1>2. CASE Raise
  BY <1>0, <1>2, OtherStep DEF Raise
<1>3. ASSUME NEW h \in Handler, CallExpand(h) PROVE SizeInv'
  BY <1>0, <1>3, OtherStep DEF CallExpand, Begin
<1>4. ASSUME NEW h \in Handler, CallNodeExpand(h) PROVE SizeInv'
  BY <1>4
  DEF CallNodeExpand, Begin, SizeInv, SizesOrdered, NodeAsksPromised, PromisedIsThere,
      GrownWithinTenth, CeilGB
<1>5. ASSUME NEW h \in Handler, Deadline(h) PROVE SizeInv'
  BY <1>0, <1>5, OtherStep DEF Deadline
<1>6. ASSUME NEW h \in Handler, Look(h) PROVE SizeInv'
  <2>1. CASE AnswerError(h)
    BY <1>0, <1>6, <2>1, OtherStep DEF Look, AnswerError, Return
  <2>2. CASE GoTo(h, "extend")
    BY <1>0, <1>6, <2>2, OtherStep DEF Look, GoTo
  <2>3. ASSUME NEW capacity \in Shown, LargeEnough(h, capacity),
               AnswerExpanded(h, capacity)
        PROVE  SizeInv'
    <3>1. capacity = size * GB
      BY <2>3 DEF Shown, LargeEnough
    <3> QED BY <1>6, <2>3, <3>1, Numbers, ExpandedStep DEF Look
  <2> QED BY <1>6, <2>1, <2>2, <2>3 DEF Look
<1>7. ASSUME NEW h \in Handler, ExtendVolume(h) PROVE SizeInv'
  <2>1. goal' # None => goal' > size
    BY <1>0, <1>7 DEF ExtendVolume, CloudAccepts
  <2> QED
    BY <1>7, <2>1, OtherStep DEF ExtendVolume, AnswerError, Return, GoTo
<1>8. ASSUME NEW h \in Handler, WaitVolumeBeExtended(h) PROVE SizeInv'
  <2>1. CASE AnswerError(h)
    BY <1>0, <1>8, <2>1, OtherStep DEF WaitVolumeBeExtended, AnswerError, Return
  <2>2. CASE GoTo(h, "panic")
    BY <1>0, <1>8, <2>2, OtherStep DEF WaitVolumeBeExtended, GoTo
  <2>3. CASE size = NewSize(h) /\ AnswerExpanded(h, req[h])
    <3>1. req[h] \in Nat /\ req[h] <= size * GB
      BY <2>3, Numbers, CeilGBCovers DEF NewSize
    <3> QED BY <1>8, <2>3, <3>1, ExpandedStep DEF WaitVolumeBeExtended
  <2> QED BY <1>8, <2>1, <2>2, <2>3 DEF WaitVolumeBeExtended
<1>9. ASSUME NEW h \in Handler, Resize(h) PROVE SizeInv'
  <2>1. CASE AnswerError(h) /\ UNCHANGED fs
    BY <1>0, <1>9, <2>1, OtherStep DEF Resize, AnswerError, Return
  <2>2. CASE fs' = device /\ GoTo(h, "checkFs")
    <3>1. fs' >= fs /\ fs' \in Nat
      BY <2>2, Numbers DEF SizeInv, SizesOrdered
    <3>2. CeilGB(grown) \in Nat
      BY Numbers, CeilGBCovers
    <3>3. GrownWithinTenth'
      BY <1>9, <2>2, <3>1, <3>2, Numbers
      DEF SizeInv, GrownWithinTenth, Resize, GoTo, CeilGB
    <3> QED
      BY <1>9, <2>2, <3>3, Numbers
      DEF Resize, GoTo, SizeInv, SizesOrdered, NodeAsksPromised, PromisedIsThere
  <2> QED BY <1>9, <2>1, <2>2 DEF Resize
<1>10. ASSUME NEW h \in Handler, CheckFs(h) PROVE SizeInv'
  <2>1. CASE AnswerError(h)
    BY <1>0, <1>10, <2>1, OtherStep DEF CheckFs, AnswerError, Return
  <2>2. CASE fs * 10 >= CeilGB(req[h]) * 9 /\ AnswerGrown(h)
    <3>1. req[h] <= size * GB
      BY <1>10, Numbers DEF CheckFs, SizeInv, NodeAsksPromised, PromisedIsThere
    <3>2. grown' \in {grown, req[h]}
      BY <2>2 DEF AnswerGrown
    <3>3. GrownWithinTenth'
      BY <1>10, <2>2, <3>1, <3>2 DEF CheckFs, SizeInv, GrownWithinTenth, CeilGB
    <3> QED
      BY <1>10, <2>2, <3>3
      DEF CheckFs, AnswerGrown, Return, SizeInv, SizesOrdered, NodeAsksPromised,
          PromisedIsThere
  <2> QED BY <1>10, <2>1, <2>2 DEF CheckFs
<1>11. CASE Restart
  BY <1>0, <1>11, OtherStep DEF Restart
<1>12. CASE Rescan
  BY <1>12, Numbers
  DEF Rescan, SizeInv, SizesOrdered, NodeAsksPromised, PromisedIsThere, GrownWithinTenth,
      CeilGB
<1>13. CASE CloudFinishes
  <2>1. size' \in Nat /\ size' >= size
    BY <1>13, Numbers, <1>0 DEF CloudFinishes, Extending
  <2>2. size * GB <= size' * GB /\ size' * GB \in Nat
    BY <2>1, Numbers, MoreBytes
  <2>3. SizesOrdered'
    BY <1>13, <2>1, Numbers DEF CloudFinishes, SizeInv, SizesOrdered
  <2>4. PromisedIsThere'
    BY <1>13, <2>2, Numbers DEF CloudFinishes, SizeInv, PromisedIsThere
  <2>5. GrownWithinTenth'
    BY <1>13, <2>2, Numbers DEF CloudFinishes, SizeInv, GrownWithinTenth, CeilGB
  <2> QED
    BY <1>13, <2>3, <2>4, <2>5 DEF CloudFinishes, SizeInv, NodeAsksPromised
<1>14. CASE CloudLateExtend
  <2>1. goal' # None => goal' > size
    BY <1>0, <1>14 DEF CloudLateExtend, CloudAccepts
  <2> QED BY <1>14, <2>1, OtherStep DEF CloudLateExtend
<1>15. CASE CloudDelete
  BY <1>0, <1>15, OtherStep DEF CloudDelete
<1> QED
  BY <1>1, <1>2, <1>3, <1>4, <1>5, <1>6, <1>7, <1>8, <1>9, <1>10, <1>11, <1>12, <1>13,
     <1>14, <1>15
  DEF Next, HandlerStep, ControllerStep, NodeStep

(* No answer of ControllerExpandVolume (controllersvc.go:463, 467, 477)    *)
(* promises more bytes than the volume has, then or later.                 *)
THEOREM PromisesKept == Spec => []PromisedIsThere
<1>1. SizeInv => PromisedIsThere
  BY DEF SizeInv
<1> QED BY <1>1, TypeInit, TypeStep, SizeInit, SizeStep, PTL DEF Spec

(* After an OK of NodeExpandVolume (nodesvc.go:383) the filesystem has, and *)
(* keeps, nine tenths of what was asked for.                               *)
THEOREM GrownEnough == Spec => []GrownWithinTenth
<1>1. SizeInv => GrownWithinTenth
  BY DEF SizeInv
<1> QED BY <1>1, TypeInit, TypeStep, SizeInit, SizeStep, PTL DEF Spec
=============================================================================
