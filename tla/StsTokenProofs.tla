--------------------------- MODULE StsTokenProofs ---------------------------
(***************************************************************************)
(* The refresh margin of StsToken for every period, window and number of   *)
(* failures that satisfy Margin.  The invariant says how much life the     *)
(* token still has at each point of a round: enough for the rest of the    *)
(* round and for every failure that may still come.                        *)
(***************************************************************************)
EXTENDS StsToken, TLAPS

Cycle == Period + Fetch
Reserve(k) == (MaxFailures - k) * Cycle

Lasts ==
  /\ pc = "sleep" => auth > due + Fetch + Reserve(fails)
  /\ pc = "fetch" => auth > due + Reserve(fails)
  /\ pc \in {"off", "universal", "ebs"} => auth >= MinLife

Starts ==
  /\ main = "built" <=> pc = "off"
  /\ main # "done" => built >= MinLife
  /\ pc \in {"universal", "ebs"} => due = 0

(* Before its store a nil pointer means that the first token is still the  *)
(* one judged by, once the goroutine is past the assignment; after it, a   *)
(* client that was not overwritten is usable, and between two rounds it is *)
(* the token judged by.                                                    *)
UniversalOK ==
  /\ main \in {"built", "started"} =>
       /\ "universal" \notin overwritten
       /\ universal = NoClient /\ pc # "universal" => built = auth
  /\ main \in {"storing", "done"} /\ "universal" \notin overwritten =>
       universal > 0 /\ (pc # "universal" => universal = auth)

EbsOK ==
  /\ main # "done" =>
       /\ "ebs" \notin overwritten
       /\ ebs = NoClient /\ pc \notin {"universal", "ebs"} => built = auth
  /\ main = "done" /\ "ebs" \notin overwritten =>
       ebs > 0 /\ (pc \notin {"universal", "ebs"} => ebs = auth)

Inv == TypeOK /\ Lasts /\ Starts /\ UniversalOK /\ EbsOK

-----------------------------------------------------------------------------
(* Every failure uses up one cycle of the reserve.                         *)
LEMMA ReserveFacts ==
  ASSUME Margin, NEW k \in 0 .. MaxFailures
  PROVE  /\ Cycle \in Nat /\ Reserve(k) \in Nat
         /\ Cycle + Reserve(k) < Window /\ Cycle + Reserve(k) < MinLife
         /\ k < MaxFailures => Reserve(k) = Cycle + Reserve(k + 1)
<1>1. /\ MaxFailures \in Nat /\ k \in Nat /\ k <= MaxFailures
      /\ Cycle \in Nat /\ Window \in Nat /\ MinLife \in Nat
  BY TimesAssumption DEF Cycle
<1>2. MaxFailures - k \in Nat
  BY <1>1
<1>3. Reserve(k) \in Nat
  BY <1>1, <1>2, SMTT(30) DEF Reserve
<1>4. k * Cycle \in Nat
  BY <1>1, SMTT(30)
<1>5. Cycle + Reserve(k) = (MaxFailures + 1) * Cycle - k * Cycle
  BY <1>1, SMTT(30) DEF Reserve
<1>6. /\ (MaxFailures + 1) * Cycle < Window /\ (MaxFailures + 1) * Cycle < MinLife
      /\ (MaxFailures + 1) * Cycle \in Int
  BY <1>1 DEF Margin, Cycle
<1>7. Cycle + Reserve(k) < Window /\ Cycle + Reserve(k) < MinLife
  BY <1>1, <1>3, <1>4, <1>5, <1>6
<1>8. Reserve(k) = Cycle + Reserve(k + 1)
  BY <1>1, SMTT(30) DEF Reserve
<1> QED
  BY <1>1, <1>3, <1>7, <1>8

LEMMA InitLasts == ASSUME Margin, Init PROVE Inv
<1>1. auth \in Nat /\ auth >= MinLife /\ auth <= MaxLife
  BY TimesAssumption DEF Init, RoleToken, Margin
<1> QED
  BY <1>1, TimesAssumption
     DEF Init, Inv, TypeOK, Lasts, Starts, UniversalOK, EbsOK, NoClient, Max2

(* The goroutine's token: the arithmetic of a round.                       *)
LEMMA LastsStep == ASSUME Margin, Inv, [Next]_vars PROVE TypeOK' /\ Lasts' /\ Starts'
<1> USE TimesAssumption DEF Inv
<1>a. /\ Cycle = Period + Fetch
      /\ MinLife <= MaxLife
      /\ RoleToken \subseteq MinLife .. MaxLife
  BY DEF Cycle, Margin, RoleToken
<1>b. /\ Cycle \in Nat /\ Reserve(fails) \in Nat
      /\ Cycle + Reserve(fails) < Window /\ Cycle + Reserve(fails) < MinLife
      /\ fails < MaxFailures => Reserve(fails) = Cycle + Reserve(fails + 1)
  BY ReserveFacts DEF TypeOK
<1>c. fails' = fails => Reserve(fails)' = Reserve(fails)
  BY DEF Reserve
<1>1. CASE StartRefresh
  BY <1>1, <1>a, <1>b, <1>c DEF StartRefresh, tokens, TypeOK, Lasts, Starts, Max2
<1>2. CASE StoreUniversal \/ StoreEbs
  <2>1. UNCHANGED <<built, auth, pc, due, fails>> /\ main \in {"started", "storing"}
    BY <1>2 DEF StoreUniversal, StoreEbs
  <2>2. /\ main' \in {"storing", "done"}
        /\ universal' \in {universal, built} /\ ebs' \in {ebs, built}
    BY <1>2 DEF StoreUniversal, StoreEbs
  <2>3. overwritten' \subseteq {"universal", "ebs"}
    BY <1>2 DEF StoreUniversal, StoreEbs, Overwrites, TypeOK
  <2>4. built \in -1 .. MaxLife
    BY DEF TypeOK
  <2>5. TypeOK'
    BY <2>1, <2>2, <2>3, <2>4 DEF TypeOK
  <2> QED
    BY <2>1, <2>2, <2>5, <1>c DEF Lasts, Starts
<1>3. CASE Look
  <2>1. CASE isTokenExpired
    BY <1>3, <2>1, <1>a, <1>b, <1>c DEF Look, isTokenExpired, tokens, TypeOK, Lasts, Starts, Max2
  <2>2. CASE ~isTokenExpired
    <3>1. /\ pc = "sleep" /\ due = 0 /\ auth >= Window
          /\ pc' = "sleep" /\ due' = Period
          /\ UNCHANGED <<main, tokens, fails, overwritten>>
      BY <1>3, <2>2 DEF Look, isTokenExpired, Sleep, TypeOK
    <3> QED
      BY <3>1, <1>a, <1>b, <1>c DEF tokens, TypeOK, Lasts, Starts, Max2
  <2> QED
    BY <2>1, <2>2
<1>4. CASE Fetched
  <2>1. auth' \in Nat /\ auth' >= MinLife /\ auth' <= MaxLife
    BY <1>4, <1>a DEF Fetched
  <2> QED
    BY <1>4, <2>1 DEF Fetched, TypeOK, Lasts, Starts, Max2
<1>5. CASE FetchFails
  <2>1. Reserve(fails + 1) \in Nat /\ Reserve(fails)' = Reserve(fails + 1)
    BY <1>5, ReserveFacts DEF FetchFails, TypeOK, Reserve
  <2> QED
    BY <1>5, <2>1, <1>a, <1>b DEF FetchFails, Sleep, tokens, TypeOK, Lasts, Starts, Max2
<1>6. CASE ReplaceUniversal
  BY <1>6 DEF ReplaceUniversal, TypeOK, Lasts, Starts, Max2
<1>7. CASE ReplaceEbs
  BY <1>7, <1>a, <1>b, <1>c DEF ReplaceEbs, Sleep, TypeOK, Lasts, Starts, Max2
<1>8. CASE Tick
  <2>1. /\ main = "done" /\ due > 0 /\ due' = due - 1
        /\ pc' = pc /\ main' = main /\ fails' = fails /\ overwritten' = overwritten
    BY <1>8 DEF Tick
  <2>2. pc \in {"sleep", "fetch"} /\ auth > 1 /\ auth' = auth - 1
    BY <1>8, <2>1, <1>b DEF Tick, Older, TypeOK, Lasts, Starts
  <2>3. /\ auth' \in 0 .. MaxLife /\ built' \in 0 .. MaxLife
        /\ universal' \in -1 .. MaxLife /\ ebs' \in -1 .. MaxLife
    BY <1>8 DEF Tick, Older, TypeOK
  <2>4. TypeOK'
    BY <2>1, <2>3 DEF TypeOK, Max2
  <2> QED
    BY <2>1, <2>2, <2>4, <1>b, <1>c DEF TypeOK, Lasts, Starts
<1>9. CASE UNCHANGED vars
  BY <1>9, <1>c DEF vars, TypeOK, Lasts, Starts
<1> QED
  BY <1>1, <1>2, <1>3, <1>4, <1>5, <1>6, <1>7, <1>8, <1>9 DEF Next

(* The two pointers, whichever of the goroutine and NewServiceClients      *)
(* stores first.                                                           *)
LEMMA ClientsStep == ASSUME Margin, Inv, [Next]_vars PROVE UniversalOK' /\ EbsOK'
<1> USE TimesAssumption DEF Inv
<1>1. MinLife > 0
  BY ReserveFacts DEF TypeOK
<1>2. pc # "off" => auth > 0
  <2>1. Reserve(fails) \in Nat
    BY ReserveFacts DEF TypeOK
  <2> QED
    BY <1>1, <2>1 DEF TypeOK, Lasts
<1> USE DEF UniversalOK, EbsOK, NoClient
<1>3. CASE StartRefresh
  BY <1>3 DEF StartRefresh, tokens, TypeOK, Starts
<1>4. CASE StoreUniversal
  BY <1>4, <1>1 DEF StoreUniversal, Overwrites, TypeOK, Starts
<1>5. CASE StoreEbs
  BY <1>5, <1>1 DEF StoreEbs, Overwrites, TypeOK, Starts
<1>6. CASE Look \/ FetchFails
  BY <1>6 DEF Look, FetchFails, Sleep, tokens, TypeOK
<1>7. CASE Fetched
  BY <1>7 DEF Fetched, TypeOK
<1>8. CASE ReplaceUniversal
  BY <1>8, <1>2 DEF ReplaceUniversal, TypeOK
<1>9. CASE ReplaceEbs
  BY <1>9, <1>2 DEF ReplaceEbs, Sleep, TypeOK
<1>10. CASE Tick
  <2>1. main = "done" /\ due > 0 /\ UNCHANGED <<main, pc, overwritten>>
    BY <1>10 DEF Tick
  <2>2. pc \in {"sleep", "fetch"}
    BY <2>1 DEF TypeOK, Starts
  <2>3. auth > 1
    <3>1. Reserve(fails) \in Nat
      BY ReserveFacts DEF TypeOK
    <3> QED
      BY <2>1, <2>2, <3>1 DEF TypeOK, Lasts
  <2> QED
    BY <1>10, <2>1, <2>2, <2>3 DEF Tick, Older, TypeOK
<1>11. CASE UNCHANGED vars
  BY <1>11 DEF vars
<1> QED
  BY <1>3, <1>4, <1>5, <1>6, <1>7, <1>8, <1>9, <1>10, <1>11 DEF Next

LEMMA AlwaysLasts == ASSUME Margin PROVE Spec => []Inv
<1>1. Init => Inv
  BY InitLasts
<1>2. Inv /\ [Next]_vars => Inv'
  BY LastsStep, ClientsStep DEF Inv
<1> QED
  BY <1>1, <1>2, PTL DEF Spec

(* sts.go:75-214: every variable keeps its type; the time until the next   *)
(* act never exceeds a period or a request.                                *)
THEOREM TypeCorrect == ASSUME Margin PROVE Spec => []TypeOK
<1>1. Inv => TypeOK
  BY DEF Inv
<1> QED
  BY <1>1, AlwaysLasts, PTL

(* sts.go:149-213: with a margin for every failed round, no handler ever   *)
(* reads a client whose token has expired, except one that was stored over *)
(* its renewed successor.                                                  *)
THEOREM NeverExpired == ASSUME Margin PROVE Spec => []ClientsUsable
<1>1. Inv => ClientsUsable
  BY DEF Inv, UniversalOK, EbsOK, ClientsUsable
<1> QED
  BY <1>1, AlwaysLasts, PTL

(* sts.go:150-155, 180-212: wherever the first round falls between the `go` *)
(* and the two stores, and however many rounds follow, a client that was   *)
(* not stored over its renewed successor is, between two rounds, the token *)
(* by which the goroutine decides whether to renew it.                     *)
THEOREM HoldsToken == ASSUME Margin PROVE Spec => []ClientsHoldToken
<1>1. Inv => ClientsHoldToken
  BY DEF Inv, UniversalOK, EbsOK, ClientsHoldToken
<1> QED
  BY <1>1, AlwaysLasts, PTL
=============================================================================
