------------------------------ MODULE StsToken ------------------------------
(***************************************************************************)
(* The credentials of the EBS driver (pkg/sts).  Without a static key the  *)
(* plugin fetches a role token from the metadata service, builds two cloud *)
(* clients with it, and starts a goroutine that looks at the token every   *)
(* tokenRefreshPeriod: once it is within tokenExpiredWindow of its expiry  *)
(* a new one is fetched and the two client pointers are replaced.  The     *)
(* handlers of the driver read the pointers without a lock.                *)
(*                                                                         *)
(* A token is the time it has left; 0 is expired.  Time passes in Tick     *)
(* only: never while a goroutine is about to act.                          *)
(***************************************************************************)
EXTENDS Integers

CONSTANTS Period,       \* tokenRefreshPeriod
          Window,       \* tokenExpiredWindow
          Fetch,        \* how long a request to the metadata service takes
          MinLife,      \* what a token has left when it is handed out:
          MaxLife,      \*   between these two
          MaxFailures,  \* requests that fail in a row
          Replies       \* "role", "error", and "other": JSON that is no role

ASSUME TimesAssumption ==
  /\ Period \in Nat \ {0} /\ Fetch \in Nat /\ Window \in Nat
  /\ MinLife \in Nat /\ MaxLife \in Nat /\ MaxFailures \in Nat

VARIABLES main,       \* NewServiceClients: "built", "started", "storing" or "done"
          built,      \* what the clients it has built have left
          pc,         \* the goroutine: "off", "sleep", "fetch", "universal", "ebs"
          due,        \* the time until it acts
          auth,       \* what token.auth has left
          universal,  \* what the token inside UniversalClient has left
          ebs,        \* ... and inside EbsClient
          fails,      \* failed requests in a row
          overwritten \* history: clients whose renewed pointer NewServiceClients
                      \* has replaced by the first one, not renewed again since

tokens == <<built, auth, universal, ebs>>
vars == <<main, built, pc, due, auth, universal, ebs, fails, overwritten>>

NoClient == -1   \* a nil pointer

Max2(a, b) == IF a >= b THEN a ELSE b

TypeOK ==
  /\ main \in {"built", "started", "storing", "done"}
  /\ pc \in {"off", "sleep", "fetch", "universal", "ebs"}
  /\ due \in 0 .. Max2(Period, Fetch)
  /\ built \in 0 .. MaxLife /\ auth \in 0 .. MaxLife
  /\ universal \in -1 .. MaxLife /\ ebs \in -1 .. MaxLife
  /\ fails \in 0 .. MaxFailures
  /\ overwritten \subseteq {"universal", "ebs"}

(* What getRoleToken can return: the status of the reply is not looked at, *)
(* and JSON without the fields of a role leaves the zero credential.       *)
RoleToken == (IF "role" \in Replies THEN MinLife .. MaxLife ELSE {})
               \cup (IF "other" \in Replies THEN {0} ELSE {})

Init ==
  /\ auth \in RoleToken
  /\ built = auth
  /\ main = "built" /\ pc = "off" /\ due = 0
  /\ universal = NoClient /\ ebs = NoClient
  /\ fails = 0
  /\ overwritten = {}

-----------------------------------------------------------------------------
(* NewServiceClients starts the goroutine, whose first round is at once,   *)
(* and stores the clients only after that, one by one and without the lock:*)
(* a first token within the window is renewed in that round, and the round *)
(* may be over before either store.                                        *)
StartRefresh ==
  /\ main = "built"
  /\ main' = "started" /\ pc' = "sleep" /\ due' = 0
  /\ UNCHANGED <<tokens, fails, overwritten>>

(* The client stored over a pointer that is not nil any more. *)
Overwrites(client, pointer) ==
  overwritten' = IF pointer # NoClient THEN overwritten \cup {client} ELSE overwritten

StoreUniversal ==
  /\ main = "started"
  /\ main' = "storing"
  /\ universal' = built
  /\ Overwrites("universal", universal)
  /\ UNCHANGED <<built, auth, ebs, pc, due, fails>>

StoreEbs ==
  /\ main = "storing"
  /\ main' = "done"
  /\ ebs' = built
  /\ Overwrites("ebs", ebs)
  /\ UNCHANGED <<built, auth, universal, pc, due, fails>>

-----------------------------------------------------------------------------
(* A round of the goroutine.                                               *)

\* No margin: a token is renewed once it has expired.
isTokenDead == auth = 0

isTokenExpired == auth < Window

\* The period is added to what is left of the round.
SleepAfterDue == pc' = "sleep" /\ due' = due + Period

Sleep == pc' = "sleep" /\ due' = Period

Look ==
  /\ pc = "sleep" /\ due = 0
  /\ \/ isTokenExpired /\ pc' = "fetch" /\ due' = Fetch
     \/ ~isTokenExpired /\ Sleep
  /\ UNCHANGED <<main, tokens, fails, overwritten>>

(* A request takes at most Fetch. *)
Fetched ==
  /\ pc = "fetch"
  /\ auth' \in RoleToken
  /\ pc' = "universal" /\ due' = 0 /\ fails' = 0
  /\ UNCHANGED <<main, built, universal, ebs, overwritten>>

(* A failed request is repeated in the next round only.                    *)
FetchFails ==
  /\ pc = "fetch" /\ "error" \in Replies /\ fails < MaxFailures
  /\ fails' = fails + 1
  /\ Sleep
  /\ UNCHANGED <<main, tokens, overwritten>>

ReplaceUniversal ==
  /\ pc = "universal"
  /\ universal' = auth
  /\ overwritten' = overwritten \ {"universal"}
  /\ pc' = "ebs" /\ UNCHANGED due
  /\ UNCHANGED <<main, built, auth, ebs, fails>>

\* Only one of the two clients is replaced.
ReplaceNoEbs ==
  /\ pc = "ebs"
  /\ Sleep
  /\ overwritten' = overwritten \ {"ebs"}
  /\ UNCHANGED <<main, tokens, fails>>

ReplaceEbs ==
  /\ pc = "ebs"
  /\ ebs' = auth
  /\ overwritten' = overwritten \ {"ebs"}
  /\ Sleep
  /\ UNCHANGED <<main, built, auth, universal, fails>>

-----------------------------------------------------------------------------
Older(left) == IF left > 0 THEN left - 1 ELSE left

Tick ==
  /\ main = "done" /\ due > 0
  /\ due' = due - 1
  /\ built' = Older(built) /\ auth' = Older(auth)
  /\ universal' = Older(universal) /\ ebs' = Older(ebs)
  /\ UNCHANGED <<main, pc, fails, overwritten>>

Next ==
  \/ StartRefresh \/ StoreUniversal \/ StoreEbs
  \/ Look \/ Fetched \/ FetchFails \/ ReplaceUniversal \/ ReplaceEbs
  \/ Tick

Spec == Init /\ [][Next]_vars

-----------------------------------------------------------------------------
(* The margin covers MaxFailures failed rounds and the one that succeeds,  *)
(* and so does what a token has left when it is handed out, which may be   *)
(* less than the window.                                                   *)
Margin ==
  /\ (MaxFailures + 1) * (Period + Fetch) < Window
  /\ (MaxFailures + 1) * (Period + Fetch) < MinLife
  /\ MinLife <= MaxLife
  /\ "other" \notin Replies

(* No handler ever finds a client whose token has expired, whenever it     *)
(* reads the pointers - except one that NewServiceClients has put back     *)
(* over its renewed successor: the goroutine judges by the new token and   *)
(* leaves the old client in use (sts.go:149-155, 168-213).                 *)
ClientsUsable ==
  main = "done" => /\ "universal" \notin overwritten => universal > 0
                   /\ "ebs" \notin overwritten => ebs > 0

(* Between two rounds either client holds the token the goroutine judges   *)
(* by, whenever the first round ran between `go` and the two stores: the   *)
(* store over a renewed pointer is the only way to an older token, and the *)
(* next renewal ends it (sts.go:150-155, 180-212).                         *)
ClientsHoldToken ==
  main = "done" /\ pc \in {"sleep", "fetch"} =>
    /\ "universal" \notin overwritten => universal = auth
    /\ "ebs" \notin overwritten => ebs = auth
=============================================================================
