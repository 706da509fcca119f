------------------------------ MODULE InFlight ------------------------------
(***************************************************************************)
(* The in-flight table of pkg/util/inflight: a mutex-protected set of the  *)
(* keys some request handler is working on.  A handler inserts its key,    *)
(* answers Aborted when the key is already there, and deletes the key with *)
(* a deferred call on every return path.  The Go map is only used for      *)
(* membership, so the table is a set.  Each operation runs under db.mux    *)
(* from its first line to its last, so each is one step of its caller.     *)
(***************************************************************************)

(* NewInFlight: an empty table; nothing survives the process. *)
NewInFlight == {}

(* A mistake: setting the key without looking at the map first. *)
AlwaysInsert(inFlight, key) == TRUE

(* The test of Insert: TRUE when Insert(key) would add the key. *)
CanInsert(inFlight, key) == key \notin inFlight

(* Insert, in the case in which it returns true. *)
Insert(inFlight, key) == inFlight \cup {key}

(* Delete does nothing for a key that is not in the table. *)
Delete(inFlight, key) == inFlight \ {key}
=============================================================================
