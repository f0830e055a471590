--------------------------- MODULE AudioLifecycle ---------------------------
(***************************************************************************)
(* What the service promises about the audio file of a recording: once its  *)
(* upload was confirmed the file stays until it is due - thirty days, or no *)
(* content - and once its deletion was recorded it never appears again,     *)
(* although a client may write it under a presigned URL at any time before. *)
(***************************************************************************)
CONSTANT Uploads

VARIABLES
    phase,  \* phase[u]: OPEN, KEPT, DOOMED or GONE
    object, \* object[u]: the file is in the object store
    due     \* the uploads whose deletion may be requested

vars == <<phase, object, due>>

Init ==
    /\ phase = [u \in Uploads |-> "OPEN"]
    /\ object \in [Uploads -> BOOLEAN]
    /\ due = {}

Store(u) ==
    /\ phase[u] # "GONE"
    /\ object' = [object EXCEPT ![u] = TRUE]
    /\ UNCHANGED <<phase, due>>

Keep(u) ==
    /\ phase[u] = "OPEN" /\ object[u]
    /\ phase' = [phase EXCEPT ![u] = "KEPT"]
    /\ UNCHANGED <<object, due>>

BecomeDue ==
    /\ due \subseteq due' /\ due' \subseteq Uploads
    /\ UNCHANGED <<phase, object>>

Doom(u) ==
    /\ phase[u] = "KEPT" /\ u \in due
    /\ phase' = [phase EXCEPT ![u] = "DOOMED"]
    /\ UNCHANGED <<object, due>>

Erase(u) ==
    /\ phase[u] \in {"DOOMED", "GONE"}
    /\ object' = [object EXCEPT ![u] = FALSE]
    /\ UNCHANGED <<phase, due>>

Confirm(u) ==
    /\ phase[u] = "DOOMED" /\ ~object[u]
    /\ phase' = [phase EXCEPT ![u] = "GONE"]
    /\ UNCHANGED <<object, due>>

Next ==
    \/ \E u \in Uploads : Store(u) \/ Keep(u) \/ Doom(u) \/ Erase(u) \/ Confirm(u)
    \/ BecomeDue

Spec == Init /\ [][Next]_vars
=============================================================================
