-------------------------- MODULE WorkspacePromise --------------------------
(***************************************************************************)
(* What a workspace promises its members.  It has one owner, who goes only  *)
(* by handing it over or by closing it when alone.  A document asks those   *)
(* who were there when it was published, and it is put into the archive the *)
(* moment nobody who was asked is both here and still to answer - whoever's *)
(* doing that was - and stays there.                                        *)
(***************************************************************************)
CONSTANTS Workspaces, Members, Documents

VARIABLES
    stage,      \* stage[w]: "NONE", "OPEN" or "DELETED"
    crew,       \* crew[w]: who is in it
    owners,     \* owners[w]
    published,  \* published[w]: its documents
    asked,      \* asked[d]
    answered,   \* answered[d]
    archive     \* documents put away

promiseVars == <<stage, crew, owners, published, asked, answered, archive>>

Awaited(w, d) == (asked[d] \ answered[d]) \cap crew[w]

Init ==
    /\ stage = [w \in Workspaces |-> "NONE"]
    /\ crew = [w \in Workspaces |-> {}]
    /\ owners = [w \in Workspaces |-> {}]
    /\ published = [w \in Workspaces |-> {}]
    /\ asked = [d \in Documents |-> {}]
    /\ answered = [d \in Documents |-> {}]
    /\ archive = {}

Open(w, m) ==
    /\ stage[w] = "NONE"
    /\ stage' = [stage EXCEPT ![w] = "OPEN"]
    /\ crew' = [crew EXCEPT ![w] = {m}]
    /\ owners' = [owners EXCEPT ![w] = {m}]
    /\ UNCHANGED <<published, asked, answered>>

Join(w, m) ==
    /\ stage[w] = "OPEN"
    /\ m \notin crew[w]
    /\ crew' = [crew EXCEPT ![w] = @ \cup {m}]
    /\ UNCHANGED <<stage, owners, published, asked, answered>>

Depart(w, m) ==
    /\ m \in crew[w] \ owners[w]
    /\ crew' = [crew EXCEPT ![w] = @ \ {m}]
    /\ UNCHANGED <<stage, owners, published, asked, answered>>

HandOver(w, m, n) ==
    /\ owners[w] = {m}
    /\ n \in crew[w] \ {m}
    /\ owners' = [owners EXCEPT ![w] = {n}]
    /\ crew' = [crew EXCEPT ![w] = @ \ {m}]
    /\ UNCHANGED <<stage, published, asked, answered>>

Close(w, m) ==
    /\ crew[w] = {m}
    /\ owners[w] = {m}
    /\ stage' = [stage EXCEPT ![w] = "DELETED"]
    /\ crew' = [crew EXCEPT ![w] = {}]
    /\ owners' = [owners EXCEPT ![w] = {}]
    /\ UNCHANGED <<published, asked, answered>>

Publish(w, d) ==
    /\ stage[w] = "OPEN"
    /\ \A x \in Workspaces : d \notin published[x]
    /\ published' = [published EXCEPT ![w] = @ \cup {d}]
    /\ asked' = [asked EXCEPT ![d] = crew[w]]
    /\ UNCHANGED <<stage, crew, owners, answered>>

Answer(w, d, m) ==
    /\ d \in published[w]
    /\ m \in Awaited(w, d)
    /\ answered' = [answered EXCEPT ![d] = @ \cup {m}]
    /\ UNCHANGED <<stage, crew, owners, published, asked>>

Act ==
    \E w \in Workspaces :
       \/ \E m \in Members : Open(w, m) \/ Join(w, m) \/ Depart(w, m) \/ Close(w, m)
       \/ \E m, n \in Members : HandOver(w, m, n)
       \/ \E d \in Documents : Publish(w, d) \/ \E m \in Members : Answer(w, d, m)

\* No step leaves a document behind that awaits nobody.
Settle ==
    archive' = archive \cup
        {d \in Documents : \E w \in Workspaces : d \in published'[w] /\ Awaited(w, d)' = {}}

Spec == Init /\ [][Act /\ Settle]_promiseVars
=============================================================================
