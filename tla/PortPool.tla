------------------------------- MODULE PortPool -------------------------------
(***************************************************************************)
(* What the port allocator promises its callers: a host port is free,      *)
(* reserved for one request, or serving one mapping, and it changes hands  *)
(* in single steps.  PortAllocator implements this specification.          *)
(***************************************************************************)
CONSTANTS Port, Op

VARIABLES
  reserved,  \* ports handed to each request and not yet stored or returned
  serving,   \* ports that carry a mapping
  misused    \* a caller has broken the rules; nothing is promised until Recover

poolVars == <<reserved, serving, misused>>

Free(p) == p \notin serving /\ \A o \in Op : p \notin reserved[o]

Init ==
  /\ reserved = [o \in Op |-> {}]
  /\ serving = {}
  /\ misused = FALSE

Reserve(o, p) ==
  /\ Free(p)
  /\ reserved' = [reserved EXCEPT ![o] = @ \cup {p}]
  /\ UNCHANGED serving

Commit(o, p) ==
  /\ p \in reserved[o]
  /\ reserved' = [reserved EXCEPT ![o] = @ \ {p}]
  /\ serving' = serving \cup {p}

\* A request returns ports, mappings are taken down, or both at once.
GiveBack(o) ==
  \E ps \in SUBSET reserved[o], qs \in SUBSET serving :
    /\ reserved' = [reserved EXCEPT ![o] = @ \ ps]
    /\ serving' = serving \ qs

\* A restart forgets the requests, not the mappings of live instances.
Reset ==
  /\ reserved' = [o \in Op |-> {}]
  /\ \E qs \in SUBSET serving : serving' = serving \ qs

Change ==
  \/ \E o \in Op, p \in Port : Reserve(o, p) \/ Commit(o, p)
  \/ \E o \in Op : GiveBack(o)
  \/ Reset

\* With nothing reserved, the pool can be put in order again.
Recover ==
  /\ \A o \in Op : reserved[o] = {}
  /\ misused' = FALSE
  /\ UNCHANGED <<reserved, serving>>

Next ==
  \/ Change /\ ~misused /\ UNCHANGED misused
  \/ misused' = TRUE
  \/ Recover

Spec == Init /\ [][Next]_poolVars
===============================================================================
