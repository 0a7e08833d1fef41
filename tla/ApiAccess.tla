------------------------------ MODULE ApiAccess ------------------------------
(***************************************************************************)
(* Access to the HTTP API: the key check with its limiter of failures      *)
(* (internal/api/auth.go), the handlers of instance creation and reading   *)
(* (internal/api/server.go), and the command that uses them, goincus       *)
(* create, which posts a request and polls until the instance runs         *)
(* (internal/apicli, cmd/goincus/cli.go).  All callers share an address,   *)
(* as those on the host do, and ask for one instance name.  Provisioning   *)
(* goes on beside them, and so do operations on the instance that come     *)
(* from anywhere; InstanceLifecycle has their details.                     *)
(***************************************************************************)
EXTENDS Integers, FiniteSets

CONSTANTS
  Conn,      \* requests that the server handles at once
  Client,    \* runs of goincus create
  NoOne,     \* any other caller
  MaxFails,  \* failures per window
  Window,    \* length of a window in ticks
  MaxPolls   \* polls before the deadline of WaitRunning

ASSUME AccessAssumption ==
  /\ IsFiniteSet(Conn) /\ Conn # {}
  /\ NoOne \notin Client
  /\ MaxFails \in Nat \ {0}
  /\ Window \in Nat \ {0}
  /\ MaxPolls \in Nat

VARIABLES
  hits,     \* the limiter's bucket of the address, if there is one
  conn,     \* each request in the server
  client,   \* each goincus create
  inst,     \* the instance's status and its provisioning; "early" is history: an
            \* operation wrote the status before provisioning was over
  guesses   \* history: keys refused in the last i + 1 ticks, since one was accepted

vars == <<hits, conn, client, inst, guesses>>

------------------------------------------------------------------------------
\* "left" is the time to resetAt; below 0, resetAt has passed.
Bucket == [fails : Nat, left : -1..Window]

Status == {"none", "pending", "creating", "running", "stopped", "error", "deleting", "deleted"}

Idle == [at |-> "idle", kind |-> "health", good |-> FALSE, who |-> NoOne]

TypeOK ==
  /\ hits \subseteq Bucket /\ Cardinality(hits) <= 1
  /\ conn \in [Conn -> [at : {"idle", "limit", "key", "serve", "insert"},
                        kind : {"health", "get", "create"}, good : BOOLEAN,
                        who : Client \cup {NoOne}]]
  /\ client \in [Client -> [at : {"idle", "post", "sleep", "poll"}, polls : 0..MaxPolls,
                            told : {"none", "accepted", "running", "error"}]]
  /\ inst \in [status : Status, prov : {"none", "begin", "busy", "over"},
               early : BOOLEAN]
  /\ guesses \in [0..Window - 1 -> Nat]

Init ==
  /\ hits = {}
  /\ conn = [q \in Conn |-> Idle]
  /\ client = [c \in Client |-> [at |-> "idle", polls |-> 0, told |-> "none"]]
  /\ inst = [status |-> "none", prov |-> "none", early |-> FALSE]
  /\ guesses = [i \in 0..Window - 1 |-> 0]

------------------------------------------------------------------------------
(***************************************************************************)
(* The client: runCreate and WaitRunning.                                  *)
(***************************************************************************)

Exit(c, told) == client' = [client EXCEPT ![c] = [at |-> "idle", polls |-> 0, told |-> told]]

\* The client has the answer: a code, and for 200 the status and whether there are ports.
\* -wait=false ends with the first answer; any error ends the command, and polling goes on
\* until the instance runs and has ports or failed.
Receive(c, code, view) ==
  \/ /\ client[c].at = "post" /\ code = 202
     /\ \/ client' = [client EXCEPT ![c].at = "sleep", ![c].polls = MaxPolls]
        \/ Exit(c, "accepted")
  \/ /\ client[c].at = "poll" /\ code = 200
     /\ CASE view.status = "running" /\ view.ports -> Exit(c, "running")
          [] view.status = "error" -> Exit(c, "error")
          [] OTHER -> client' = [client EXCEPT ![c].at = "sleep"]
  \/ code \notin {200, 202} /\ Exit(c, "error")

\* An answer without an instance, or that nobody looks at.
NoView == [status |-> "none", ports |-> FALSE]

\* The server answers request q: to its client, if that still waits.
Answer(q, code, view) ==
  /\ conn' = [conn EXCEPT ![q] = Idle]
  /\ IF conn[q].who = NoOne THEN UNCHANGED client ELSE Receive(conn[q].who, code, view)

Send(q, kind, good, who) ==
  /\ conn[q].at = "idle"
  /\ conn' = [conn EXCEPT ![q] = [at |-> IF kind = "health" THEN "serve" ELSE "limit",
                                  kind |-> kind, good |-> good, who |-> who]]

\* goincus create, also one that is repeated after an error.
RunCreate(c, q) ==
  /\ client[c].at = "idle"
  /\ Send(q, "create", TRUE, c)
  /\ client' = [client EXCEPT ![c].at = "post", ![c].told = "none"]
  /\ UNCHANGED <<hits, inst, guesses>>

\* Mistaken variant of Poll: the deadline is not looked at.
PollUnchecked(c, q) ==
  /\ client[c].at = "sleep"
  /\ Send(q, "get", TRUE, c)
  /\ client' = [client EXCEPT ![c].at = "poll", ![c].polls = @ - 1]
  /\ UNCHANGED <<hits, inst, guesses>>

\* Mistaken variant of Poll: the deadline is never reached.
PollForever(c, q) ==
  /\ client[c].at = "sleep"
  /\ Send(q, "get", TRUE, c)
  /\ client' = [client EXCEPT ![c].at = "poll"]
  /\ UNCHANGED <<hits, inst, guesses>>

\* The next poll of WaitRunning.
Poll(c, q) ==
  /\ client[c].at = "sleep" /\ client[c].polls > 0
  /\ Send(q, "get", TRUE, c)
  /\ client' = [client EXCEPT ![c].at = "poll", ![c].polls = @ - 1]
  /\ UNCHANGED <<hits, inst, guesses>>

\* The deadline of WaitRunning.
Deadline(c) ==
  /\ client[c].at = "sleep" /\ client[c].polls = 0
  /\ Exit(c, "error")
  /\ UNCHANGED <<hits, conn, inst, guesses>>

\* The HTTP client gives up after its timeout; the handler goes on.
Timeout(c) ==
  /\ client[c].at \in {"post", "poll"}
  /\ conn' = [q \in Conn |-> IF conn[q].who = c THEN [conn[q] EXCEPT !.who = NoOne] ELSE conn[q]]
  /\ Exit(c, "error")
  /\ UNCHANGED <<hits, inst, guesses>>

\* Any other caller, with a right or a wrong key; the health check needs none.
Call(q, kind, good) ==
  /\ kind = "health" => ~good
  /\ Send(q, kind, good, NoOne)
  /\ UNCHANGED <<hits, client, inst, guesses>>

------------------------------------------------------------------------------
(***************************************************************************)
(* The limiter: blocked, fail and success lock the mutex one by one.       *)
(***************************************************************************)

\* Mistaken variant of CurrentBucket: a bucket is never replaced.
CurrentBucketKept ==
  IF hits = {} THEN [fails |-> 0, left |-> Window] ELSE CHOOSE b \in hits : TRUE

\* bucket: a new one if there is none or its time has passed.
CurrentBucket ==
  IF \A b \in hits : b.left < 0
    THEN [fails |-> 0, left |-> Window]
    ELSE CHOOSE b \in hits : TRUE

\* Mistaken variant of Blocked: one failure too many.
BlockedLate(q) ==
  /\ conn[q].at = "limit"
  /\ hits' = {CurrentBucket}
  /\ \/ CurrentBucket.fails > MaxFails /\ Answer(q, 429, NoView)
     \/ /\ CurrentBucket.fails <= MaxFails
        /\ conn' = [conn EXCEPT ![q].at = "key"] /\ UNCHANGED client
  /\ UNCHANGED <<inst, guesses>>

Blocked(q) ==
  /\ conn[q].at = "limit"
  /\ hits' = {CurrentBucket}
  /\ \/ CurrentBucket.fails >= MaxFails /\ Answer(q, 429, NoView)
     \/ /\ CurrentBucket.fails < MaxFails
        /\ conn' = [conn EXCEPT ![q].at = "key"] /\ UNCHANGED client
  /\ UNCHANGED <<inst, guesses>>

\* ValidAPIKey, then fail or success.
CheckKey(q) ==
  /\ conn[q].at = "key"
  /\ \/ /\ conn[q].good
        /\ hits' = {}
        /\ conn' = [conn EXCEPT ![q].at = "serve"]
        /\ guesses' = [i \in DOMAIN guesses |-> 0]
        /\ UNCHANGED client
     \/ /\ ~conn[q].good
        /\ hits' = {[CurrentBucket EXCEPT !.fails = @ + 1]}
        /\ guesses' = [i \in DOMAIN guesses |-> guesses[i] + 1]
        /\ Answer(q, 401, NoView)
  /\ UNCHANGED inst

\* Time passes.
Tick ==
  /\ hits' = {[b EXCEPT !.left = IF @ < 0 THEN @ ELSE @ - 1] : b \in hits}
  /\ guesses' = [i \in DOMAIN guesses |-> IF i = 0 THEN 0 ELSE guesses[i - 1]]
  /\ UNCHANGED <<conn, client, inst>>

------------------------------------------------------------------------------
(***************************************************************************)
(* The handlers.                                                           *)
(***************************************************************************)

Health(q) ==
  /\ conn[q].at = "serve" /\ conn[q].kind = "health"
  /\ Answer(q, 200, NoView)
  /\ UNCHANGED <<hits, inst, guesses>>

\* Mistaken variant of Synced: an instance being provisioned is promoted too.
SyncedAlways == {inst} \cup {[inst EXCEPT !.status = s] : s \in {"running", "stopped"}}

\* syncStatusFromIncus: what the row may be then.  The container may have been started or
\* stopped by anybody, and Incus may not answer or have no such container.
Synced ==
  IF inst.status \in {"pending", "creating", "deleting"} THEN {inst}
  ELSE {inst} \cup {[inst EXCEPT !.status = s] : s \in {"running", "stopped"}}

\* No row is found.
Absent == inst.status \in {"none", "deleted"}

\* The container may exist.
Made == inst.prov \notin {"none", "begin"}

\* GetInstance answers with the row as it is synced, also when the UPDATE fails.  Once the
\* container exists there may be ports or not: provision, start, repair and add-port store
\* them, remove-port and delete drop them.
GetInstance(q) ==
  /\ conn[q].at = "serve" /\ conn[q].kind = "get"
  /\ \/ Absent /\ Answer(q, 404, NoView) /\ UNCHANGED inst
     \/ /\ ~Absent
        /\ \E seen \in Synced, ports \in {FALSE, Made} :
             /\ inst' \in {inst, seen}
             /\ Answer(q, 200, [status |-> seen.status, ports |-> ports])
  /\ UNCHANGED <<hits, guesses>>

\* CreateInstance looks for an instance with the name.
CreateInstance(q) ==
  /\ conn[q].at = "serve" /\ conn[q].kind = "create"
  /\ \/ ~Absent /\ Answer(q, 409, NoView)
     \/ Absent /\ conn' = [conn EXCEPT ![q].at = "insert"] /\ UNCHANGED client
     \/ Answer(q, 500, NoView)
  /\ UNCHANGED <<hits, inst, guesses>>

\* INSERT, refused by UNIQUE (name), and provision begins.
Insert(q) ==
  /\ conn[q].at = "insert"
  /\ \/ /\ inst.status = "none"
        /\ inst' = [inst EXCEPT !.status = "pending", !.prov = "begin"]
        /\ Answer(q, 202, NoView)
     \/ Answer(q, 500, NoView) /\ UNCHANGED inst
  /\ UNCHANGED <<hits, guesses>>

\* UpdateInstanceStatus as provision calls it: an error is dropped.
Written(i, status) == {i, [i EXCEPT !.status = status]}

\* provision, from its first write of the status to its last.
Provision ==
  /\ \/ inst.prov = "begin" /\ inst' \in Written([inst EXCEPT !.prov = "busy"], "creating")
     \/ /\ inst.prov = "busy"
        /\ \E status \in {"running", "error"} :
             inst' \in Written([inst EXCEPT !.prov = "over"], status)
  /\ UNCHANGED <<hits, conn, client, guesses>>

------------------------------------------------------------------------------
(***************************************************************************)
(* The operations on the instance, by callers of any address.  None looks  *)
(* at the status, and there may always be one at any place in its handler. *)
(***************************************************************************)

\* The status that start, repair, restart, reset-password and stop write in the end.
Record ==
  /\ Made
  /\ \E status \in {"running", "stopped"} :
       inst' = [inst EXCEPT !.status = status, !.early = @ \/ inst.prov # "over"]
  /\ UNCHANGED <<hits, conn, client, guesses>>

\* DeleteInstance writes its status at the beginning, and again in the end.
Delete ==
  /\ inst.status # "none"
  /\ \E status \in {"deleting", "deleted"} : inst' = [inst EXCEPT !.status = status]
  /\ UNCHANGED <<hits, conn, client, guesses>>

------------------------------------------------------------------------------
Serve(q) == Blocked(q) \/ CheckKey(q) \/ Health(q) \/ GetInstance(q) \/ CreateInstance(q) \/ Insert(q)

Next ==
  \/ \E c \in Client : Deadline(c) \/ Timeout(c) \/ \E q \in Conn : RunCreate(c, q) \/ Poll(c, q)
  \/ \E q \in Conn : Serve(q)
  \/ \E q \in Conn, kind \in {"health", "get"}, good \in BOOLEAN : Call(q, kind, good)
  \/ Provision
  \/ Record
  \/ Delete
  \/ Tick

\* A handler that can run does, time passes, and a client acts when its time comes; the
\* server has a connection for it again and again.  Provisioning need not go on.
Fairness ==
  /\ \A q \in Conn : WF_vars(Serve(q))
  /\ \A c \in Client : WF_vars(Deadline(c)) /\ SF_vars(\E q \in Conn : Poll(c, q))
  /\ WF_vars(Tick)

Spec == Init /\ [][Next]_vars /\ Fairness

------------------------------------------------------------------------------
(***************************************************************************)
(* Properties.                                                             *)
(***************************************************************************)

\* "Failed auth is rate-limited": between two accepted keys, no stretch of a window's
\* length sees more keys refused than two windows allow, requests that had passed the
\* check before the last failure was counted included.
GuessesBounded ==
  guesses[Window - 1] <= 2 * (MaxFails + Cardinality(Conn) - 1)

\* goincus create says that an instance runs only when its provisioning is over, never
\* because somebody read or synced it half way, unless an operation on the instance
\* wrote its status before.
ReportedWhenOver == \A c \in Client : client[c].told = "running" => inst.prov = "over" \/ inst.early

\* An address that was blocked is let in again though its callers go on trying.
BlockEnds == (CurrentBucket.fails >= MaxFails) ~> (CurrentBucket.fails < MaxFails)

\* goincus create ends, whatever becomes of its requests and of the instance.
CreateEnds == \A c \in Client : (client[c].at # "idle") ~> (client[c].at = "idle")
==============================================================================
