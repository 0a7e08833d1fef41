--------------------------- MODULE InstanceLifecycle ---------------------------
(***************************************************************************)
(* The life of one instance (internal/service/service.go): the goroutine   *)
(* that provisions it, and the requests that read, start, stop, restart,   *)
(* reset and delete it.  Its status is a column of Postgres that every     *)
(* handler overwrites without a condition; the container, its power state  *)
(* and the guest's password live in Incus.  The calls to them are separate *)
(* steps, and what a handler has read is used in its later steps.          *)
(* Host ports are PortAllocator's subject: here a block has two parts, so  *)
(* that it can be incomplete.  The copy of the status in Redis is written  *)
(* and never read, and is left out.                                        *)
(***************************************************************************)
EXTENDS Integers, FiniteSets

CONSTANTS
  Request,      \* requests; each runs once
  Provisioner,  \* the goroutine CreateInstance starts
  Initial,      \* the root password CreateInstance generates
  Kinds,        \* which requests the clients send
  Failures      \* which external calls may fail; "crash" is a crash of the server

Kind    == {"get", "start", "stop", "restart", "reset", "delete"}
Failure == {"allocate", "create", "boot", "ssh", "attach", "probe", "power",
            "passwd", "store", "status", "unmap", "destroy", "crash"}

NoPassword == "none"

ASSUME LifecycleAssumption ==
  /\ Provisioner \notin Request
  /\ Initial \notin Request
  /\ NoPassword \notin Request \cup {Initial}
  /\ Kinds \subseteq Kind
  /\ Failures \subseteq Failure

VARIABLES
  status,     \* instances.status
  password,   \* instances.root_password
  rows,       \* port_mappings of the instance: who stored which part
  container,  \* the Incus container: absent, or its power state
  guest,      \* the root password inside the guest
  cloudInit,  \* cloud-init has still to set the initial password in the guest
  go,         \* each goroutine: where it is and what it has read
  mishaps,    \* history: the failures that leave traces, and whether requests that
              \* should have the instance for themselves have overlapped
  diverged    \* history: since the guest's password was last set as the row has it, or
              \* was about to get it, one of the two has changed alone

dbVars    == <<status, password, rows>>
incusVars == <<container, guest, cloudInit>>
history   == <<mishaps, diverged>>
vars == <<dbVars, incusVars, go, history>>

------------------------------------------------------------------------------
Actor == Request \cup {Provisioner}

Status == {"pending", "creating", "running", "stopped", "error", "deleting", "deleted"}

\* A password is named after the request that generated it.
Password == Request \cup {Initial}

Part == {1, 2}

\* Requests that act on the instance as if no other did.
Exclusive == {"start", "reset", "delete"}

Mishaps == {"status", "unmap", "destroy", "crash", "overlap"}

Location == {"idle", "creating", "allocate", "create", "fail",
             "read", "probe", "write", "power", "ensure", "ports", "attach", "persist",
             "passwd", "store", "setStatus", "deleting", "unmap", "destroy", "bury",
             "done"}

\* The last three are what it keeps of the row and of the mappings it has read;
\* "reply": it has done its work and reads the instance once more to return it.
Goroutine == [at : Location, kind : Kind \cup {"provision"}, reply : BOOLEAN,
              status : Status, password : Password, rows : SUBSET (Actor \X Part)]

Fresh(l, k) == [at |-> l, kind |-> k, reply |-> FALSE,
                status |-> "pending", password |-> Initial, rows |-> {}]

Active(a) == go[a].at \notin {"idle", "done"}

TypeOK ==
  /\ status \in Status
  /\ password \in Password
  /\ rows \subseteq Actor \X Part
  /\ container \in {"absent", "stopped", "running"}
  /\ guest \in Password \cup {NoPassword}
  /\ cloudInit \in BOOLEAN
  /\ go \in [Actor -> Goroutine]
  /\ mishaps \subseteq Mishaps
  /\ diverged \in BOOLEAN

\* CreateInstance has inserted the row and started the provisioner.
Init ==
  /\ status = "pending"
  /\ password = Initial
  /\ rows = {}
  /\ container = "absent"
  /\ guest = NoPassword
  /\ cloudInit = FALSE
  /\ go = [a \in Actor |-> IF a = Provisioner THEN Fresh("creating", "provision")
                           ELSE Fresh("idle", "get")]
  /\ mishaps = {}
  /\ diverged = FALSE

\* What of the local state g is still read at l or later; a finished goroutine has none.
Kept(l, g) ==
  IF l = "done" THEN Fresh("done", "get")
  ELSE [g EXCEPT !.at = l,
                 !.status = IF l \in {"probe", "write"} THEN @ ELSE "pending",
                 !.rows = IF l \in {"probe", "write", "deleting", "unmap", "attach", "persist"}
                            THEN @ ELSE {}]

\* Goroutine a goes on at l with what is kept of g.
Go(a, l, g) == go' = [go EXCEPT ![a] = Kept(l, g)]

Goto(a, l) == Go(a, l, go[a])

At(a, l) == go[a].at = l

MayFail(f) == f \in Failures

Mishap(f) == mishaps' = mishaps \cup {f}

\* A failed step: provision calls fail, a request returns the error.
GiveUp(a) == Goto(a, IF go[a].kind = "provision" THEN "fail" ELSE "done")

\* No condition on the status it overwrites, and its callers drop its error.
UpdateInstanceStatus(s) ==
  /\ \/ status' = s /\ UNCHANGED mishaps
     \/ MayFail("status") /\ Mishap("status") /\ UNCHANGED status
  /\ UNCHANGED <<password, rows, diverged>>

------------------------------------------------------------------------------
(***************************************************************************)
(* provision: creating, allocate, create, ensure, passwd, attach, persist, *)
(* setStatus; the last five locations are shared with StartInstance.       *)
(***************************************************************************)

SetCreating ==
  /\ At(Provisioner, "creating")
  /\ UpdateInstanceStatus("creating")
  /\ Goto(Provisioner, "allocate")
  /\ UNCHANGED incusVars

AllocateBlock ==
  /\ At(Provisioner, "allocate")
  /\ \/ Goto(Provisioner, "create")
     \/ MayFail("allocate") /\ GiveUp(Provisioner)
  /\ UNCHANGED <<dbVars, incusVars, history>>

\* CloudInitUserData: an image with cloud-init sets the root password when the
\* guest has booted.
CreateContainer ==
  /\ At(Provisioner, "create")
  /\ \/ /\ container' = "stopped"
        /\ guest' = NoPassword
        /\ cloudInit' \in BOOLEAN
        /\ Goto(Provisioner, "ensure")
     \/ /\ MayFail("create")
        /\ GiveUp(Provisioner)
        /\ UNCHANGED incusVars
  /\ UNCHANGED <<dbVars, history>>

\* Mistaken variant of Fail: the error is only logged.
FailSilently ==
  /\ At(Provisioner, "fail")
  /\ Goto(Provisioner, "done")
  /\ UNCHANGED <<dbVars, incusVars, history>>

Fail ==
  /\ At(Provisioner, "fail")
  /\ UpdateInstanceStatus("error")
  /\ Goto(Provisioner, "done")
  /\ UNCHANGED incusVars

------------------------------------------------------------------------------
(***************************************************************************)
(* GetInstance and syncStatusFromIncus, with which most requests begin and *)
(* end.                                                                    *)
(***************************************************************************)

\* A request arrives.
Receive(r, k) ==
  /\ At(r, "idle")
  /\ k \in Kinds
  /\ IF k \in Exclusive /\ \E a \in Actor : Active(a) /\ go[a].kind \in Exclusive \cup {"provision"}
       THEN Mishap("overlap")
       ELSE UNCHANGED mishaps
  /\ Go(r, "read", Fresh("idle", k))
  /\ UNCHANGED <<dbVars, incusVars, diverged>>

\* Where a request goes on with an instance whose status is s.
Proceed(r, s) ==
  IF \/ go[r].reply \/ go[r].kind = "get"
     \/ go[r].kind = "reset" /\ s \in {"deleted", "deleting"}
    THEN "done"
    ELSE CASE go[r].kind \in {"start", "reset"} -> "ensure"
           [] go[r].kind \in {"stop", "restart"} -> "power"
           [] go[r].kind = "delete" -> "deleting"

\* Mistaken variant of SyncsFrom: an instance in creation is promoted too.
SyncsFromCreating(s) == s \notin {"pending", "deleting", "deleted"}

\* The statuses that Incus' power state may replace.
SyncsFrom(s) == s \notin {"pending", "creating", "deleting", "deleted"}

\* What a request uses later of the instance it has read.
Remembered(r) ==
  [go[r] EXCEPT !.status = status,
                !.password = IF go[r].kind = "start" THEN password ELSE @,
                !.rows = IF go[r].kind = "delete" THEN rows ELSE @]

\* store.GetInstance; a deleted instance is not found.  StartInstance does not
\* sync before it starts.
ReadInstance(r) ==
  /\ At(r, "read")
  /\ IF status = "deleted"
       THEN Goto(r, "done")
       ELSE Go(r, IF SyncsFrom(status) /\ (go[r].kind = "start" => go[r].reply)
                    THEN "probe" ELSE Proceed(r, status),
               Remembered(r))
  /\ UNCHANGED <<dbVars, incusVars, history>>

\* Mistaken variant of ProbeStatus: any answer of Incus is taken for a status.
ProbeStatusRaw(r) ==
  /\ At(r, "probe")
  /\ Go(r, "write", [go[r] EXCEPT !.status = container])
  /\ UNCHANGED <<dbVars, incusVars, history>>

\* incus.GetStatus: an error, or a power state that agrees, writes nothing.
ProbeStatus(r) ==
  LET s == go[r].status IN
  /\ At(r, "probe")
  /\ \/ /\ container \notin {"absent", s}
        /\ Go(r, "write", [go[r] EXCEPT !.status = container])
     \/ /\ container \in {"absent", s} \/ MayFail("probe")
        /\ Goto(r, Proceed(r, s))
  /\ UNCHANGED <<dbVars, incusVars, history>>

SyncStatus(r) ==
  /\ At(r, "write")
  /\ UpdateInstanceStatus(go[r].status)
  /\ Goto(r, Proceed(r, go[r].status))
  /\ UNCHANGED incusVars

------------------------------------------------------------------------------
(***************************************************************************)
(* StopInstance, RestartInstance, StartInstance, ResetRootPassword, and    *)
(* what provision shares with StartInstance.                               *)
(***************************************************************************)

\* StopContainer and RestartContainer: refused unless the guest runs.
PowerContainer(r) ==
  /\ At(r, "power")
  /\ \/ /\ container = "running"
        /\ container' = IF go[r].kind = "stop" THEN "stopped" ELSE "running"
        /\ Goto(r, "setStatus")
     \/ /\ container # "running" \/ MayFail("power")
        /\ GiveUp(r)
        /\ UNCHANGED container
  /\ UNCHANGED <<dbVars, guest, cloudInit, history>>

\* Fails when there is no container.
EnsureStarted(a) ==
  /\ At(a, "ensure")
  /\ \/ /\ container # "absent"
        /\ container' = "running"
        /\ Goto(a, IF go[a].kind = "start" THEN "ports" ELSE "passwd")
     \/ /\ container = "absent" \/ MayFail("boot")
        /\ GiveUp(a)
        /\ UNCHANGED container
  /\ UNCHANGED <<dbVars, guest, cloudInit, history>>

\* ensurePortBlock's ListPorts; for an instance without mappings, AllocateBlock.
ListPorts(r) ==
  /\ At(r, "ports")
  /\ \/ Go(r, IF Cardinality(rows) > 1 THEN "passwd" ELSE "attach",
           [go[r] EXCEPT !.rows = rows])
     \/ rows = {} /\ MayFail("allocate") /\ GiveUp(r)
     \/ Cardinality(rows) = 1 /\ MayFail("allocate") /\ Goto(r, "passwd")
  /\ UNCHANGED <<dbVars, incusVars, history>>

\* The mappings a goroutine is about to store: a block, or what is missing of it.
Missing(a) == {a} \X (IF go[a].rows = {} THEN Part ELSE {2})

\* The proxy devices of attachPortBlock and of ensurePortBlock.
AddProxyDevices(a) ==
  /\ At(a, "attach")
  /\ \/ container # "absent" /\ Goto(a, "persist")
     \/ (container = "absent" \/ MayFail("attach")) /\ GiveUp(a)
  /\ UNCHANGED <<dbVars, incusVars, history>>

\* AddPort, row by row; the rows stored before an error stay.
PersistPorts(a) ==
  /\ At(a, "persist")
  /\ \/ /\ rows' = rows \cup Missing(a)
        /\ Goto(a, IF go[a].kind = "start" THEN "passwd" ELSE "setStatus")
     \/ /\ MayFail("attach")
        /\ rows' \in {rows, rows \cup (Missing(a) \cap {<<a, 1>>})}
        /\ GiveUp(a)
  /\ UNCHANGED <<status, password, incusVars, history>>

\* The password a goroutine sets: the one in the row it has read, or a new one.
NewPassword(a) == IF go[a].kind = "reset" THEN a ELSE go[a].password

\* bootstrapSSH and SetRootPassword: each can fail before its chpasswd and after it.
\* A reset whose exec fails does not store the password the guest may have by now.
SetGuestPassword(a) ==
  LET reset == go[a].kind = "reset" IN
  /\ At(a, "passwd")
  /\ \/ /\ container = "running"
        /\ guest' = NewPassword(a)
        /\ diverged' = FALSE
        /\ Goto(a, CASE go[a].kind = "provision" -> "attach"
                     [] go[a].kind = "start" -> "setStatus"
                     [] reset -> "store")
     \/ /\ container # "running" \/ MayFail(IF reset THEN "passwd" ELSE "ssh")
        /\ UNCHANGED <<guest, diverged>>
        /\ GiveUp(a)
     \/ /\ container = "running" /\ MayFail(IF reset THEN "passwd" ELSE "ssh")
        /\ guest' = NewPassword(a)
        /\ diverged' = reset
        /\ GiveUp(a)
  /\ UNCHANGED <<dbVars, container, cloudInit, mishaps>>

\* Mistaken variant of UpdateRootPassword: an error is not noticed.
UpdateRootPasswordIgnored(r) ==
  /\ At(r, "store")
  /\ password' \in {r, password}
  /\ Goto(r, "setStatus")
  /\ UNCHANGED <<status, rows, incusVars, history>>

\* store.UpdateRootPassword
UpdateRootPassword(r) ==
  /\ At(r, "store")
  /\ \/ /\ password' = r
        /\ Goto(r, "setStatus")
        /\ UNCHANGED diverged
     \/ /\ MayFail("store")
        /\ diverged' = TRUE
        /\ GiveUp(r)
        /\ UNCHANGED password
  /\ UNCHANGED <<status, rows, incusVars, mishaps>>

\* UpdateInstanceStatus; a request then reads the instance it returns.
SetStatus(a) ==
  /\ At(a, "setStatus")
  /\ UpdateInstanceStatus(IF go[a].kind = "stop" THEN "stopped" ELSE "running")
  /\ IF go[a].kind = "provision"
       THEN Goto(a, "done")
       ELSE Go(a, "read", [Fresh("idle", go[a].kind) EXCEPT !.reply = TRUE])
  /\ UNCHANGED incusVars

------------------------------------------------------------------------------
(***************************************************************************)
(* DeleteInstance                                                          *)
(***************************************************************************)

SetDeleting(r) ==
  /\ At(r, "deleting")
  /\ UpdateInstanceStatus("deleting")
  /\ Goto(r, "unmap")
  /\ UNCHANGED incusVars

\* The mappings that GetInstance returned, not the ones added since.
RemovePorts(r) ==
  /\ At(r, "unmap")
  /\ \/ rows' = rows \ go[r].rows /\ UNCHANGED mishaps
     \/ /\ MayFail("unmap")
        /\ \E kept \in (SUBSET (rows \cap go[r].rows)) \ {{}} :
             rows' = (rows \ go[r].rows) \cup kept
        /\ Mishap("unmap")
  /\ Goto(r, "destroy")
  /\ UNCHANGED <<status, password, incusVars, diverged>>

\* Mistaken variant of DeleteContainer: a running container is not stopped first.
DeleteContainerUnforced(r) ==
  /\ At(r, "destroy")
  /\ IF container = "stopped"
       THEN container' = "absent" /\ guest' = NoPassword /\ cloudInit' = FALSE
       ELSE UNCHANGED incusVars
  /\ Goto(r, "bury")
  /\ UNCHANGED <<dbVars, history>>

\* An error is logged and the soft-delete goes on.
DeleteContainer(r) ==
  /\ At(r, "destroy")
  /\ \/ /\ container' = "absent" /\ guest' = NoPassword /\ cloudInit' = FALSE
        /\ UNCHANGED mishaps
     \/ MayFail("destroy") /\ Mishap("destroy") /\ UNCHANGED incusVars
  /\ Goto(r, "bury")
  /\ UNCHANGED <<dbVars, diverged>>

SoftDeleteInstance(r) ==
  /\ At(r, "bury")
  /\ UpdateInstanceStatus("deleted")
  /\ Goto(r, "done")
  /\ UNCHANGED incusVars

------------------------------------------------------------------------------
\* The guest shuts down.
PowerOff ==
  /\ container = "running"
  /\ container' = "stopped"
  /\ UNCHANGED <<dbVars, guest, cloudInit, go, history>>

\* The runcmd of CloudInitUserData, once, some time after the first boot: nobody
\* waits for it.
CloudInit ==
  /\ cloudInit
  /\ container = "running"
  /\ guest' = Initial
  /\ cloudInit' = FALSE
  /\ diverged' = (diverged \/ guest \notin {NoPassword, Initial})
  /\ UNCHANGED <<dbVars, container, go, mishaps>>

\* The server dies with its goroutines, once, and is started again; nothing
\* resumes what they were doing.
Crash ==
  /\ MayFail("crash")
  /\ "crash" \notin mishaps
  /\ Mishap("crash")
  /\ diverged' = (diverged \/ \E r \in Request : At(r, "store"))
  /\ go' = [a \in Actor |-> IF Active(a) THEN Fresh("done", "get") ELSE go[a]]
  /\ UNCHANGED <<dbVars, incusVars>>

SharedStep(a) ==
  \/ EnsureStarted(a)    \/ AddProxyDevices(a) \/ PersistPorts(a)
  \/ SetGuestPassword(a) \/ SetStatus(a)

ProvisionStep ==
  SetCreating \/ AllocateBlock \/ CreateContainer \/ Fail \/ SharedStep(Provisioner)

RequestStep(r) ==
  \/ ReadInstance(r)     \/ ProbeStatus(r)        \/ SyncStatus(r)
  \/ PowerContainer(r)   \/ ListPorts(r)          \/ UpdateRootPassword(r)
  \/ SetDeleting(r)      \/ RemovePorts(r)
  \/ DeleteContainer(r)  \/ SoftDeleteInstance(r)
  \/ SharedStep(r)

Next ==
  \/ ProvisionStep
  \/ \E r \in Request : RequestStep(r) \/ \E k \in Kind : Receive(r, k)
  \/ PowerOff
  \/ CloudInit
  \/ Crash

Spec == Init /\ [][Next]_vars

\* A goroutine runs until it returns.
FairSpec == Spec /\ WF_vars(ProvisionStep) /\ \A r \in Request : WF_vars(RequestStep(r))

------------------------------------------------------------------------------
(***************************************************************************)
(* Properties.                                                             *)
(***************************************************************************)

Quiet == \A a \in Actor : ~Active(a)

\* syncStatusFromIncus never promotes an instance in provisioning: what a
\* request decided to sync from is still not pending or creating when it writes,
\* although others write the status in between.
NeverPromoted ==
  \A r \in Request : At(r, "write") => status \notin {"pending", "creating"}

\* Provisioning ends: whichever of its steps fail and whatever is requested
\* meanwhile, the instance at last stays out of pending and creating, unless the
\* server crashes or an UPDATE of the status fails.
ProvisionEnds ==
  \/ <>(mishaps \cap {"crash", "status"} # {})
  \/ <>[](status \notin {"pending", "creating"})

\* DeleteInstance leaves neither a container nor a mapping behind, also when
\* reads, stops and restarts were under way, and after a crash or a failed UPDATE
\* of the status; a removal that failed and a start or a provisioning that
\* overlapped it may leave them.
NothingLeft ==
  status = "deleted" /\ mishaps \cap {"unmap", "destroy", "overlap"} = {} =>
    container = "absent" /\ rows = {}

\* When nothing is under way, the password in the row opens the guest, whichever
\* of the steps of StartInstance and ResetRootPassword failed and also after a crash.
\* What makes the two differ (a reset cut off between chpasswd and the UPDATE,
\* cloud-init's late chpasswd) lasts only until the next start, repair or reset.
PasswordAgrees ==
  /\ Quiet /\ guest # NoPassword
  /\ ~diverged /\ "overlap" \notin mishaps
  => guest = password
================================================================================
