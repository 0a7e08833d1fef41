------------------------ MODULE InstanceLifecycleProofs ------------------------
(***************************************************************************)
(* The life of an instance, for every number of requests, every mix of     *)
(* their kinds and every choice of failures: an instance in provisioning   *)
(* is not promoted, a deletion leaves nothing behind, and the stored       *)
(* password opens the guest.                                               *)
(***************************************************************************)
EXTENDS InstanceLifecycle, TLAPS

------------------------------------------------------------------------------
(***************************************************************************)
(* The inductive invariant.                                                *)
(***************************************************************************)

\* Where each goroutine can be, and with which kind.
ProvisionPath ==
  /\ go[Provisioner].at \in {"creating", "allocate", "create", "ensure", "passwd", "attach",
                             "persist", "setStatus", "fail", "done"}
  /\ Active(Provisioner) => /\ go[Provisioner].kind = "provision"
                            /\ go[Provisioner].password = Initial

RequestPath(r) ==
  /\ go[r].kind \in Kind
  /\ go[r].at \notin {"creating", "allocate", "create", "fail"}
  /\ go[r].at = "power" => go[r].kind \in {"stop", "restart"}
  /\ go[r].at \in {"ensure", "passwd"} => go[r].kind \in {"start", "reset"}
  /\ go[r].at \in {"ports", "attach", "persist"} => go[r].kind = "start"
  /\ go[r].at = "store" => go[r].kind = "reset"
  /\ go[r].at = "setStatus" => go[r].kind \in {"start", "stop", "restart", "reset"}
  /\ go[r].at \in {"deleting", "unmap", "destroy", "bury"} => go[r].kind = "delete"
  /\ go[r].at \in {"probe", "write"} /\ go[r].kind = "start" => go[r].reply
  /\ go[r].reply => go[r].at \in {"read", "probe", "write"} /\ go[r].kind # "delete"

PathInv == ProvisionPath /\ \A r \in Request : RequestPath(r)

\* Before there is a container no request has got further than an early error.
EarlyInv ==
  At(Provisioner, "creating") =>
    /\ container = "absent"
    /\ status \in {"pending", "deleting", "deleted"}
    /\ \A r \in Request : go[r].at \in {"idle", "read", "power", "ensure", "deleting", "unmap",
                                        "destroy", "bury", "done"}

\* A status that is being synced from a power state is past creation for good.
SyncAt(r) ==
  /\ go[r].at \in {"probe", "write"} => status \notin {"pending", "creating"}
  /\ go[r].at = "write" => go[r].status \in {"stopped", "running"}

SyncInv == \A r \in Request : SyncAt(r)

\* Without an overlap one goroutine at a time has the instance for itself.
Holds(a) == Active(a) /\ go[a].kind \in Exclusive \cup {"provision"}

AloneInv ==
  "overlap" \notin mishaps => \A a, b \in Actor : Holds(a) /\ Holds(b) => a = b

\* A deletion has read all mappings, then there are none.
DeleteAt(r) ==
  go[r].kind = "delete" =>
    /\ go[r].at \in {"probe", "write", "deleting", "unmap"} => go[r].rows = rows
    /\ go[r].at = "destroy" => rows = {}

\* Nothing is left and nothing under way can bring anything back.
Gone ==
  /\ container = "absent" /\ rows = {}
  /\ ~Active(Provisioner)
  /\ \A r \in Request : go[r].at \notin {"ports", "attach", "persist"}

Clean == mishaps \cap {"unmap", "destroy", "overlap"} = {}

DeleteInv ==
  Clean => /\ \A r \in Request : DeleteAt(r) /\ (At(r, "bury") => Gone)
           /\ status = "deleted" => Gone

\* The password a start is about to set is the stored one, which nobody changes.
PasswordAt(r) ==
  go[r].kind = "start" /\ go[r].at \in {"ensure", "ports", "attach", "persist", "passwd"} =>
    go[r].password = password

\* While a reset has set a password and not stored it the two differ.  What
\* cloud-init has still to set is stored unless another password was set before.
PasswordInv ==
  "overlap" \notin mishaps =>
    /\ Active(Provisioner) => password = Initial
    /\ \A r \in Request : PasswordAt(r) /\ (At(r, "store") => guest # NoPassword)
    /\ cloudInit => guest # NoPassword \/ password = Initial
    /\ ~diverged => /\ \A r \in Request : At(r, "store") => guest = r
                    /\ \/ guest \in {password, NoPassword}
                       \/ \E r \in Request : At(r, "store")

\* What a goroutine going on at l does to the passwords: nothing, or it has the instance
\* for itself.
PasswordStep(a, l) ==
  \/ /\ password' = password /\ guest' = guest
     /\ cloudInit' = cloudInit /\ diverged' = diverged
     /\ a \in Request => go[a].at # "store" /\ l # "store"
  \/ /\ Holds(a)
     /\ l = "store" => guest' # NoPassword
     /\ cloudInit' => guest' # NoPassword \/ password' = Initial
     /\ ~diverged' => IF l = "store" THEN guest' = a ELSE guest' \in {password', NoPassword}

IInv ==
  /\ TypeOK /\ PathInv /\ EarlyInv /\ SyncInv
  /\ AloneInv /\ DeleteInv /\ PasswordInv

------------------------------------------------------------------------------
(***************************************************************************)
(* Lemmas.                                                                 *)
(***************************************************************************)
USE LifecycleAssumption

\* What a goroutine sets in the guest is a password.
LEMMA PasswordsAreSet == NoPassword \notin Password
  BY DEF Password

\* What Go does to a goroutine that goes on, and to one that returns.
LEMMA GoOn ==
  ASSUME TypeOK, NEW a \in Actor, NEW l \in Location, NEW g \in Goroutine, Go(a, l, g)
  PROVE  /\ go' \in [Actor -> Goroutine]
         /\ \A b \in Actor : b # a => go'[b] = go[b]
         /\ go'[a].at = l
         /\ l # "done" => /\ go'[a].kind = g.kind /\ go'[a].reply = g.reply
                          /\ go'[a].password = g.password
         /\ l \in {"probe", "write"} => go'[a].status = g.status
         /\ l \in {"probe", "write", "deleting", "unmap"} => go'[a].rows = g.rows
         /\ l = "done" => go'[a].kind = "get" /\ ~go'[a].reply
  <1> DEFINE h == Kept(l, g)
  <1>1. /\ h \in Goroutine /\ h.at = l
        /\ l # "done" => h.kind = g.kind /\ h.reply = g.reply /\ h.password = g.password
        /\ l \in {"probe", "write"} => h.status = g.status
        /\ l \in {"probe", "write", "deleting", "unmap"} => h.rows = g.rows
        /\ l = "done" => h.kind = "get" /\ ~h.reply
    <2>1. CASE l = "done"
      BY <2>1 DEF Kept, Fresh, Goroutine, Location, Kind, Status, Password
    <2>2. CASE l # "done"
      <3>1. h = [g EXCEPT !.at = l,
                          !.status = IF l \in {"probe", "write"} THEN @ ELSE "pending",
                          !.rows = IF l \in {"probe", "write", "deleting", "unmap", "attach",
                                             "persist"} THEN @ ELSE {}]
        BY <2>2 DEF Kept
      <3>2. "pending" \in Status
        BY DEF Status
      <3> HIDE DEF h
      <3> QED
        BY <2>2, <3>1, <3>2 DEF Goroutine
    <2> QED
      BY <2>1, <2>2
  <1>2. go' = [go EXCEPT ![a] = h]
    BY DEF Go
  <1> HIDE DEF h
  <1> QED
    BY <1>1, <1>2 DEF TypeOK

\* The same for Goto.
LEMMA GotoOn ==
  ASSUME TypeOK, NEW a \in Actor, NEW l \in Location, Goto(a, l)
  PROVE  /\ go' \in [Actor -> Goroutine]
         /\ \A b \in Actor : b # a => go'[b] = go[b]
         /\ go'[a].at = l
         /\ l # "done" => /\ go'[a].kind = go[a].kind /\ go'[a].reply = go[a].reply
                          /\ go'[a].password = go[a].password
         /\ l \in {"probe", "write"} => go'[a].status = go[a].status
         /\ l \in {"probe", "write", "deleting", "unmap"} => go'[a].rows = go[a].rows
         /\ l = "done" => go'[a].kind = "get" /\ ~go'[a].reply
  <1>1. go[a] \in Goroutine /\ Go(a, l, go[a])
    BY DEF TypeOK, Goto
  <1> QED
    BY <1>1, GoOn

\* A step of one goroutine a keeps the invariant if it keeps a's part of it and, when
\* it changes what is shared, is a step of one that has the instance for itself.
LEMMA StepInv ==
  ASSUME IInv, NEW a \in Actor,
         go' \in [Actor -> Goroutine], \A b \in Actor : b # a => go'[b] = go[b],
         status' \in Status, password' \in Password, rows' \subseteq Actor \X Part,
         container' \in {"absent", "stopped", "running"}, guest' \in Password \cup {NoPassword},
         mishaps \subseteq mishaps', mishaps' \subseteq Mishaps,
         a = Provisioner =>
           Active(a) /\ ~At(a, "creating")' /\ ProvisionPath' /\ password' = password,
         a \in Request => RequestPath(a)' /\ SyncAt(a)',
         "overlap" \notin mishaps' /\ Holds(a)' => Holds(a) \/ \A b \in Actor : ~Holds(b),
         a \in Request /\ At(Provisioner, "creating") =>
           /\ container' = "absent" /\ status' \in {"pending", "deleting", "deleted"}
           /\ go'[a].at \in {"idle", "read", "power", "ensure", "deleting", "unmap", "destroy",
                             "bury", "done"},
         status' = status \/ status' \notin {"pending", "creating"} \/ At(Provisioner, "creating"),
         Clean' => /\ rows' = rows \/ Holds(a)
                   /\ a \in Request => DeleteAt(a)' /\ (At(a, "bury")' => Gone')
                   /\ status' = "deleted" => status = "deleted" \/ Gone',
         a \in Request /\ Gone =>
           container' = "absent" /\ rows' = {} /\ go'[a].at \notin {"ports", "attach", "persist"},
         cloudInit' \in BOOLEAN, diverged' \in BOOLEAN,
         "overlap" \notin mishaps' => /\ a \in Request => PasswordAt(a)'
                                     /\ PasswordStep(a, go'[a].at)
  PROVE  IInv'
  <1>1. TypeOK'
    BY DEF IInv, TypeOK
  <1>2. PathInv'
    <2>1. \A r \in Request : r # a => RequestPath(r)'
      BY DEF IInv, PathInv, RequestPath, Actor
    <2>2. a # Provisioner => ProvisionPath'
      BY DEF IInv, PathInv, ProvisionPath, Active, Actor
    <2> QED
      BY <2>1, <2>2 DEF PathInv, Actor
  <1>3. EarlyInv'
    <2>1. CASE a = Provisioner
      BY <2>1 DEF EarlyInv
    <2>2. CASE a \in Request
      BY <2>2 DEF IInv, EarlyInv, At, Actor
    <2> QED
      BY <2>1, <2>2 DEF Actor
  <1>4. SyncInv'
    <2>1. ASSUME NEW r \in Request, r # a
          PROVE  SyncAt(r)'
      <3>1. go'[r] = go[r] /\ SyncAt(r)
        BY <2>1 DEF IInv, SyncInv, Actor
      <3>2. At(Provisioner, "creating") => go[r].at \notin {"probe", "write"}
        BY <2>1 DEF IInv, EarlyInv
      <3> QED
        BY <3>1, <3>2 DEF SyncAt
    <2> QED
      BY <2>1 DEF SyncInv, Actor
  <1>5. ASSUME NEW b \in Actor, b # a
        PROVE  Holds(b)' = Holds(b)
    BY <1>5 DEF Holds, Active
  <1>6. AloneInv'
    <2> SUFFICES ASSUME "overlap" \notin mishaps', NEW b \in Actor, NEW c \in Actor,
                        Holds(b)', Holds(c)'
                 PROVE  b = c
      BY DEF AloneInv
    <2>1. \A x, y \in Actor : Holds(x) /\ Holds(y) => x = y
      BY DEF IInv, AloneInv
    <2>2. CASE b # a /\ c # a
      BY <1>5, <2>1, <2>2
    <2>3. CASE b = a /\ c # a
      BY <1>5, <2>1, <2>3
    <2>4. CASE b # a /\ c = a
      BY <1>5, <2>1, <2>4
    <2> QED
      BY <2>2, <2>3, <2>4
  <1>7. Gone => Gone'
    <2>1. Gone => a \in Request
      BY DEF Gone, Actor
    <2> QED
      BY <2>1 DEF Gone, Active, Actor
  <1>8. DeleteInv'
    <2>1. ASSUME Clean'
          PROVE  Clean /\ "overlap" \notin mishaps
      BY <2>1 DEF Clean
    <2>2. ASSUME Clean', NEW r \in Request, r # a
          PROVE  DeleteAt(r)' /\ (At(r, "bury")' => Gone')
      <3>1. go'[r] = go[r] /\ DeleteAt(r) /\ (At(r, "bury") => Gone)
        BY <2>1, <2>2 DEF IInv, DeleteInv, Actor
      <3>2. ASSUME go[r].kind = "delete",
                   go[r].at \in {"probe", "write", "deleting", "unmap", "destroy"}
            PROVE  rows' = rows
        <4>1. Holds(r) /\ r \in Actor
          BY <3>2 DEF Holds, Active, Exclusive, Actor
        <4> QED
          BY <2>1, <2>2, <4>1 DEF IInv, AloneInv
      <3> QED
        BY <1>7, <3>1, <3>2 DEF DeleteAt, At
    <2>3. ASSUME Clean'
          PROVE  status' = "deleted" => Gone'
      BY <1>7, <2>1, <2>3 DEF IInv, DeleteInv
    <2> QED
      BY <2>2, <2>3 DEF DeleteInv
  <1>9. PasswordInv'
    <2> SUFFICES ASSUME "overlap" \notin mishaps'
                 PROVE  PasswordInv'
      BY DEF PasswordInv
    <2>1. "overlap" \notin mishaps /\ PasswordStep(a, go'[a].at)
      OBVIOUS
    <2>2. ASSUME NEW r \in Request, Holds(a), r # a
          PROVE  ~At(r, "store") /\ ~At(r, "store")'
      <3>1. ~Holds(r) /\ RequestPath(r) /\ go'[r] = go[r]
        BY <2>1, <2>2 DEF IInv, AloneInv, PathInv, Actor
      <3> QED
        BY <3>1 DEF Holds, Active, Exclusive, RequestPath, At
    <2>3. ASSUME Active(Provisioner)'
          PROVE  password' = Initial
      <3>1. Active(Provisioner) /\ password = Initial
        <4>1. CASE a = Provisioner
          BY <2>1, <4>1 DEF IInv, PasswordInv
        <4>2. CASE a # Provisioner
          BY <2>1, <2>3, <4>2 DEF IInv, PasswordInv, Active, Actor
        <4> QED
          BY <4>1, <4>2
      <3>2. Holds(a) => a = Provisioner
        BY <2>1, <3>1 DEF IInv, AloneInv, PathInv, ProvisionPath, Holds, Actor
      <3> QED
        BY <2>1, <3>1, <3>2 DEF PasswordStep
    <2>4. ASSUME NEW r \in Request
          PROVE  PasswordAt(r)'
      <3>1. CASE r = a
        BY <3>1
      <3>2. CASE r # a
        <4>1. go'[r] = go[r] /\ PasswordAt(r)
          BY <2>1, <3>2 DEF IInv, PasswordInv, Actor
        <4>2. ASSUME go[r].kind = "start",
                     go[r].at \in {"ensure", "ports", "attach", "persist", "passwd"}
              PROVE  password' = password
          <5>1. Holds(r) /\ r \in Actor
            BY <4>2 DEF Holds, Active, Exclusive, Actor
          <5> QED
            BY <2>1, <3>2, <5>1 DEF IInv, AloneInv, PasswordStep
        <4> QED
          BY <4>1, <4>2 DEF PasswordAt
      <3> QED
        BY <3>1, <3>2
    <2>5. ASSUME NEW r \in Request, At(r, "store")'
          PROVE  guest' # NoPassword /\ (~diverged' => guest' = r)
      <3>1. CASE r = a
        BY <2>1, <2>5, <3>1 DEF PasswordStep, At
      <3>2. CASE r # a
        <4>1. ~Holds(a) /\ At(r, "store")
          BY <2>2, <2>5, <3>2 DEF At, Actor
        <4> QED
          BY <2>1, <4>1 DEF IInv, PasswordInv, PasswordStep
      <3> QED
        BY <3>1, <3>2
    <2>6. cloudInit' => guest' # NoPassword \/ password' = Initial
      BY <2>1 DEF IInv, PasswordInv, PasswordStep
    <2>7. ASSUME ~diverged'
          PROVE  guest' \in {password', NoPassword} \/ \E r \in Request : At(r, "store")'
      <3>1. CASE Holds(a)
        <4>1. CASE a \in Request
          BY <2>1, <2>7, <3>1, <4>1 DEF IInv, PasswordInv, PasswordStep, At, Actor
        <4>2. CASE a = Provisioner
          BY <2>1, <2>7, <3>1, <4>2
             DEF IInv, PasswordInv, PasswordStep, At, PathInv, ProvisionPath, Actor
        <4> QED
          BY <4>1, <4>2 DEF Actor
      <3>2. CASE ~Holds(a)
        <4>1. guest \in {password, NoPassword} \/ \E r \in Request : At(r, "store")
          BY <2>1, <2>7, <3>2 DEF IInv, PasswordInv, PasswordStep
        <4>2. \A r \in Request : At(r, "store") => At(r, "store")'
          BY <2>1, <3>2 DEF PasswordStep, At, Actor
        <4> QED
          BY <2>1, <3>2, <4>1, <4>2 DEF PasswordStep
      <3> QED
        BY <3>1, <3>2
    <2> QED
      BY <2>3, <2>4, <2>5, <2>6, <2>7 DEF PasswordInv
  <1> QED
    BY <1>1, <1>2, <1>3, <1>4, <1>6, <1>8, <1>9 DEF IInv

------------------------------------------------------------------------------
(***************************************************************************)
(* The steps of provision.                                                 *)
(***************************************************************************)

\* An UPDATE of the status.
LEMMA StatusStep ==
  ASSUME TypeOK, NEW s \in Status, UpdateInstanceStatus(s)
  PROVE  /\ status' \in {s, status} /\ password' = password /\ rows' = rows
         /\ mishaps \subseteq mishaps' /\ mishaps' \subseteq Mishaps
         /\ "overlap" \in mishaps' => "overlap" \in mishaps
         /\ diverged' = diverged
  BY DEF TypeOK, UpdateInstanceStatus, Mishap, Mishaps

\* Where a goroutine gives up.
LEMMA GiveUpGoto ==
  ASSUME IInv, NEW a \in Actor, Active(a), GiveUp(a)
  PROVE  Goto(a, IF a = Provisioner THEN "fail" ELSE "done")
  BY DEF IInv, PathInv, ProvisionPath, RequestPath, GiveUp, Kind, Actor, Goto, Go

\* The status becomes creating, before anybody can have synced it.
LEMMA SetCreatingInv == ASSUME IInv, SetCreating PROVE IInv'
  <1> USE DEF SetCreating, At
  <1>1. /\ go' \in [Actor -> Goroutine] /\ \A b \in Actor : b # Provisioner => go'[b] = go[b]
        /\ go'[Provisioner].at = "allocate"
        /\ go'[Provisioner].kind = go[Provisioner].kind
        /\ go'[Provisioner].password = go[Provisioner].password
    BY GotoOn DEF IInv, Actor, Location
  <1>2. /\ status' \in {"creating", status} /\ password' = password /\ rows' = rows
        /\ diverged' = diverged /\ mishaps \subseteq mishaps' /\ mishaps' \subseteq Mishaps
    BY StatusStep DEF IInv, Status
  <1>3. Active(Provisioner) /\ go[Provisioner].kind = "provision" /\ Holds(Provisioner)
    BY DEF Active, Holds, IInv, PathInv, ProvisionPath
  <1>4. ProvisionPath'
    BY <1>1, <1>3 DEF ProvisionPath, Active, IInv, PathInv
  <1> QED
    BY <1>1, <1>2, <1>3, <1>4, StepInv
       DEF IInv, TypeOK, Actor, Status, incusVars, PasswordStep

\* A step of provision that goes on or gives up, with everything shared as it was.
LEMMA ProvisionGoes ==
  ASSUME IInv, Active(Provisioner), NEW l \in Location, Goto(Provisioner, l),
         l \in {"create", "ensure", "passwd", "attach", "persist", "setStatus", "fail", "done"},
         status' = status, password' = password, mishaps' = mishaps,
         rows' \subseteq Actor \X Part,
         container' \in {"absent", "stopped", "running"},
         cloudInit' \in BOOLEAN, diverged' \in BOOLEAN,
         \/ guest' = guest /\ cloudInit' = cloudInit /\ diverged' = diverged
         \/ guest' \in {Initial, NoPassword}
  PROVE  IInv'
  <1>1. /\ go' \in [Actor -> Goroutine] /\ \A b \in Actor : b # Provisioner => go'[b] = go[b]
        /\ go'[Provisioner].at = l
        /\ l # "done" => /\ go'[Provisioner].kind = go[Provisioner].kind
                         /\ go'[Provisioner].password = go[Provisioner].password
    BY GotoOn DEF IInv, Actor
  <1>2. go[Provisioner].kind = "provision" /\ Holds(Provisioner)
    BY DEF Holds, IInv, PathInv, ProvisionPath
  <1>3. ProvisionPath' /\ ~At(Provisioner, "creating")'
    BY <1>1, <1>2 DEF ProvisionPath, Active, At, IInv, PathInv
  <1>4. "overlap" \notin mishaps' => PasswordStep(Provisioner, l)
    BY <1>2 DEF IInv, PasswordInv, PasswordStep
  <1>5. guest' \in Password \cup {NoPassword}
    BY DEF IInv, TypeOK, Password
  <1> QED
    BY <1>1, <1>2, <1>3, <1>4, <1>5, StepInv DEF IInv, TypeOK, Actor

\* The block is reserved or not.
LEMMA AllocateBlockInv == ASSUME IInv, AllocateBlock PROVE IInv'
  <1>1. Active(Provisioner)
    BY DEF AllocateBlock, At, Active
  <1>2. Goto(Provisioner, "create") \/ Goto(Provisioner, "fail")
    BY <1>1, GiveUpGoto DEF AllocateBlock, Actor, Goto, Go
  <1> QED
    BY <1>1, <1>2, ProvisionGoes
       DEF AllocateBlock, dbVars, incusVars, history, IInv, TypeOK, Location

\* The container is created with the first password, or not.
LEMMA CreateContainerInv == ASSUME IInv, CreateContainer PROVE IInv'
  <1>1. Active(Provisioner)
    BY DEF CreateContainer, At, Active
  <1>2. Goto(Provisioner, "ensure") \/ Goto(Provisioner, "fail")
    BY <1>1, GiveUpGoto DEF CreateContainer, Actor, Goto, Go
  <1>3. /\ container' \in {"absent", "stopped", "running"}
        /\ \/ guest' = guest /\ cloudInit' = cloudInit /\ diverged' = diverged
           \/ guest' \in {Initial, NoPassword}
        /\ cloudInit' \in BOOLEAN /\ diverged' \in BOOLEAN
        /\ UNCHANGED <<dbVars, mishaps>>
    BY DEF CreateContainer, incusVars, history, IInv, TypeOK
  <1> QED
    BY <1>1, <1>2, <1>3, ProvisionGoes DEF dbVars, IInv, TypeOK, Location

\* The status becomes error.
LEMMA FailInv == ASSUME IInv, Fail PROVE IInv'
  <1> USE DEF Fail, At
  <1>1. /\ go' \in [Actor -> Goroutine] /\ \A b \in Actor : b # Provisioner => go'[b] = go[b]
        /\ go'[Provisioner].at = "done"
    BY GotoOn DEF IInv, Actor, Location
  <1>2. /\ status' \in {"error", status} /\ password' = password /\ rows' = rows
        /\ diverged' = diverged /\ mishaps \subseteq mishaps' /\ mishaps' \subseteq Mishaps
    BY StatusStep DEF IInv, Status
  <1>3. ProvisionPath' /\ Active(Provisioner) /\ ~Holds(Provisioner)'
    BY <1>1 DEF ProvisionPath, Active, Holds
  <1> QED
    BY <1>1, <1>2, <1>3, StepInv
       DEF IInv, TypeOK, Actor, Status, incusVars, PathInv, PasswordStep

------------------------------------------------------------------------------
(***************************************************************************)
(* GetInstance and syncStatusFromIncus.                                    *)
(***************************************************************************)

\* A request arrives; one that needs the instance for itself and does not have it
\* is remembered.
LEMMA ReceiveInv == ASSUME IInv, NEW r \in Request, NEW k \in Kind, Receive(r, k) PROVE IInv'
  <1> USE DEF Receive, At
  <1>1. Fresh("idle", k) \in Goroutine /\ Fresh("idle", k).kind = k /\ ~Fresh("idle", k).reply
    BY DEF Fresh, Goroutine, Location, Kind, Status, Password
  <1>2. /\ go' \in [Actor -> Goroutine] /\ \A b \in Actor : b # r => go'[b] = go[b]
        /\ go'[r].at = "read" /\ go'[r].kind = k /\ ~go'[r].reply
    BY <1>1, GoOn DEF IInv, Actor, Location
  <1>3. /\ status' = status /\ password' = password /\ rows' = rows /\ container' = container
        /\ guest' = guest /\ cloudInit' = cloudInit /\ diverged' = diverged
        /\ mishaps \subseteq mishaps' /\ mishaps' \subseteq Mishaps
    BY DEF dbVars, incusVars, Mishap, Mishaps, IInv, TypeOK
  <1>4. RequestPath(r)' /\ SyncAt(r)' /\ DeleteAt(r)' /\ ~At(r, "bury")' /\ PasswordAt(r)'
    BY <1>2 DEF RequestPath, SyncAt, DeleteAt, PasswordAt
  <1>5. ASSUME "overlap" \notin mishaps', Holds(r)'
        PROVE  \A b \in Actor : ~Holds(b)
    <2>1. k \in Exclusive
      BY <1>2, <1>5 DEF Holds, Kind, Exclusive
    <2>2. ~\E a \in Actor : Active(a) /\ go[a].kind \in Exclusive \cup {"provision"}
      BY <1>5, <2>1 DEF Mishap
    <2> QED
      BY <2>2 DEF Holds
  <1>6. r # Provisioner /\ r \in Actor
    BY DEF Actor
  <1> QED
    BY <1>2, <1>3, <1>4, <1>5, <1>6, StepInv
       DEF IInv, TypeOK, EarlyInv, DeleteInv, Gone, PasswordStep

\* Where a request goes on is on its path.
LEMMA ProceedPath ==
  ASSUME NEW r \in Request, RequestPath(r), NEW s
  PROVE  /\ Proceed(r, s) \in {"done", "ensure", "power", "deleting"}
         /\ Proceed(r, s) = "ensure" => go[r].kind \in {"start", "reset"} /\ ~go[r].reply
         /\ Proceed(r, s) = "power" => go[r].kind \in {"stop", "restart"} /\ ~go[r].reply
         /\ Proceed(r, s) = "deleting" => go[r].kind = "delete" /\ ~go[r].reply
  <1>1. CASE ~go[r].reply /\ go[r].kind \in {"start", "reset"}
    BY <1>1 DEF Proceed
  <1>2. CASE ~go[r].reply /\ go[r].kind \in {"stop", "restart"}
    BY <1>2 DEF Proceed
  <1>3. CASE ~go[r].reply /\ go[r].kind = "delete"
    BY <1>3 DEF Proceed
  <1>4. CASE go[r].reply \/ go[r].kind = "get"
    BY <1>4 DEF Proceed
  <1> QED
    BY <1>1, <1>2, <1>3, <1>4 DEF RequestPath, Kind

\* A request that has read the instance, or synced its status, goes on.
LEMMA RequestGoes ==
  ASSUME IInv, NEW r \in Request, NEW l \in Location, NEW g \in Goroutine, Go(r, l, g),
         go[r].at \in {"read", "probe", "write"}, g.kind = go[r].kind, g.reply = go[r].reply,
         \/ /\ l \in {"done", "ensure", "power", "deleting"}
            /\ l = "ensure" => go[r].kind \in {"start", "reset"} /\ ~go[r].reply
            /\ l = "power" => go[r].kind \in {"stop", "restart"} /\ ~go[r].reply
            /\ l = "deleting" => go[r].kind = "delete" /\ ~go[r].reply
         \/ /\ l \in {"probe", "write"} /\ (go[r].kind = "start" => go[r].reply)
            /\ status' \notin {"pending", "creating"} /\ ~At(Provisioner, "creating")
            /\ l = "write" => g.status \in {"stopped", "running"},
         go[r].kind = "delete" /\ l # "done" => g.rows = rows \/ ~Clean,
         go[r].kind = "start" /\ l = "ensure" => g.password = password,
         status' = status \/ (status' \in {"stopped", "running"} /\ ~At(Provisioner, "creating")),
         UNCHANGED <<password, rows, incusVars, diverged>>,
         mishaps \subseteq mishaps', mishaps' \subseteq Mishaps
  PROVE  IInv'
  <1>1. /\ go' \in [Actor -> Goroutine] /\ \A b \in Actor : b # r => go'[b] = go[b]
        /\ go'[r].at = l
        /\ l # "done" => /\ go'[r].kind = go[r].kind /\ go'[r].reply = go[r].reply
                         /\ go'[r].password = g.password
        /\ l \in {"probe", "write"} => go'[r].status = g.status
        /\ l \in {"probe", "write", "deleting", "unmap"} => go'[r].rows = g.rows
        /\ l = "done" => go'[r].kind = "get" /\ ~go'[r].reply
    <2>1. TypeOK /\ r \in Actor
      BY DEF IInv, Actor
    <2> QED
      BY <2>1, GoOn
  <1>2. /\ password' = password /\ rows' = rows /\ container' = container /\ guest' = guest
        /\ cloudInit' = cloudInit /\ diverged' = diverged
        /\ status' \in Status /\ r \in Actor /\ r # Provisioner
        /\ (status' = status \/ status' \notin {"pending", "creating"})
        /\ (status' = "deleted" => status = "deleted")
    BY DEF incusVars, Status, IInv, TypeOK, Actor
  <1>3. RequestPath(r)'
    BY <1>1 DEF IInv, PathInv, RequestPath, Kind
  <1>4. SyncAt(r)'
    BY <1>1 DEF SyncAt
  <1>5. Clean' => Clean
    BY DEF Clean
  <1>6. Clean' => DeleteAt(r)' /\ ~At(r, "bury")'
    BY <1>1, <1>2, <1>5 DEF DeleteAt, At
  <1>7. PasswordAt(r)'
    BY <1>1, <1>2 DEF PasswordAt, At
  <1>8. Holds(r)' => Holds(r)
    BY <1>1 DEF Holds, Active, Exclusive
  <1>9. At(Provisioner, "creating") =>
          /\ container' = "absent" /\ status' \in {"pending", "deleting", "deleted"}
          /\ go'[r].at \in {"idle", "read", "power", "ensure", "deleting", "unmap", "destroy",
                            "bury", "done"}
    BY <1>1, <1>2 DEF IInv, EarlyInv
  <1> QED
    BY <1>1, <1>2, <1>3, <1>4, <1>6, <1>7, <1>8, <1>9, StepInv
       DEF IInv, TypeOK, DeleteInv, Gone, At, PasswordStep

\* The instance and its mappings are read.
LEMMA ReadInstanceInv == ASSUME IInv, NEW r \in Request, ReadInstance(r) PROVE IInv'
  <1> USE DEF ReadInstance, At
  <1>1. /\ UNCHANGED <<password, rows, incusVars, diverged>> /\ status' = status /\ mishaps' = mishaps
        /\ RequestPath(r) /\ go[r] \in Goroutine
    BY DEF dbVars, history, IInv, PathInv, TypeOK, Actor
  <1>2. CASE Goto(r, "done")
    <2>1. Go(r, "done", go[r]) /\ "done" \in Location
      BY <1>2 DEF Goto, Location
    <2> QED
      BY <1>1, <2>1, RequestGoes DEF IInv, TypeOK
  <1>3. CASE ~Goto(r, "done")
    <2> DEFINE l == IF SyncsFrom(status) /\ (go[r].kind = "start" => go[r].reply)
                      THEN "probe" ELSE Proceed(r, status)
               g == Remembered(r)
    <2>1. Go(r, l, g)
      BY <1>3
    <2>2. /\ g \in Goroutine /\ g.kind = go[r].kind /\ g.reply = go[r].reply
          /\ go[r].kind = "start" => g.password = password
          /\ go[r].kind = "delete" => g.rows = rows
      BY <1>1 DEF Remembered, Goroutine, IInv, TypeOK
    <2>3. \/ /\ l = "probe" /\ (go[r].kind = "start" => go[r].reply)
             /\ status \notin {"pending", "creating"}
             /\ ~At(Provisioner, "creating")
          \/ /\ l \in {"done", "ensure", "power", "deleting"}
             /\ l = "ensure" => go[r].kind \in {"start", "reset"} /\ ~go[r].reply
             /\ l = "power" => go[r].kind \in {"stop", "restart"} /\ ~go[r].reply
             /\ l = "deleting" => go[r].kind = "delete" /\ ~go[r].reply
      BY <1>1, ProceedPath DEF SyncsFrom, IInv, EarlyInv
    <2>4. l \in Location
      BY <2>3 DEF Location
    <2> HIDE DEF l, g
    <2>5. mishaps \subseteq mishaps' /\ mishaps' \subseteq Mishaps
      BY <1>1 DEF IInv, TypeOK
    <2> QED
      BY <1>1, <2>1, <2>2, <2>3, <2>4, <2>5, RequestGoes
  <1> QED
    BY <1>2, <1>3

\* Incus is asked for the power state.
LEMMA ProbeStatusInv == ASSUME IInv, NEW r \in Request, ProbeStatus(r) PROVE IInv'
  <1> USE DEF ProbeStatus, At
  <1>1. /\ UNCHANGED <<password, rows, incusVars, diverged>> /\ status' = status
        /\ mishaps \subseteq mishaps' /\ mishaps' \subseteq Mishaps
        /\ RequestPath(r) /\ go[r] \in Goroutine /\ go[r].at = "probe"
        /\ status \notin {"pending", "creating"} /\ ~At(Provisioner, "creating")
        /\ go[r].kind = "delete" => go[r].rows = rows \/ ~Clean
        /\ go[r].kind = "start" => go[r].reply
    BY DEF dbVars, history, IInv, PathInv, RequestPath, TypeOK, Actor, SyncInv, SyncAt, EarlyInv,
           DeleteInv, DeleteAt
  <1>2. CASE container \notin {"absent", go[r].status}
             /\ Go(r, "write", [go[r] EXCEPT !.status = container])
    <2> DEFINE g == [go[r] EXCEPT !.status = container]
    <2>1. container \in {"stopped", "running"}
      BY <1>2 DEF IInv, TypeOK
    <2>2. /\ g \in Goroutine /\ g.kind = go[r].kind /\ g.reply = go[r].reply
          /\ g.status = container /\ g.rows = go[r].rows
      BY <1>1, <2>1 DEF Goroutine, Status
    <2>3. Go(r, "write", g) /\ "write" \in Location
      BY <1>2 DEF Location
    <2> HIDE DEF g
    <2> QED
      BY <1>1, <2>1, <2>2, <2>3, RequestGoes
  <1>3. CASE Goto(r, Proceed(r, go[r].status))
    <2> DEFINE l == Proceed(r, go[r].status)
    <2>1. /\ l \in {"done", "ensure", "power", "deleting"}
          /\ l = "ensure" => go[r].kind \in {"start", "reset"} /\ ~go[r].reply
          /\ l = "power" => go[r].kind \in {"stop", "restart"} /\ ~go[r].reply
          /\ l = "deleting" => go[r].kind = "delete" /\ ~go[r].reply
      BY <1>1, ProceedPath
    <2>2. Go(r, l, go[r])
      BY <1>3 DEF Goto
    <2>3. l \in Location
      BY <2>1 DEF Location
    <2>4. ~(go[r].kind = "start" /\ l = "ensure")
      BY <1>1, <2>1
    <2> HIDE DEF l
    <2> QED
      BY <1>1, <2>1, <2>2, <2>3, <2>4, RequestGoes
  <1> QED
    BY <1>2, <1>3

\* The power state becomes the status.
LEMMA SyncStatusInv == ASSUME IInv, NEW r \in Request, SyncStatus(r) PROVE IInv'
  <1> USE DEF SyncStatus, At
  <1> DEFINE l == Proceed(r, go[r].status)
  <1>1. /\ RequestPath(r) /\ go[r] \in Goroutine /\ go[r].at = "write"
        /\ go[r].status \in {"stopped", "running"} /\ ~At(Provisioner, "creating")
        /\ go[r].kind = "delete" => go[r].rows = rows \/ ~Clean
        /\ go[r].kind = "start" => go[r].reply
    BY DEF IInv, PathInv, RequestPath, TypeOK, Actor, SyncInv, SyncAt, EarlyInv, DeleteInv,
           DeleteAt
  <1>2. /\ status' \in {go[r].status, status} /\ UNCHANGED <<password, rows, incusVars, diverged>>
        /\ mishaps \subseteq mishaps' /\ mishaps' \subseteq Mishaps
    BY <1>1, StatusStep DEF IInv, Status
  <1>3. /\ l \in {"done", "ensure", "power", "deleting"}
        /\ l = "ensure" => go[r].kind \in {"start", "reset"} /\ ~go[r].reply
        /\ l = "power" => go[r].kind \in {"stop", "restart"} /\ ~go[r].reply
        /\ l = "deleting" => go[r].kind = "delete" /\ ~go[r].reply
    BY <1>1, ProceedPath
  <1>4. Go(r, l, go[r])
    BY DEF Goto
  <1>5. l \in Location
    BY <1>3 DEF Location
  <1>6. ~(go[r].kind = "start" /\ l = "ensure")
    BY <1>1, <1>3
  <1> HIDE DEF l
  <1> QED
    BY <1>1, <1>2, <1>3, <1>4, <1>5, <1>6, RequestGoes

------------------------------------------------------------------------------
(***************************************************************************)
(* The handlers, and what provision shares with StartInstance.             *)
(***************************************************************************)

\* A step of a request past its reading, before the row is written again.
LEMMA HandlerStep ==
  ASSUME IInv, NEW r \in Request, NEW l \in Location, NEW g \in Goroutine, Go(r, l, g),
         g.kind = go[r].kind, g.reply = go[r].reply, g.password = go[r].password,
         go[r].at \in {"power", "ensure", "ports", "attach", "persist", "passwd", "store"},
         l \in {"ports", "attach", "persist", "passwd", "store", "setStatus", "done"},
         l \in {"ports", "attach", "persist"} => go[r].kind = "start",
         l = "store" => go[r].kind = "reset",
         go[r].at = "power" => l \in {"setStatus", "done"},
         l \in {"ports", "attach", "persist"} => go[r].at \in {"ensure", "ports", "attach"},
         l # "done" => container # "absent" \/ go[r].at \notin {"power", "ensure"},
         container' = container
           \/ (container' \in {"absent", "stopped", "running"} /\ container # "absent"),
         status' = status, rows' = rows \/ Holds(r), rows' \subseteq Actor \X Part,
         go[r].at \notin {"persist"} => rows' = rows,
         password' \in Password, guest' \in Password \cup {NoPassword},
         cloudInit' \in BOOLEAN, diverged' \in BOOLEAN,
         password' = password \/ go[r].at = "store",
         "overlap" \notin mishaps' => PasswordStep(r, l),
         mishaps \subseteq mishaps', mishaps' \subseteq Mishaps
  PROVE  IInv'
  <1>1. /\ go' \in [Actor -> Goroutine] /\ \A b \in Actor : b # r => go'[b] = go[b]
        /\ go'[r].at = l
        /\ l # "done" => /\ go'[r].kind = go[r].kind /\ go'[r].reply = go[r].reply
                         /\ go'[r].password = go[r].password
        /\ l = "done" => go'[r].kind = "get" /\ ~go'[r].reply
    <2>1. TypeOK /\ r \in Actor
      BY DEF IInv, Actor
    <2> QED
      BY <2>1, GoOn
  <1>2. /\ RequestPath(r) /\ r # Provisioner /\ r \in Actor
        /\ container' \in {"absent", "stopped", "running"}
    BY DEF IInv, PathInv, Actor, TypeOK
  <1>3. ~go[r].reply /\ go[r].kind \in {"start", "stop", "restart", "reset"}
        /\ (go[r].at # "power" => go[r].kind \in {"start", "reset"})
        /\ (go[r].at = "store" => go[r].kind = "reset")
    BY <1>2 DEF RequestPath
  <1>4. RequestPath(r)'
    BY <1>1, <1>2, <1>3 DEF RequestPath, Kind
  <1>5. SyncAt(r)'
    BY <1>1 DEF SyncAt
  <1>6. DeleteAt(r)' /\ ~At(r, "bury")'
    BY <1>1, <1>3 DEF DeleteAt, At
  <1>7. Holds(r)' => Holds(r)
    BY <1>1 DEF Holds, Active, Exclusive
  <1>8. At(Provisioner, "creating") => /\ container' = "absent" /\ l = "done"
                                       /\ status' \in {"pending", "deleting", "deleted"}
    BY <1>2 DEF IInv, EarlyInv, At
  <1>9. Gone => container' = "absent" /\ rows' = {} /\ l \notin {"ports", "attach", "persist"}
    BY DEF Gone
  <1>10. ASSUME "overlap" \notin mishaps'
         PROVE  PasswordAt(r)'
    <2>1. PasswordAt(r)
      BY <1>10 DEF IInv, PasswordInv
    <2> QED
      BY <1>1, <1>3, <2>1 DEF PasswordAt, At
  <1>11. status' \in Status /\ (status' = "deleted" => status = "deleted")
    BY DEF IInv, TypeOK
  <1> QED
    BY <1>1, <1>2, <1>4, <1>5, <1>6, <1>7, <1>8, <1>9, <1>10, <1>11, StepInv

\* The guest is stopped or restarted.
LEMMA PowerContainerInv == ASSUME IInv, NEW r \in Request, PowerContainer(r) PROVE IInv'
  <1> USE DEF PowerContainer, At
  <1>1. /\ r \in Actor /\ go[r] \in Goroutine /\ Active(r) /\ mishaps' = mishaps
        /\ mishaps \subseteq Mishaps /\ status' = status /\ password' = password
        /\ rows' = rows /\ rows \subseteq Actor \X Part /\ password \in Password
        /\ guest' = guest /\ guest \in Password \cup {NoPassword}
        /\ cloudInit' \in BOOLEAN /\ diverged' \in BOOLEAN
        /\ cloudInit' = cloudInit /\ diverged' = diverged
    BY DEF IInv, TypeOK, Actor, Active, dbVars, history
  <1>2. PICK l \in {"setStatus", "done"} : Goto(r, l) /\ (l = "setStatus" => container = "running")
    BY <1>1, GiveUpGoto DEF Actor, Goto, Go
  <1>3. Go(r, l, go[r]) /\ l \in Location
    BY <1>2 DEF Goto, Location
  <1>4. container' = container
          \/ (container' \in {"absent", "stopped", "running"} /\ container # "absent")
    BY DEF IInv, TypeOK
  <1> QED
    BY <1>1, <1>2, <1>3, <1>4, HandlerStep DEF PasswordStep

\* The ports of the block that are stored are listed.
LEMMA ListPortsInv == ASSUME IInv, NEW r \in Request, ListPorts(r) PROVE IInv'
  <1> USE DEF ListPorts, At
  <1>1. /\ r \in Actor /\ go[r] \in Goroutine /\ Active(r) /\ mishaps' = mishaps
        /\ mishaps \subseteq Mishaps /\ status' = status /\ password' = password
        /\ rows' = rows /\ rows \subseteq Actor \X Part /\ password \in Password
        /\ guest' = guest /\ guest \in Password \cup {NoPassword} /\ container' = container
        /\ cloudInit' \in BOOLEAN /\ diverged' \in BOOLEAN
        /\ cloudInit' = cloudInit /\ diverged' = diverged
        /\ go[r].kind = "start"
    BY DEF IInv, TypeOK, Actor, Active, dbVars, incusVars, history, PathInv, RequestPath
  <1>2. CASE \E l \in {"passwd", "attach"} : Go(r, l, [go[r] EXCEPT !.rows = rows])
    <2> DEFINE g == [go[r] EXCEPT !.rows = rows]
    <2>1. PICK l \in {"passwd", "attach"} : Go(r, l, g)
      BY <1>2
    <2>2. /\ g \in Goroutine /\ g.kind = go[r].kind /\ g.reply = go[r].reply
          /\ g.password = go[r].password
      BY <1>1 DEF Goroutine
    <2>3. l \in Location
      BY DEF Location
    <2> HIDE DEF g
    <2> QED
      BY <1>1, <2>1, <2>2, <2>3, HandlerStep DEF PasswordStep
  <1>3. CASE \E l \in {"passwd", "done"} : Goto(r, l)
    <2>1. PICK l \in {"passwd", "done"} : Goto(r, l)
      BY <1>3
    <2>2. Go(r, l, go[r]) /\ l \in Location
      BY <2>1 DEF Goto, Location
    <2> QED
      BY <1>1, <2>1, <2>2, HandlerStep DEF PasswordStep
  <1>4. \/ Go(r, IF Cardinality(rows) > 1 THEN "passwd" ELSE "attach",
              [go[r] EXCEPT !.rows = rows])
        \/ GiveUp(r) \/ Goto(r, "passwd")
    OBVIOUS
  <1>5. GiveUp(r) => Goto(r, "done")
    BY <1>1, GiveUpGoto DEF Actor, Goto, Go
  <1> QED
    BY <1>2, <1>3, <1>4, <1>5 DEF Go

\* The password set in the guest is stored, or the two differ and that is remembered.
LEMMA UpdateRootPasswordInv ==
  ASSUME IInv, NEW r \in Request, UpdateRootPassword(r) PROVE IInv'
  <1> USE DEF UpdateRootPassword, At
  <1>1. /\ r \in Actor /\ go[r] \in Goroutine /\ Active(r) /\ Holds(r)
        /\ mishaps' = mishaps /\ mishaps \subseteq Mishaps /\ status' = status
        /\ rows' = rows /\ rows \subseteq Actor \X Part /\ container' = container
        /\ guest' = guest /\ guest \in Password \cup {NoPassword}
        /\ password' \in Password /\ cloudInit' = cloudInit /\ cloudInit' \in BOOLEAN
        /\ diverged' \in BOOLEAN
    BY DEF IInv, TypeOK, Actor, Active, Holds, Exclusive, PathInv, RequestPath, incusVars,
           Password
  <1>2. PICK l \in {"setStatus", "done"} :
          Goto(r, l) /\ (diverged' \/ (password' = r /\ diverged' = diverged))
    BY <1>1, GiveUpGoto DEF Actor, Goto, Go
  <1>3. Go(r, l, go[r]) /\ l \in Location
    BY <1>2 DEF Goto, Location
  <1>4. ASSUME "overlap" \notin mishaps'
        PROVE  PasswordStep(r, l)
    <2>1. guest # NoPassword /\ (~diverged => guest = r)
      BY <1>1, <1>4 DEF IInv, PasswordInv
    <2> QED
      BY <1>1, <1>2, <2>1 DEF PasswordStep
  <1> QED
    BY <1>1, <1>2, <1>3, <1>4, HandlerStep

\* The container runs, or there is none.
LEMMA EnsureStartedInv == ASSUME IInv, NEW a \in Actor, EnsureStarted(a) PROVE IInv'
  <1> USE DEF EnsureStarted, At
  <1>1. /\ go[a] \in Goroutine /\ Active(a) /\ mishaps' = mishaps
        /\ mishaps \subseteq Mishaps /\ status' = status /\ password' = password
        /\ rows' = rows /\ rows \subseteq Actor \X Part /\ password \in Password
        /\ guest' = guest /\ guest \in Password \cup {NoPassword}
        /\ cloudInit' \in BOOLEAN /\ diverged' \in BOOLEAN
        /\ cloudInit' = cloudInit /\ diverged' = diverged
    BY DEF IInv, TypeOK, Active, dbVars, history
  <1>2. container' = container
          \/ (container' \in {"absent", "stopped", "running"} /\ container # "absent")
    BY DEF IInv, TypeOK
  <1>3. CASE a = Provisioner
    <2>1. go[a].kind = "provision"
      BY <1>1, <1>3 DEF IInv, PathInv, ProvisionPath
    <2>2. Goto(Provisioner, "passwd") \/ Goto(Provisioner, "fail")
      BY <1>1, <1>3, <2>1, GiveUpGoto DEF Goto, Go
    <2>3. container' \in {"absent", "stopped", "running"}
      BY <1>2 DEF IInv, TypeOK
    <2> QED
      BY <1>1, <1>3, <2>2, <2>3, ProvisionGoes DEF Location
  <1>4. CASE a \in Request
    <2>1. a # Provisioner /\ go[a].kind \in {"start", "reset"}
      BY <1>4 DEF IInv, PathInv, RequestPath
    <2>2. PICK l \in {"ports", "passwd", "done"} :
            /\ Goto(a, l)
            /\ l = "ports" => go[a].kind = "start"
            /\ l # "done" => container # "absent"
      BY <1>1, <2>1, GiveUpGoto DEF Goto, Go
    <2>3. Go(a, l, go[a]) /\ l \in Location
      BY <2>2 DEF Goto, Location
    <2> QED
      BY <1>1, <1>2, <1>4, <2>1, <2>2, <2>3, HandlerStep DEF PasswordStep
  <1> QED
    BY <1>3, <1>4 DEF Actor

\* The proxy devices of a block are attached, or not.
LEMMA AddProxyDevicesInv == ASSUME IInv, NEW a \in Actor, AddProxyDevices(a) PROVE IInv'
  <1> USE DEF AddProxyDevices, At
  <1>1. /\ go[a] \in Goroutine /\ Active(a) /\ mishaps' = mishaps
        /\ mishaps \subseteq Mishaps /\ status' = status /\ password' = password
        /\ rows' = rows /\ rows \subseteq Actor \X Part /\ password \in Password
        /\ guest' = guest /\ guest \in Password \cup {NoPassword} /\ container' = container
        /\ container \in {"absent", "stopped", "running"}
        /\ cloudInit' \in BOOLEAN /\ diverged' \in BOOLEAN
        /\ cloudInit' = cloudInit /\ diverged' = diverged
    BY DEF IInv, TypeOK, Active, dbVars, incusVars, history
  <1>2. CASE a = Provisioner
    <2>1. Goto(Provisioner, "persist") \/ Goto(Provisioner, "fail")
      BY <1>1, <1>2, GiveUpGoto DEF Goto, Go
    <2> QED
      BY <1>1, <1>2, <2>1, ProvisionGoes DEF Location
  <1>3. CASE a \in Request
    <2>1. a # Provisioner /\ go[a].kind = "start"
      BY <1>3 DEF IInv, PathInv, RequestPath
    <2>2. PICK l \in {"persist", "done"} : Goto(a, l)
      BY <1>1, <2>1, GiveUpGoto DEF Goto, Go
    <2>3. Go(a, l, go[a]) /\ l \in Location
      BY <2>2 DEF Goto, Location
    <2> QED
      BY <1>1, <1>3, <2>1, <2>2, <2>3, HandlerStep DEF PasswordStep
  <1> QED
    BY <1>2, <1>3 DEF Actor

\* The rows of a block are stored, all, some or none: no deletion is under way that
\* has read the mappings.
LEMMA PersistPortsInv == ASSUME IInv, NEW a \in Actor, PersistPorts(a) PROVE IInv'
  <1> USE DEF PersistPorts, At
  <1>1. /\ go[a] \in Goroutine /\ Active(a) /\ mishaps' = mishaps
        /\ mishaps \subseteq Mishaps /\ status' = status /\ password' = password
        /\ rows \subseteq Actor \X Part /\ password \in Password
        /\ guest' = guest /\ guest \in Password \cup {NoPassword} /\ container' = container
        /\ container \in {"absent", "stopped", "running"}
        /\ cloudInit' \in BOOLEAN /\ diverged' \in BOOLEAN
        /\ cloudInit' = cloudInit /\ diverged' = diverged
    BY DEF IInv, TypeOK, Active, incusVars, history
  <1>2. rows' \subseteq Actor \X Part
    <2>1. Missing(a) \subseteq Actor \X Part
      BY DEF Missing, Part
    <2> QED
      BY <1>1, <2>1
  <1>3. CASE a = Provisioner
    <2>1. go[a].kind = "provision"
      BY <1>1, <1>3 DEF IInv, PathInv, ProvisionPath
    <2>2. Goto(Provisioner, "setStatus") \/ Goto(Provisioner, "fail")
      BY <1>1, <1>3, <2>1, GiveUpGoto DEF Goto, Go
    <2> QED
      BY <1>1, <1>2, <1>3, <2>2, ProvisionGoes DEF Location
  <1>4. CASE a \in Request
    <2>1. a # Provisioner /\ go[a].kind = "start" /\ Holds(a)
      BY <1>1, <1>4 DEF IInv, PathInv, RequestPath, Holds, Exclusive
    <2>2. PICK l \in {"passwd", "done"} : Goto(a, l)
      BY <1>1, <2>1, GiveUpGoto DEF Goto, Go
    <2>3. Go(a, l, go[a]) /\ l \in Location
      BY <2>2 DEF Goto, Location
    <2> QED
      BY <1>1, <1>2, <1>4, <2>1, <2>2, <2>3, HandlerStep DEF PasswordStep
  <1> QED
    BY <1>3, <1>4 DEF Actor

\* The guest gets a password: the stored one, or the one that will be stored next.
LEMMA SetGuestPasswordInv == ASSUME IInv, NEW a \in Actor, SetGuestPassword(a) PROVE IInv'
  <1> USE DEF SetGuestPassword, At
  <1>1. /\ go[a] \in Goroutine /\ Active(a) /\ mishaps' = mishaps
        /\ mishaps \subseteq Mishaps /\ status' = status /\ password' = password
        /\ rows' = rows /\ rows \subseteq Actor \X Part /\ password \in Password
        /\ guest \in Password \cup {NoPassword} /\ container' = container
        /\ container \in {"absent", "stopped", "running"}
        /\ cloudInit' = cloudInit /\ cloudInit' \in BOOLEAN /\ diverged' \in BOOLEAN
    BY DEF IInv, TypeOK, Active, dbVars
  <1>2. CASE a = Provisioner
    <2>1. go[a].kind = "provision" /\ go[a].password = Initial
      BY <1>1, <1>2 DEF IInv, PathInv, ProvisionPath
    <2>2. Goto(Provisioner, "attach") \/ Goto(Provisioner, "fail")
      BY <1>1, <1>2, <2>1, GiveUpGoto DEF Goto, Go
    <2>3. guest' = Initial \/ (guest' = guest /\ diverged' = diverged)
      BY <2>1 DEF NewPassword
    <2> QED
      BY <1>1, <1>2, <2>2, <2>3, ProvisionGoes DEF Location
  <1>3. CASE a \in Request
    <2>1. /\ a # Provisioner /\ go[a].kind \in {"start", "reset"} /\ Holds(a)
          /\ go[a].kind = "start" => ("overlap" \notin mishaps => go[a].password = password)
      BY <1>1, <1>3 DEF IInv, PathInv, RequestPath, Holds, Exclusive, PasswordInv, PasswordAt
    <2>2. PICK l \in {"setStatus", "store", "done"} :
            /\ Goto(a, l)
            /\ l = "store" => go[a].kind = "reset" /\ guest' = NewPassword(a)
            /\ \/ guest' = guest /\ diverged' = diverged /\ l # "store"
               \/ /\ guest' = NewPassword(a)
                  /\ go[a].kind = "start" \/ l = "store" \/ diverged'
      BY <1>1, <2>1, GiveUpGoto DEF Goto, Go
    <2>3. Go(a, l, go[a]) /\ l \in Location
      BY <2>2 DEF Goto, Location
    <2>4. /\ go[a].kind = "reset" => NewPassword(a) = a
          /\ go[a].kind = "start" => NewPassword(a) = go[a].password
          /\ NewPassword(a) \in Password
      BY <1>1, <1>3 DEF NewPassword, Goroutine, Password
    <2>5. ASSUME "overlap" \notin mishaps'
          PROVE  PasswordStep(a, l)
      <3>1. CASE guest' = guest /\ diverged' = diverged /\ l # "store"
        BY <1>1, <3>1 DEF PasswordStep
      <3>2. CASE guest' = NewPassword(a) /\ (go[a].kind = "start" \/ l = "store" \/ diverged')
        <4>1. guest' # NoPassword
          BY <2>4, <3>2, PasswordsAreSet
        <4> QED
          BY <1>1, <2>1, <2>2, <2>4, <2>5, <3>2, <4>1 DEF PasswordStep
      <3> QED
        BY <2>2, <3>1, <3>2
    <2>6. guest' \in Password \cup {NoPassword}
      BY <1>1, <2>2, <2>4
    <2> QED
      BY <1>1, <1>3, <2>1, <2>2, <2>3, <2>5, <2>6, HandlerStep
  <1> QED
    BY <1>2, <1>3 DEF Actor

\* The status becomes running or stopped; a request reads the instance again.
LEMMA SetStatusInv == ASSUME IInv, NEW a \in Actor, SetStatus(a) PROVE IInv'
  <1> USE DEF SetStatus, At
  <1>1. /\ status' \in {"running", "stopped", status} /\ status' \in Status
        /\ password' = password /\ rows' = rows
        /\ mishaps \subseteq mishaps' /\ mishaps' \subseteq Mishaps
        /\ container' = container /\ guest' = guest
        /\ cloudInit' = cloudInit /\ diverged' = diverged
    BY StatusStep DEF IInv, TypeOK, Status, incusVars
  <1>2. CASE a = Provisioner
    <2>1. Active(Provisioner) /\ go[a].kind = "provision"
      BY <1>2 DEF IInv, PathInv, ProvisionPath, Active
    <2>2. Goto(Provisioner, "done")
      BY <1>2, <2>1
    <2>3. /\ go' \in [Actor -> Goroutine]
          /\ \A b \in Actor : b # Provisioner => go'[b] = go[b]
          /\ go'[Provisioner].at = "done"
      BY <2>2, GotoOn DEF IInv, Actor, Location
    <2>4. ProvisionPath' /\ ~Holds(Provisioner)'
      BY <2>3 DEF ProvisionPath, Active, Holds
    <2> QED
      BY <1>1, <1>2, <2>1, <2>3, <2>4, StepInv DEF IInv, TypeOK, Actor, PasswordStep
  <1>3. CASE a \in Request
    <2>1. /\ a # Provisioner /\ go[a].kind \in {"start", "stop", "restart", "reset"}
          /\ ~At(Provisioner, "creating")
      BY <1>3 DEF IInv, PathInv, RequestPath, EarlyInv
    <2> DEFINE g == [Fresh("idle", go[a].kind) EXCEPT !.reply = TRUE]
    <2>2. g \in Goroutine /\ g.kind = go[a].kind /\ g.reply
      <3>1. Fresh("idle", go[a].kind) \in Goroutine /\ Fresh("idle", go[a].kind).kind = go[a].kind
        BY <2>1 DEF Fresh, Goroutine, Location, Kind, Status, Password
      <3> QED
        BY <3>1 DEF Goroutine
    <2>3. Go(a, "read", g) /\ "read" \in Location
      BY <2>1 DEF Location
    <2> HIDE DEF g
    <2>4. /\ go' \in [Actor -> Goroutine] /\ \A b \in Actor : b # a => go'[b] = go[b]
          /\ go'[a].at = "read" /\ go'[a].kind = go[a].kind /\ go'[a].reply
      BY <2>2, <2>3, GoOn DEF IInv
    <2>5. RequestPath(a)' /\ SyncAt(a)' /\ DeleteAt(a)' /\ ~At(a, "bury")' /\ PasswordAt(a)'
      BY <2>1, <2>4 DEF RequestPath, SyncAt, DeleteAt, PasswordAt, Kind
    <2>6. Holds(a)' => Holds(a)
      BY <2>4 DEF Holds, Active
    <2> QED
      BY <1>1, <1>3, <2>1, <2>4, <2>5, <2>6, StepInv DEF IInv, TypeOK, Gone, PasswordStep
  <1> QED
    BY <1>2, <1>3 DEF Actor

------------------------------------------------------------------------------
(***************************************************************************)
(* DeleteInstance, the guest and the server.                               *)
(***************************************************************************)

\* A step of a deletion.
LEMMA DeleteStep ==
  ASSUME IInv, NEW r \in Request, NEW l \in {"unmap", "destroy", "bury", "done"}, Goto(r, l),
         go[r].at \in {"deleting", "unmap", "destroy", "bury"},
         status' = status \/ status' = "deleting"
           \/ (status' = "deleted" /\ go[r].at = "bury"),
         password' = password, rows' \subseteq rows,
         diverged' = diverged,
         \/ container' = container /\ guest' = guest /\ cloudInit' = cloudInit
         \/ container' = "absent" /\ guest' = NoPassword /\ cloudInit' = FALSE,
         mishaps \subseteq mishaps', mishaps' \subseteq Mishaps,
         l = "unmap" => go[r].at = "deleting" /\ rows' = rows,
         l = "destroy" /\ Clean' => go[r].at = "unmap" /\ rows' = rows \ go[r].rows,
         l = "bury" /\ Clean' => go[r].at = "destroy" /\ rows' = rows /\ container' = "absent"
  PROVE  IInv'
  <1>1. /\ go' \in [Actor -> Goroutine] /\ \A b \in Actor : b # r => go'[b] = go[b]
        /\ go'[r].at = l
        /\ l # "done" => /\ go'[r].kind = go[r].kind /\ go'[r].reply = go[r].reply
        /\ l = "unmap" => go'[r].rows = go[r].rows
        /\ l = "done" => go'[r].kind = "get" /\ ~go'[r].reply
    <2>1. TypeOK /\ r \in Actor /\ l \in Location
      BY DEF IInv, Actor, Location
    <2> QED
      BY <2>1, GotoOn
  <1>2. /\ r # Provisioner /\ r \in Actor /\ RequestPath(r) /\ go[r].kind = "delete"
        /\ ~go[r].reply /\ Active(r) /\ Holds(r)
    BY DEF IInv, PathInv, RequestPath, Actor, Active, Holds, Exclusive
  <1>3. RequestPath(r)' /\ SyncAt(r)' /\ PasswordAt(r)'
    BY <1>1, <1>2 DEF RequestPath, SyncAt, PasswordAt, At, Kind
  <1>4. /\ container' \in {"absent", "stopped", "running"} /\ guest' \in Password \cup {NoPassword}
        /\ status' \in Status /\ rows' \subseteq Actor \X Part /\ password' \in Password
        /\ cloudInit' \in BOOLEAN /\ diverged' \in BOOLEAN
    BY DEF IInv, TypeOK, Status
  <1>5. Clean' => Clean /\ "overlap" \notin mishaps
    BY DEF Clean
  <1>6. ASSUME Clean'
        PROVE  DeleteAt(r)'
    <2>1. DeleteAt(r)
      BY <1>5, <1>6 DEF IInv, DeleteInv
    <2> QED
      BY <1>1, <1>2, <1>6, <2>1 DEF DeleteAt
  <1>7. ASSUME Clean'
        PROVE  At(r, "bury")' => Gone'
    <2> SUFFICES ASSUME l = "bury"
                 PROVE  Gone'
      BY <1>1 DEF At
    <2>1. rows' = {} /\ container' = "absent"
      BY <1>2, <1>5, <1>7 DEF IInv, DeleteInv, DeleteAt
    <2>2. ASSUME NEW b \in Actor, b # r
          PROVE  ~Holds(b)
      BY <1>2, <1>5, <1>7, <2>2 DEF IInv, AloneInv
    <2>3. ~Active(Provisioner)'
      <3>1. ~Holds(Provisioner) /\ go'[Provisioner] = go[Provisioner]
        BY <1>1, <1>2, <2>2 DEF Actor
      <3> QED
        BY <3>1 DEF Holds, Active, IInv, PathInv, ProvisionPath
    <2>4. ASSUME NEW q \in Request
          PROVE  go'[q].at \notin {"ports", "attach", "persist"}
      <3>1. CASE q = r
        BY <1>1, <3>1
      <3>2. CASE q # r
        <4>1. ~Holds(q) /\ go'[q] = go[q] /\ RequestPath(q)
          BY <1>1, <2>2, <3>2 DEF Actor, IInv, PathInv
        <4> QED
          BY <4>1 DEF Holds, Active, RequestPath, Exclusive
      <3> QED
        BY <3>1, <3>2
    <2> QED
      BY <2>1, <2>3, <2>4 DEF Gone
  <1>8. ASSUME Clean', status' = "deleted"
        PROVE  status = "deleted" \/ Gone'
    <2>1. CASE status' = status
      BY <1>8, <2>1
    <2>2. CASE go[r].at = "bury"
      <3>1. Gone
        BY <1>5, <1>8, <2>2 DEF IInv, DeleteInv, At
      <3> QED
        BY <1>1, <3>1 DEF Gone, Active, Actor
    <2> QED
      BY <1>8, <2>1, <2>2
  <1>9. At(Provisioner, "creating") =>
          container' = "absent" /\ status' \in {"pending", "deleting", "deleted"}
    BY DEF IInv, EarlyInv
  <1>10. Gone => container' = "absent" /\ rows' = {}
    BY DEF Gone
  <1>11. PasswordStep(r, l)
    BY <1>2 DEF PasswordStep
  <1>12. status' = status \/ status' \notin {"pending", "creating"}
    OBVIOUS
  <1> QED
    BY <1>1, <1>2, <1>3, <1>4, <1>6, <1>7, <1>8, <1>9, <1>10, <1>11, <1>12, StepInv

\* The deletion is announced.
LEMMA SetDeletingInv == ASSUME IInv, NEW r \in Request, SetDeleting(r) PROVE IInv'
  <1> USE DEF SetDeleting, At
  <1>1. /\ status' \in {"deleting", status} /\ password' = password /\ rows' = rows
        /\ diverged' = diverged
        /\ mishaps \subseteq mishaps' /\ mishaps' \subseteq Mishaps
    BY StatusStep DEF IInv, Status
  <1> QED
    BY <1>1, DeleteStep DEF incusVars

\* The mappings that were read are deleted, or some of them stay.
LEMMA RemovePortsInv == ASSUME IInv, NEW r \in Request, RemovePorts(r) PROVE IInv'
  <1> USE DEF RemovePorts, At
  <1>1. /\ mishaps \subseteq mishaps' /\ mishaps' \subseteq Mishaps /\ rows' \subseteq rows
        /\ Clean' => rows' = rows \ go[r].rows
    BY DEF IInv, TypeOK, Mishap, Mishaps, Clean
  <1> QED
    BY <1>1, DeleteStep DEF incusVars

\* The container is deleted, or stays.
LEMMA DeleteContainerInv == ASSUME IInv, NEW r \in Request, DeleteContainer(r) PROVE IInv'
  <1> USE DEF DeleteContainer, At
  <1>1. /\ mishaps \subseteq mishaps' /\ mishaps' \subseteq Mishaps
        /\ Clean' => container' = "absent"
        /\ \/ container' = container /\ guest' = guest /\ cloudInit' = cloudInit
           \/ container' = "absent" /\ guest' = NoPassword /\ cloudInit' = FALSE
    BY DEF IInv, TypeOK, Mishap, Mishaps, Clean, incusVars
  <1> QED
    BY <1>1, DeleteStep DEF dbVars

\* The row is marked as deleted.
LEMMA SoftDeleteInstanceInv ==
  ASSUME IInv, NEW r \in Request, SoftDeleteInstance(r) PROVE IInv'
  <1> USE DEF SoftDeleteInstance, At
  <1>1. /\ status' \in {"deleted", status} /\ password' = password /\ rows' = rows
        /\ diverged' = diverged
        /\ mishaps \subseteq mishaps' /\ mishaps' \subseteq Mishaps
    BY StatusStep DEF IInv, Status
  <1> QED
    BY <1>1, DeleteStep DEF incusVars

\* The guest shuts down: no invariant is about a running container.
LEMMA PowerOffInv == ASSUME IInv, PowerOff PROVE IInv'
  <1> USE DEF PowerOff, dbVars, history
  <1>1. TypeOK' /\ PathInv' /\ SyncInv' /\ AloneInv'
    BY DEF IInv, TypeOK, PathInv, ProvisionPath, RequestPath, Active, SyncInv, SyncAt, AloneInv,
           Holds
  <1>2. EarlyInv' /\ PasswordInv'
    BY DEF IInv, EarlyInv, PasswordInv, PasswordAt, At, Active
  <1>3. ~Gone
    BY DEF Gone
  <1>4. DeleteInv'
    BY <1>3 DEF IInv, DeleteInv, DeleteAt, Clean, At
  <1> QED
    BY <1>1, <1>2, <1>4 DEF IInv

\* cloud-init sets the first password, late: it is the stored one, or the two differ and
\* that is remembered.
LEMMA CloudInitInv == ASSUME IInv, CloudInit PROVE IInv'
  <1> USE DEF CloudInit, dbVars
  <1>1. TypeOK' /\ PathInv' /\ SyncInv' /\ AloneInv'
    BY DEF IInv, TypeOK, PathInv, ProvisionPath, RequestPath, Active, SyncInv, SyncAt, AloneInv,
           Holds, Password
  <1>2. EarlyInv'
    BY DEF IInv, EarlyInv, At
  <1>3. DeleteInv'
    <2>1. ~Gone
      BY DEF Gone
    <2> QED
      BY <2>1 DEF IInv, DeleteInv, DeleteAt, Clean, At
  <1>4. PasswordInv'
    <2> SUFFICES ASSUME "overlap" \notin mishaps
                 PROVE  PasswordInv'
      BY DEF PasswordInv
    <2>1. guest' # NoPassword
      BY PasswordsAreSet DEF Password
    <2>2. /\ Active(Provisioner) => password = Initial
          /\ \A r \in Request : PasswordAt(r) /\ (At(r, "store") => guest # NoPassword)
          /\ guest # NoPassword \/ password = Initial
      BY DEF IInv, PasswordInv
    <2>3. ASSUME ~diverged'
          PROVE  /\ \A r \in Request : At(r, "store") => guest' = r
                 /\ guest' = password \/ \E r \in Request : At(r, "store")
      <3>1. ~diverged /\ guest \in {NoPassword, Initial}
        BY <2>3 DEF IInv, TypeOK
      <3>2. /\ \A r \in Request : At(r, "store") => guest = r
            /\ guest \in {password, NoPassword} \/ \E r \in Request : At(r, "store")
        BY <3>1 DEF IInv, PasswordInv
      <3> QED
        BY <2>2, <3>1, <3>2
    <2> QED
      BY <2>1, <2>2, <2>3 DEF PasswordInv, PasswordAt, At, Active
  <1> QED
    BY <1>1, <1>2, <1>3, <1>4 DEF IInv

\* The server dies: nobody is under way any more, and what was half done stays so.
LEMMA CrashInv == ASSUME IInv, Crash PROVE IInv'
  <1> USE DEF Crash, dbVars, incusVars
  <1>1. Fresh("done", "get") \in Goroutine
    BY DEF Fresh, Goroutine, Location, Kind, Status, Password
  <1>2. /\ go' \in [Actor -> Goroutine]
        /\ \A a \in Actor : /\ go'[a].at \in {"idle", "done"}
                            /\ (go'[a].at = "idle" => go'[a] = go[a])
                            /\ (go'[a] = go[a] \/ (go'[a].kind = "get" /\ ~go'[a].reply
                                                   /\ go'[a].at = "done"))
    BY <1>1 DEF IInv, TypeOK, Active, Fresh
  <1>3. mishaps' = mishaps \cup {"crash"}
    BY DEF Mishap
  <1>4. TypeOK'
    BY <1>2, <1>3 DEF IInv, TypeOK, Mishaps, At
  <1>5. PathInv'
    <2>1. ProvisionPath'
      BY <1>2 DEF IInv, PathInv, ProvisionPath, Active, Actor
    <2>2. ASSUME NEW r \in Request
          PROVE  RequestPath(r)'
      <3>1. RequestPath(r) /\ r \in Actor
        BY DEF IInv, PathInv, Actor
      <3> QED
        BY <1>2, <3>1 DEF RequestPath, Kind
    <2> QED
      BY <2>1, <2>2 DEF PathInv
  <1>6. EarlyInv' /\ SyncInv' /\ AloneInv'
    BY <1>2 DEF EarlyInv, SyncInv, SyncAt, AloneInv, Holds, Active, At, Actor
  <1>7. PasswordInv'
    BY <1>2, <1>3 DEF IInv, PasswordInv, PasswordAt, Active, At, Actor
  <1>8. Gone => Gone'
    BY <1>2 DEF Gone, Active, Actor
  <1>9. DeleteInv'
    BY <1>2, <1>3, <1>8 DEF IInv, DeleteInv, DeleteAt, Clean, At, Actor
  <1> QED
    BY <1>4, <1>5, <1>6, <1>7, <1>9 DEF IInv

------------------------------------------------------------------------------

\* The row is inserted, the provisioner started, and nobody else.
LEMMA InitInv == Init => IInv
  <1> SUFFICES ASSUME Init
               PROVE  IInv
    OBVIOUS
  <1> USE DEF Init
  <1>1. /\ go[Provisioner].at = "creating" /\ go[Provisioner].kind = "provision"
        /\ go[Provisioner].password = Initial
        /\ \A r \in Request : go[r].at = "idle" /\ go[r].kind = "get" /\ ~go[r].reply
    BY DEF Fresh, Actor
  <1>2. TypeOK
    <2>1. Fresh("creating", "provision") \in Goroutine /\ Fresh("idle", "get") \in Goroutine
      BY DEF Fresh, Goroutine, Location, Kind, Status, Password
    <2> QED
      BY <2>1 DEF TypeOK, Status, Password
  <1>3. PathInv
    BY <1>1 DEF PathInv, ProvisionPath, RequestPath, Kind
  <1>4. EarlyInv /\ SyncInv
    BY <1>1 DEF EarlyInv, SyncInv, SyncAt
  <1>5. AloneInv
    BY <1>1 DEF AloneInv, Holds, Active, Actor
  <1>6. DeleteInv /\ PasswordInv
    BY <1>1 DEF DeleteInv, DeleteAt, PasswordInv, PasswordAt, At
  <1> QED
    BY <1>2, <1>3, <1>4, <1>5, <1>6 DEF IInv

\* Every step keeps the invariant.
LEMMA NextInv == IInv /\ [Next]_vars => IInv'
  <1> SUFFICES ASSUME IInv, [Next]_vars
               PROVE  IInv'
    OBVIOUS
  <1>1. CASE UNCHANGED vars
    BY <1>1 DEF vars, dbVars, incusVars, IInv, TypeOK, PathInv, ProvisionPath, RequestPath,
                Active, EarlyInv, SyncInv, SyncAt, AloneInv, Holds, DeleteInv, DeleteAt, Gone,
                Clean, PasswordInv, PasswordAt, At, history
  <1>2. ASSUME NEW a \in Actor, SharedStep(a)
        PROVE  IInv'
    BY <1>2, EnsureStartedInv, AddProxyDevicesInv, PersistPortsInv, SetGuestPasswordInv,
       SetStatusInv DEF SharedStep
  <1>3. CASE ProvisionStep
    BY <1>2, <1>3, SetCreatingInv, AllocateBlockInv, CreateContainerInv, FailInv
       DEF ProvisionStep, Actor
  <1>4. ASSUME NEW r \in Request, RequestStep(r)
        PROVE  IInv'
    BY <1>2, <1>4, ReadInstanceInv, ProbeStatusInv, SyncStatusInv, PowerContainerInv,
       ListPortsInv, UpdateRootPasswordInv, SetDeletingInv, RemovePortsInv, DeleteContainerInv,
       SoftDeleteInstanceInv DEF RequestStep, Actor
  <1>5. ASSUME NEW r \in Request, NEW k \in Kind, Receive(r, k)
        PROVE  IInv'
    BY <1>5, ReceiveInv
  <1>6. CASE PowerOff \/ CloudInit \/ Crash
    BY <1>6, PowerOffInv, CloudInitInv, CrashInv
  <1> QED
    BY <1>1, <1>3, <1>4, <1>5, <1>6 DEF Next

------------------------------------------------------------------------------
(***************************************************************************)
(* Theorems.                                                               *)
(***************************************************************************)

\* The invariant holds in every reachable state.
THEOREM Invariance == Spec => []IInv
  BY InitInv, NextInv, PTL DEF Spec

\* Type correctness: the status, the rows and every goroutine have their types.
THEOREM TypeCorrect == Spec => []TypeOK
  BY Invariance, PTL DEF IInv

\* syncStatusFromIncus never overwrites the status of an instance that is still being
\* provisioned, however long ago it decided to write and whatever happened since.
THEOREM Unpromoted == Spec => []NeverPromoted
  <1>1. IInv => NeverPromoted
    BY DEF IInv, SyncInv, SyncAt, NeverPromoted, At
  <1> QED
    BY <1>1, Invariance, PTL

\* An instance that counts as deleted has neither a container nor a mapping, unless a
\* removal failed or a request that needed the instance for itself did not have it.
THEOREM LeavesNothing == Spec => []NothingLeft
  <1>1. IInv => NothingLeft
    BY DEF IInv, DeleteInv, Clean, Gone, NothingLeft
  <1> QED
    BY <1>1, Invariance, PTL

\* The stored password opens the guest when nothing is under way.
THEOREM PasswordsAgree == Spec => []PasswordAgrees
  <1>1. IInv => PasswordAgrees
    BY DEF IInv, PasswordInv, PasswordAgrees, Quiet, Active, At, Actor
  <1> QED
    BY <1>1, Invariance, PTL
================================================================================
