-------------------------------- MODULE Startup --------------------------------
(***************************************************************************)
(* How the server comes up (runServe in cmd/goincus/main.go) and how it    *)
(* finds its storage pool and its network (internal/incusclient), at every *)
(* start and again for every container it creates.  The choice is kept in  *)
(* Client.cfg, which the provisioning goroutines read and write without a  *)
(* lock, and the pool is written back to the configuration file.  systemd  *)
(* starts the server again when it fails, but not when its listener does:  *)
(* runServe then ends as if it had been stopped.                           *)
(***************************************************************************)
EXTENDS Integers, Sequences

CONSTANTS
  Server,      \* the goroutine of runServe
  Request,     \* goroutines that create a container; each runs once
  Fallback,    \* the pool names goincus may create, in the order they are tried
  Default,     \* Incus' "default" pool, which goincus never creates
  Net,         \* managed networks, in the order Incus lists them
  Bridge,      \* those that are bridges, or are when goincus creates them
  Configured,  \* cfg.Incus.Network
  Versions,    \* migration files of the newest release
  Failures,    \* which external calls may fail
  MaxFaults    \* bound on the failed calls and crashes

Failure == {"connect", "isolate", "migrate", "lookup", "install", "createPool",
            "createNet", "profile", "save", "sync", "listen", "create", "crash"}

Elements(s) == {s[i] : i \in DOMAIN s}

Pool == Elements(Fallback) \cup {Default}

ASSUME StartupAssumption ==
  /\ Server \notin Request
  /\ Fallback \in Seq(Elements(Fallback)) /\ Fallback # <<>>
  /\ \A i, j \in DOMAIN Fallback : Fallback[i] = Fallback[j] => i = j
  /\ Default \notin Elements(Fallback)
  /\ Net \subseteq Nat /\ Bridge \subseteq Net /\ Configured \in Bridge
  /\ Versions \in Nat \ {0}
  /\ Failures \subseteq Failure
  /\ MaxFaults \in Nat

VARIABLES
  file,     \* storage_pool in the configuration file, or Torn
  pool,     \* Client.cfg.StoragePool
  net,      \* Client.cfg.Network
  pools,    \* Incus: the driver of each storage pool
  nets,     \* Incus: each network
  profile,  \* Incus: the network of the default profile's eth0
  guests,   \* Incus: the containers
  tools,    \* the tools of an isolating driver are installed on the host
  release,  \* how many migration files the installed release has
  applied,  \* the migrations the schema has seen, in order
  recorded, \* schema_migrations
  tx,       \* what the open transaction has executed
  pc,       \* where each goroutine is
  todo,     \* pool names a goroutine has still to try
  want,     \* the network a goroutine is busy with, or has the address from
  faults,   \* failures and crashes so far
  misled    \* history: a failed lookup hid a pool or a network that exists, or a
            \* choice of pool could not be saved

hostVars == <<pools, nets, profile, guests, tools>>
dbVars   == <<release, applied, recorded, tx>>
goVars   == <<todo, want>>
cfgVars  == <<file, pool, net>>
vars == <<cfgVars, hostVars, dbVars, pc, goVars, faults, misled>>

------------------------------------------------------------------------------
Actor == Request \cup {Server}

Torn == "torn"

Driver == {"none", "plain", "isolating"}

Guest == [pool : Pool, net : Net, addr : Net]

Location == {"idle", "done", "down", "ended", "migrate", "commit", "connect", "isolate",
             "unprivileged", "pool", "install", "try", "make", "network", "others",
             "makeNet", "harden", "profile", "save", "write", "sync", "serving",
             "address", "create"}

TypeOK ==
  /\ file \in Pool \cup {Torn}
  /\ pool \in Pool
  /\ net \in Net
  /\ pools \in [Pool -> Driver]
  /\ nets \in [Net -> {"none", "bare", "nat"}]
  /\ profile \in Net
  /\ guests \subseteq Guest
  /\ tools \in BOOLEAN
  /\ release \in 1..Versions
  /\ applied \in Seq(1..Versions)
  /\ recorded \subseteq 1..Versions
  /\ tx \in Seq(1..Versions)
  /\ pc \in [Actor -> Location]
  /\ todo \in [Actor -> Seq(Elements(Fallback))]
  /\ want \in [Actor -> Net]
  /\ faults \in 0..MaxFaults
  /\ misled \in BOOLEAN

\* Any configured pool; any pools and networks that Incus has already.
Init ==
  /\ file \in Pool
  /\ pool = file
  /\ net = Configured
  /\ pools \in [Pool -> Driver] /\ pools[Default] # "none"
  /\ nets \in [Net -> {"none", "bare"}]
  /\ profile \in Net
  /\ guests = {}
  /\ tools = FALSE
  /\ release \in 1..Versions
  /\ applied = <<>>
  /\ recorded = {}
  /\ tx = <<>>
  /\ pc = [a \in Actor |-> IF a = Server THEN "down" ELSE "idle"]
  /\ todo = [a \in Actor |-> <<>>]
  /\ want = [a \in Actor |-> Configured]
  /\ faults = 0
  /\ misled = FALSE

Goto(a, l) == pc' = [pc EXCEPT ![a] = l]

Ok == UNCHANGED <<faults, misled>>

Fault(f) ==
  /\ f \in Failures
  /\ faults < MaxFaults
  /\ faults' = faults + 1

\* Mistaken variant of GiveUp: runServe waits for its context instead of returning 1.
GiveUpWaiting(a) == Goto(a, "done")

\* runServe exits; CreateContainer returns the error.
GiveUp(a) == Goto(a, IF a = Server THEN "down" ELSE "done")

\* The call f works and l is next, or it fails and everything ends here.
Attempt(a, f, l) ==
  \/ Goto(a, l) /\ Ok
  \/ Fault(f) /\ GiveUp(a) /\ UNCHANGED misled

------------------------------------------------------------------------------
(***************************************************************************)
(* runServe: load, migrate, connect.                                       *)
(***************************************************************************)

\* Mistaken variant of Load: the configuration is not validated.
LoadUnchecked ==
  /\ pc[Server] = "down"
  /\ pool' = file
  /\ net' = Configured
  /\ Goto(Server, "migrate")
  /\ Ok
  /\ UNCHANGED <<file, hostVars, dbVars, goVars>>

\* config.Load; a file that was cut short has no API keys and is refused.
Load ==
  /\ pc[Server] = "down"
  /\ file # Torn
  /\ pool' = file
  /\ net' = Configured
  /\ Goto(Server, "migrate")
  /\ Ok
  /\ UNCHANGED <<file, hostVars, dbVars, goVars>>

\* A newer release is installed while the server is down.
Upgrade ==
  /\ pc[Server] = "down"
  /\ release < Versions
  /\ release' = release + 1
  /\ Ok
  /\ UNCHANGED <<cfgVars, hostVars, applied, recorded, tx, pc, goVars>>

\* The first file that schema_migrations does not list.
Pending(v) ==
  /\ v \in (1..release) \ recorded
  /\ \A w \in (1..release) \ recorded : v <= w

\* Mistaken variant of ApplyMigration: the file is executed outside a transaction.
ApplyMigrationDirect ==
  /\ pc[Server] = "migrate"
  /\ \/ \E v \in 1..release : /\ Pending(v)
                              /\ applied' = Append(applied, v)
                              /\ Goto(Server, "commit")
     \/ recorded = 1..release /\ Goto(Server, "connect") /\ UNCHANGED applied
  /\ Ok
  /\ UNCHANGED <<cfgVars, hostVars, release, recorded, tx, goVars>>

\* The file is executed in a transaction, which an error rolls back; when no file
\* is pending, Migrate is done.
ApplyMigration ==
  /\ pc[Server] = "migrate"
  /\ \/ \E v \in 1..release : Pending(v) /\ tx' = <<v>> /\ Goto(Server, "commit") /\ Ok
     \/ recorded = 1..release /\ Goto(Server, "connect") /\ Ok /\ UNCHANGED tx
     \/ Fault("migrate") /\ GiveUp(Server) /\ UNCHANGED <<tx, misled>>
  /\ UNCHANGED <<cfgVars, hostVars, release, applied, recorded, goVars>>

\* INSERT INTO schema_migrations and COMMIT: both or neither.
CommitMigration ==
  /\ pc[Server] = "commit"
  /\ \/ /\ \E v \in 1..release : Pending(v) /\ recorded' = recorded \cup {v}
        /\ applied' = applied \o tx
        /\ Goto(Server, "migrate")
        /\ Ok
     \/ Fault("migrate") /\ GiveUp(Server) /\ UNCHANGED <<applied, recorded, misled>>
  /\ tx' = <<>>
  /\ UNCHANGED <<cfgVars, hostVars, release, goVars>>

\* Redis and the Incus socket.
ConnectServices ==
  /\ pc[Server] = "connect"
  /\ Attempt(Server, "connect", "isolate")
  /\ UNCHANGED <<cfgVars, hostVars, dbVars, goVars>>

\* subuid, subgid and sysctl files of the host: only the id map's error counts.
EnsureHostIsolation ==
  /\ pc[Server] = "isolate"
  /\ Attempt(Server, "isolate", "unprivileged")
  /\ UNCHANGED <<cfgVars, hostVars, dbVars, goVars>>

\* The profile of the containers is brought up to date.
EnsureUnprivilegedProfile ==
  /\ pc[Server] = "unprivileged"
  /\ Attempt(Server, "profile", "pool")
  /\ UNCHANGED <<cfgVars, hostVars, dbVars, goVars>>

------------------------------------------------------------------------------
(***************************************************************************)
(* EnsureInfrastructure: EnsureStoragePool.                                *)
(***************************************************************************)

\* CreateContainer begins.
Receive(r) ==
  /\ pc[r] = "idle"
  /\ pc[Server] = "serving"
  /\ Goto(r, "pool")
  /\ Ok
  /\ UNCHANGED <<cfgVars, hostVars, dbVars, goVars>>

\* A lookup that fails looks like "there is none".
LookupFails(exists) == Fault("lookup") /\ misled' = (misled \/ exists)

\* uniquePoolNames: the configured pool first, "default" left out.
Names(wanted) ==
  LET i == CHOOSE i \in DOMAIN Fallback : Fallback[i] = wanted
  IN  IF wanted = Default THEN Fallback
      ELSE <<wanted>> \o SubSeq(Fallback, 1, i - 1)
                      \o SubSeq(Fallback, i + 1, Len(Fallback))

FindPool(a) ==
  /\ pc[a] = "pool"
  /\ \/ pools[pool] = "isolating" /\ Goto(a, "network") /\ Ok /\ UNCHANGED todo
     \/ /\ (pools[pool] # "isolating" /\ Ok) \/ LookupFails(pools[pool] # "none")
        /\ todo' = [todo EXCEPT ![a] = Names(pool)]
        /\ Goto(a, "install")
  /\ UNCHANGED <<cfgVars, hostVars, dbVars, want>>

\* An error is logged.
EnsureStorageHostPackages(a) ==
  /\ pc[a] = "install"
  /\ \/ tools' = TRUE /\ Ok
     \/ Fault("install") /\ UNCHANGED <<tools, misled>>
  /\ Goto(a, "try")
  /\ UNCHANGED <<cfgVars, pools, nets, profile, guests, dbVars, goVars>>

NextName(a) == todo' = [todo EXCEPT ![a] = Tail(@)]

\* The next name: taken if its pool isolates, skipped if it does not, created if
\* there seems to be none.
EnsureQuotaCapablePool(a) ==
  LET p == Head(todo[a]) IN
  /\ pc[a] = "try"
  /\ \/ todo[a] = <<>> /\ GiveUp(a) /\ Ok /\ UNCHANGED <<pool, todo>>
     \/ /\ todo[a] # <<>>
        /\ \/ /\ pools[p] = "isolating"
              /\ pool' = p
              /\ todo' = [todo EXCEPT ![a] = <<>>]
              /\ Goto(a, "network")
              /\ Ok
           \/ pools[p] = "plain" /\ NextName(a) /\ Ok /\ UNCHANGED <<pool, pc>>
           \/ /\ (pools[p] = "none" /\ Ok) \/ LookupFails(pools[p] # "none")
              /\ Goto(a, "make")
              /\ UNCHANGED <<pool, todo>>
  /\ UNCHANGED <<file, net, hostVars, dbVars, want>>

\* Refused by Incus when the name is taken.
CreateQuotaStoragePool(a) ==
  LET p == Head(todo[a]) IN
  /\ pc[a] = "make"
  /\ \/ /\ tools /\ pools[p] = "none"
        /\ pools' = [pools EXCEPT ![p] = "isolating"]
        /\ pool' = p
        /\ todo' = [todo EXCEPT ![a] = <<>>]
        /\ Goto(a, "network")
        /\ Ok
     \/ /\ \/ (~tools \/ pools[p] # "none") /\ Ok
           \/ Fault("createPool") /\ UNCHANGED misled
        /\ NextName(a)
        /\ Goto(a, "try")
        /\ UNCHANGED <<pools, pool>>
  /\ UNCHANGED <<file, net, nets, profile, guests, tools, dbVars, want>>

------------------------------------------------------------------------------
(***************************************************************************)
(* EnsureInfrastructure: EnsureNetwork, HardenNetwork and                  *)
(* alignDefaultProfileNetwork.                                             *)
(***************************************************************************)

Exists(n) == nets[n] # "none"

GetNetwork(a) ==
  /\ pc[a] = "network"
  /\ want' = [want EXCEPT ![a] = net]
  /\ \/ Exists(net) /\ Goto(a, "harden") /\ Ok
     \/ ((~Exists(net) /\ Ok) \/ LookupFails(Exists(net))) /\ Goto(a, "others")
  /\ UNCHANGED <<cfgVars, hostVars, dbVars, todo>>

\* Bridges come first, and then the order in which Incus lists the networks.
Preferred(n, m) == IF n \in Bridge <=> m \in Bridge THEN n <= m ELSE n \in Bridge

\* The first managed bridge Incus lists, or else the first managed network.
GetNetworks(a) ==
  /\ pc[a] = "others"
  /\ \/ \E n \in Net :
          /\ Exists(n)
          /\ \A m \in Net : Exists(m) => Preferred(n, m)
          /\ want' = [want EXCEPT ![a] = n]
          /\ Goto(a, "harden")
          /\ Ok
     \/ /\ \/ (\A n \in Net : ~Exists(n)) /\ Ok
           \/ LookupFails(\E n \in Net : Exists(n))
        /\ Goto(a, "makeNet")
        /\ UNCHANGED want
  /\ UNCHANGED <<cfgVars, hostVars, dbVars, todo>>

CreateNetwork(a) ==
  /\ pc[a] = "makeNet"
  /\ \/ /\ ~Exists(want[a])
        /\ nets' = [nets EXCEPT ![want[a]] = "nat"]
        /\ Goto(a, "harden")
        /\ Ok
     \/ /\ (Exists(want[a]) /\ Ok) \/ (Fault("createNet") /\ UNCHANGED misled)
        /\ GiveUp(a)
        /\ UNCHANGED nets
  /\ UNCHANGED <<cfgVars, pools, profile, guests, tools, dbVars, goVars>>

\* EnsureNetwork drops HardenNetwork's error; the network becomes the client's.
HardenNetwork(a) ==
  /\ pc[a] = "harden"
  /\ \/ nets' = [nets EXCEPT ![want[a]] = "nat"] /\ Ok
     \/ Fault("lookup") /\ UNCHANGED <<nets, misled>>
  /\ net' = want[a]
  /\ Goto(a, "profile")
  /\ UNCHANGED <<file, pool, pools, profile, guests, tools, dbVars, goVars>>

\* A failed GetProfile skips the update, a refused UpdateProfile is an error.
AlignDefaultProfile(a) ==
  LET l == IF a = Server THEN "save" ELSE "address" IN
  /\ pc[a] = "profile"
  /\ \/ profile' = want[a] /\ Goto(a, l) /\ Ok
     \/ /\ Fault("profile")
        /\ Goto(a, l) \/ GiveUp(a)
        /\ UNCHANGED <<profile, misled>>
  /\ UNCHANGED <<cfgVars, pools, nets, guests, tools, dbVars, goVars>>

------------------------------------------------------------------------------
(***************************************************************************)
(* The rest of runServe, and of CreateContainer.                           *)
(***************************************************************************)

\* Mistaken variant of SaveConfig: the pool that was chosen is not kept.
SaveConfigSkipped ==
  /\ pc[Server] = "save"
  /\ Goto(Server, "sync")
  /\ Ok
  /\ UNCHANGED <<cfgVars, hostVars, dbVars, goVars>>

\* A failure of config.Save is logged, and the server goes on.
SaveFails ==
  /\ Fault("save")
  /\ misled' = TRUE
  /\ Goto(Server, "sync")
  /\ UNCHANGED file

\* config.Save when the pool is another one: os.WriteFile truncates the file, unless
\* it cannot be opened ...
SaveConfig ==
  /\ pc[Server] = "save"
  /\ \/ pool = file /\ Goto(Server, "sync") /\ Ok /\ UNCHANGED file
     \/ pool # file /\ file' = Torn /\ Goto(Server, "write") /\ Ok
     \/ pool # file /\ SaveFails
  /\ UNCHANGED <<pool, net, hostVars, dbVars, goVars>>

\* ... and then writes it, all of it (it is one block) or nothing.
WriteConfig ==
  /\ pc[Server] = "write"
  /\ \/ file' = pool /\ Goto(Server, "sync") /\ Ok
     \/ SaveFails
  /\ UNCHANGED <<pool, net, hostVars, dbVars, goVars>>

\* Allocator.Sync, then the router, the background jobs and the listener are started.
Serve ==
  /\ pc[Server] = "sync"
  /\ Attempt(Server, "sync", "serving")
  /\ UNCHANGED <<cfgVars, hostVars, dbVars, goVars>>

\* The process ends, with its goroutines; an open transaction is rolled back.
End(l) ==
  /\ pc' = [a \in Actor |-> IF a = Server THEN l
                            ELSE IF pc[a] = "idle" THEN "idle" ELSE "done"]
  /\ todo' = [a \in Actor |-> <<>>]
  /\ tx' = <<>>
  /\ UNCHANGED <<cfgVars, hostVars, release, applied, recorded, want, misled>>

\* ListenAndServe returns an error, which is logged and cancels the context: runServe
\* returns 0, or 1 when Shutdown fails too.
ListenFails ==
  /\ pc[Server] = "serving"
  /\ Fault("listen")
  /\ End("ended") \/ End("down")

\* AllocateContainerIPv4: an address of the client's network, which must have a
\* usable prefix.
AllocateContainerIPv4(r) ==
  /\ pc[r] = "address"
  /\ \/ /\ Exists(net)
        /\ nets' = [nets EXCEPT ![net] = "nat"]
        /\ want' = [want EXCEPT ![r] = net]
        /\ Goto(r, "create")
        /\ Ok
     \/ Fault("lookup") /\ GiveUp(r) /\ UNCHANGED <<nets, want, misled>>
  /\ UNCHANGED <<cfgVars, pools, profile, guests, tools, dbVars, todo>>

\* The NIC and the root disk are built from Client.cfg as it is now.
CreateContainer(r) ==
  /\ pc[r] = "create"
  /\ \/ guests' = guests \cup {[pool |-> pool, net |-> net, addr |-> want[r]]} /\ Ok
     \/ Fault("create") /\ UNCHANGED <<guests, misled>>
  /\ Goto(r, "done")
  /\ UNCHANGED <<cfgVars, pools, nets, profile, tools, dbVars, goVars>>

\* The process dies.
Crash ==
  /\ pc[Server] \notin {"down", "ended"}
  /\ Fault("crash")
  /\ End("down")

\* The operator starts a server that has ended.
Restart ==
  /\ pc[Server] = "ended"
  /\ Goto(Server, "down")
  /\ Ok
  /\ UNCHANGED <<cfgVars, hostVars, dbVars, goVars>>

EnsureInfrastructure(a) ==
  \/ FindPool(a)                 \/ EnsureStorageHostPackages(a)
  \/ EnsureQuotaCapablePool(a)   \/ CreateQuotaStoragePool(a)
  \/ GetNetwork(a)               \/ GetNetworks(a)
  \/ CreateNetwork(a)            \/ HardenNetwork(a)
  \/ AlignDefaultProfile(a)

RunServe ==
  \/ Load        \/ ApplyMigration \/ CommitMigration \/ ConnectServices
  \/ EnsureHostIsolation           \/ EnsureUnprivilegedProfile
  \/ EnsureInfrastructure(Server)
  \/ SaveConfig  \/ WriteConfig    \/ Serve

Provision(r) ==
  \/ Receive(r)               \/ EnsureInfrastructure(r)
  \/ AllocateContainerIPv4(r) \/ CreateContainer(r)

Next ==
  \/ RunServe
  \/ \E r \in Request : Provision(r)
  \/ Upgrade
  \/ ListenFails
  \/ Crash
  \/ Restart

Spec == Init /\ [][Next]_vars

\* runServe goes on until it serves or exits, and systemd starts it again after an
\* exit with a status other than 0 (Restart=on-failure).  Nobody has to start it again
\* once it has ended with 0.
FairSpec == Spec /\ WF_vars(RunServe)

------------------------------------------------------------------------------
(***************************************************************************)
(* Properties.                                                             *)
(***************************************************************************)

Serving == pc[Server] = "serving"

\* Every migration is executed once, in order, and all of them before a request
\* is served, however often the server died or failed on the way.
MigratedInOrder ==
  /\ \A i \in DOMAIN applied : applied[i] = i
  /\ Serving => Len(applied) = release

\* Every container has a disk of its own: its root disk is on a pool that isolates
\* it, whichever lookups failed and however creations raced.
DiskIsolated == \A g \in guests : pools[g.pool] = "isolating"

\* A container's address belongs to its network, and the containers share one
\* pool and one network across restarts, unless a failed lookup hid one of them or
\* the chosen pool could not be saved.
OneHome ==
  ~misled => /\ \A g \in guests : g.addr = g.net
             /\ \A g, h \in guests : g.pool = h.pool /\ g.net = h.net

\* Where containers live, across restarts, failures and concurrent creations: on disks of
\* their own, and together.
WellPlaced == DiskIsolated /\ OneHome

\* The server comes up again after every failure and every crash if one of the
\* pool names can be used, unless its configuration file was left empty, by a crash or
\* a failure between config.Save's truncation and its write, or its listener failed and
\* nobody started it again.
ComesUp ==
  (\E p \in Elements(Fallback) : pools[p] # "plain")
    => \/ []<>Serving
       \/ <>[](file = Torn /\ pc[Server] = "down")
       \/ <>[](pc[Server] = "ended")
================================================================================
