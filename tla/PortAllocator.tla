---------------------------- MODULE PortAllocator ----------------------------
(***************************************************************************)
(* The host-port allocator (internal/ports/allocator.go) together with the *)
(* handlers of internal/service/service.go that call it.  A port is        *)
(* reserved by a member of the Redis set "ports:allocated" (marked),       *)
(* becomes a mapping by a row of the Postgres table port_mappings (rows),  *)
(* and is given back by SREM, before its row is deleted.                   *)
(*                                                                         *)
(* An operation o \in Op is one request served by one goroutine: it runs   *)
(* once.  Every call to Redis, Postgres or Incus is a step of its own, so  *)
(* that requests interleave the way goroutines do.                         *)
(***************************************************************************)
EXTENDS Integers, FiniteSets

CONSTANTS
  RangeStart, RangeEnd,  \* cfg.Ports.HostRangeStart, cfg.Ports.HostRangeEnd
  BlockSize,             \* cfg.Ports.PortsPerInstance
  Op,                    \* requests
  NoOp,                  \* the mutex is free
  Inst,                  \* instance ids
  Existing,              \* instances that exist, without mappings, at first
  Kinds,                 \* which requests the clients send
  Failures,              \* which external calls may fail
  MaxCrashes             \* bound on the restarts of the server

Kind    == {"provision", "start", "add", "remove", "delete"}
Failure == {"redis", "incus", "dbRead", "addRow", "releaseList", "delRow"}
Proto   == {"tcp", "udp"}

ASSUME RangeAssumption ==
  /\ RangeStart \in Nat
  /\ RangeEnd \in Nat
  /\ RangeStart <= RangeEnd
  /\ BlockSize \in Nat \ {0}

ASSUME RequestAssumption ==
  /\ NoOp \notin Op
  /\ Kinds \subseteq Kind
  /\ Failures \subseteq Failure
  /\ Inst # {}
  /\ Existing \subseteq Inst
  /\ MaxCrashes \in Nat

VARIABLES
  up,        \* the server process is running
  crashes,   \* how often it has crashed
  mu,        \* Allocator.mu: the operation that holds it, or NoOp
  lock,      \* the Redis key lock:port-alloc exists
  marked,    \* the Redis set ports:allocated
  rows,      \* the table port_mappings
  table,     \* the table instances: no row, a live row, a soft-deleted row
  pc,        \* where each operation is
  req,       \* what each operation was asked to do
  start,     \* first port of the block it looks at
  n,         \* ports of that block it has checked, or marked
  snap,      \* its copy of ListUsedHostPorts; later, of its instance's ports
  held,      \* ports it has reserved and not yet stored or given back
  rel,       \* ports it has still to give back
  todo,      \* rows it has still to remove
  draining,  \* the row whose mark it has removed and which it deletes next
  upset      \* history: what has happened of Upset

redisVars == <<lock, marked>>
dbVars    == <<rows, table>>
scanVars  == <<start, n, snap>>
ownVars   == <<held, rel, todo, draining>>
vars == <<up, crashes, upset, mu, redisVars, dbVars, pc, req, scanVars, ownVars>>

------------------------------------------------------------------------------
Port == RangeStart..RangeEnd

\* Ports a client may name; Reserve refuses the ones outside the range.
Asked == (RangeStart - 1)..(RangeEnd + 1)

\* A mapping row; "by" tells rows with different ids apart.
Row == [port : Port, proto : Proto, inst : Inst, by : Op]

Plan == {"scan", "fixed", "prefer"}

Request == [kind : Kind, inst : Inst, proto : Proto, plan : Plan]

NoRequest == CHOOSE r \in Request : TRUE

Location == {"idle", "lock", "acquire", "list", "scan", "mark", "rollback",
             "unlockOk", "unlockErr", "attach", "commit", "cleanup", "release",
             "unmarkRow", "delRow", "softDelete", "done"}

\* Locations in which the operation is inside Allocator.mu.
Critical == {"acquire", "list", "scan", "mark", "rollback",
             "unlockOk", "unlockErr"}

\* What exclusive ports do not survive: a removal of rows that another request
\* removes too, or whose own request is still under way; a port given back though
\* its mapping is stored; a mapping that has lost its mark and keeps its row.
Clash == {"raced", "stored", "lost"}

\* What leaves a mark behind until Sync: a call to Redis whose outcome is not
\* known, and a reserved port that its owner leaves to a row it did not store
\* itself, by not adding one (skipped) or by not giving the port back (spared).
Leak == {"unsure", "skipped", "spared"}

Upset == Clash \cup Leak

Note(what, when) == upset' = upset \cup (IF when THEN {what} ELSE {})

Active(o) == pc[o] \notin {"idle", "done"}

\* The number of ports the request is for: AllocateBlock's size, 1 for Reserve.
Size(o) == IF req[o].kind \in {"provision", "start"} THEN BlockSize ELSE 1

\* AllocateBlock's lastStart.
LastStart(o) == RangeEnd - Size(o) + 1

Block(o) == start[o]..(start[o] + Size(o) - 1)

UsedHostPorts == {r.port : r \in {x \in rows : table[x.inst] = "active"}}

MayFail(f) == f \in Failures

TypeOK ==
  /\ up \in BOOLEAN
  /\ crashes \in 0..MaxCrashes
  /\ mu \in Op \cup {NoOp}
  /\ lock \in BOOLEAN
  /\ marked \subseteq Port
  /\ rows \subseteq Row
  /\ table \in [Inst -> {"none", "active", "deleted"}]
  /\ pc \in [Op -> Location]
  /\ req \in [Op -> Request]
  /\ start \in [Op -> Asked]
  /\ n \in [Op -> 0..BlockSize]
  /\ snap \in [Op -> SUBSET Port]
  /\ held \in [Op -> SUBSET Port]
  /\ rel \in [Op -> SUBSET Port]
  /\ todo \in [Op -> SUBSET Row]
  /\ draining \in [Op -> SUBSET Row]
  /\ upset \subseteq Upset

Init ==
  /\ up = TRUE
  /\ crashes = 0
  /\ mu = NoOp
  /\ lock = FALSE
  /\ marked = {}
  /\ rows = {}
  /\ table = [i \in Inst |-> IF i \in Existing THEN "active" ELSE "none"]
  /\ pc = [o \in Op |-> "idle"]
  /\ req = [o \in Op |-> NoRequest]
  /\ start = [o \in Op |-> RangeStart]
  /\ n = [o \in Op |-> 0]
  /\ snap = [o \in Op |-> {}]
  /\ held = [o \in Op |-> {}]
  /\ rel = [o \in Op |-> {}]
  /\ todo = [o \in Op |-> {}]
  /\ draining = [o \in Op |-> {}]
  /\ upset = {}

Goto(o, l) == pc' = [pc EXCEPT ![o] = l]

------------------------------------------------------------------------------
(***************************************************************************)
(* Requests that need ports.                                               *)
(***************************************************************************)

\* The request is accepted and is about to call the allocator with plan, from
\* port p on.
Ask(o, kind, i, proto, plan, p) ==
  /\ up
  /\ pc[o] = "idle"
  /\ kind \in Kinds
  /\ req' = [req EXCEPT ![o] = [kind |-> kind, inst |-> i,
                                proto |-> proto, plan |-> plan]]
  /\ start' = [start EXCEPT ![o] = p]
  /\ Goto(o, "lock")
  /\ UNCHANGED <<up, crashes, upset, mu, redisVars, rows, n, snap, ownVars>>

\* CreateInstance inserts the row and starts provision.
Provision(o, i) ==
  /\ table[i] = "none"
  /\ table' = [table EXCEPT ![i] = "active"]
  /\ Ask(o, "provision", i, "tcp", "scan", RangeStart)

\* StartInstance of an instance that has no mapping: ensurePortBlock.
Start(o, i) ==
  /\ table[i] = "active"
  /\ \A r \in rows : r.inst # i
  /\ Ask(o, "start", i, "tcp", "scan", RangeStart)
  /\ UNCHANGED table

\* Mistaken variant of AddFixed: Reserve without its range check.
AddFixedUnchecked(o, i, proto, p) ==
  /\ table[i] = "active"
  /\ Ask(o, "add", i, proto, "fixed", p)
  /\ UNCHANGED table

\* AddPortMapping with a host port, and each fill port of ensurePortBlock.
\* Reserve refuses a port outside the range before it takes the mutex.
AddFixed(o, i, proto, p) ==
  /\ table[i] = "active"
  /\ p \in Port
  /\ Ask(o, "add", i, proto, "fixed", p)
  /\ UNCHANGED table

\* AddPortMapping without a host port: Reserve(internal port), else Allocate.
AddAny(o, i, proto, p) ==
  /\ table[i] = "active"
  /\ \/ p \in Port /\ Ask(o, "add", i, proto, "prefer", p)
     \/ p \notin Port /\ Ask(o, "add", i, proto, "scan", RangeStart)
  /\ UNCHANGED table

------------------------------------------------------------------------------
(***************************************************************************)
(* AllocateBlock and Reserve.  Reserve(p) is the scan that looks at p only.*)
(***************************************************************************)

\* Mistaken variant of LockMutex: the Redis lock alone, which may expire.
LockMutexBarging(o) ==
  /\ pc[o] = "lock"
  /\ mu' = o
  /\ Goto(o, "acquire")
  /\ UNCHANGED <<up, crashes, upset, redisVars, dbVars, req, scanVars, ownVars>>

\* a.mu.Lock()
LockMutex(o) ==
  /\ pc[o] = "lock"
  /\ mu = NoOp
  /\ mu' = o
  /\ Goto(o, "acquire")
  /\ UNCHANGED <<up, crashes, upset, redisVars, dbVars, req, scanVars, ownVars>>

\* Mistaken variant of GiveUp: an early return that forgets mu.Unlock.
GiveUpLocked(o) ==
  /\ UNCHANGED <<mu, table>>
  /\ snap' = [snap EXCEPT ![o] = {}]
  /\ n' = [n EXCEPT ![o] = 0]
  /\ start' = [start EXCEPT ![o] = RangeStart]
  /\ req' = [req EXCEPT ![o] = NoRequest]
  /\ Goto(o, "done")

\* The allocator returns an error: the caller gives up, except AddPortMapping
\* without a host port, which goes on from Reserve to Allocate.  provision sets
\* the status error, also of a row that was soft-deleted meanwhile.
GiveUp(o) ==
  /\ mu' = NoOp
  /\ snap' = [snap EXCEPT ![o] = {}]
  /\ n' = [n EXCEPT ![o] = 0]
  /\ start' = [start EXCEPT ![o] = RangeStart]
  /\ IF req[o].plan = "prefer"
       THEN /\ req' = [req EXCEPT ![o].plan = "scan"]
            /\ Goto(o, "lock")
       ELSE /\ req' = [req EXCEPT ![o] = NoRequest]
            /\ Goto(o, "done")
  /\ IF req[o].kind = "provision"
       THEN table' = [table EXCEPT ![req[o].inst] = "active"]
       ELSE UNCHANGED table

\* redis.AcquireLock: SET NX with a TTL.  "Busy" and an error both leave the
\* deferred ReleaseLock unregistered.
AcquireLock(o) ==
  /\ pc[o] = "acquire"
  /\ \/ /\ ~lock
        /\ lock' = TRUE
        /\ Goto(o, "list")
        /\ UNCHANGED <<mu, table, req, scanVars>>
     \/ /\ lock \/ MayFail("redis")
        /\ GiveUp(o)
        /\ UNCHANGED lock
  /\ UNCHANGED <<up, crashes, upset, marked, rows, ownVars>>

\* store.ListUsedHostPorts, and the loop bound: no block fits in a range
\* shorter than the block.
ListUsedHostPorts(o) ==
  /\ pc[o] = "list"
  /\ snap' = [snap EXCEPT ![o] = UsedHostPorts]
  /\ \/ start[o] <= LastStart(o) /\ Goto(o, "scan")
     \/ (start[o] > LastStart(o) \/ MayFail("dbRead")) /\ Goto(o, "unlockErr")
  /\ UNCHANGED <<up, crashes, upset, mu, redisVars, dbVars, req, start, n, ownVars>>

\* Mistaken variant of IsFree: Postgres only, no reservation in flight is seen.
IsFreeByTable(o, p) == p \notin snap[o]

\* Another one: only the first port of a block is looked up.
IsFreeFirst(o, p) == p # start[o] \/ (p \notin snap[o] /\ p \notin marked)

IsFree(o, p) == p \notin snap[o] /\ p \notin marked

\* One isFree call of the first-fit scan.
Scan(o) ==
  LET p == start[o] + n[o] IN
  /\ pc[o] = "scan"
  /\ \/ /\ IsFree(o, p)
        /\ n[o] + 1 < Size(o)
        /\ n' = [n EXCEPT ![o] = @ + 1]
        /\ UNCHANGED <<pc, start>>
     \/ /\ IsFree(o, p)
        /\ n[o] + 1 = Size(o)
        /\ n' = [n EXCEPT ![o] = 0]
        /\ Goto(o, "mark")
        /\ UNCHANGED start
     \/ /\ ~IsFree(o, p)
        /\ req[o].plan = "scan"
        /\ start[o] < LastStart(o)
        /\ start' = [start EXCEPT ![o] = @ + 1]
        /\ n' = [n EXCEPT ![o] = 0]
        /\ UNCHANGED pc
     \/ /\ \/ ~IsFree(o, p) /\ (req[o].plan # "scan" \/ start[o] >= LastStart(o))
           \/ p \notin snap[o] /\ MayFail("redis")
        /\ Goto(o, "unlockErr")
        /\ UNCHANGED <<n, start>>
  /\ UNCHANGED <<up, crashes, upset, mu, redisVars, dbVars, req, snap, ownVars>>

\* redis.MarkPortAllocated for the next port of the block.  A call that fails
\* may or may not have reached Redis; the caller never learns which.
MarkPortAllocated(o) ==
  LET p == start[o] + n[o] IN
  /\ pc[o] = "mark"
  /\ \/ /\ marked' = marked \cup {p}
        /\ held' = [held EXCEPT ![o] = @ \cup {p}]
        /\ n' = [n EXCEPT ![o] = @ + 1]
        /\ IF n[o] + 1 = Size(o) THEN Goto(o, "unlockOk") ELSE UNCHANGED pc
        /\ UNCHANGED <<rel, upset>>
     \/ /\ MayFail("redis")
        /\ marked' \in {marked, marked \cup {p}}
        /\ Note("unsure", p \in marked')
        /\ rel' = [rel EXCEPT ![o] = held[o]]
        /\ Goto(o, "rollback")
        /\ UNCHANGED <<held, n>>
  /\ UNCHANGED <<up, crashes, mu, lock, dbVars, req, start, snap, todo, draining>>

\* redis.ReleasePort; its error is ignored.
Unmark(p) ==
  \/ marked' = marked \ {p} /\ UNCHANGED upset
  \/ MayFail("redis") /\ marked' = marked /\ Note("unsure", p \in marked)

\* Next port to give back.
ReleasePort(o) ==
  \E p \in rel[o] :
    /\ \A q \in rel[o] : p <= q
    /\ Unmark(p)
    /\ rel' = [rel EXCEPT ![o] = @ \ {p}]
    /\ held' = [held EXCEPT ![o] = @ \ {p}]

\* The loop that releases the ports marked before a MarkPortAllocated failed.
Rollback(o) ==
  /\ pc[o] = "rollback"
  /\ \/ ReleasePort(o) /\ UNCHANGED pc
     \/ rel[o] = {} /\ Goto(o, "unlockErr") /\ UNCHANGED <<marked, rel, held, upset>>
  /\ UNCHANGED <<up, crashes, mu, lock, dbVars, req, scanVars, todo, draining>>

\* The deferred ReleaseLock (its error is ignored) and mu.Unlock.
ReleaseLock == lock' = FALSE \/ (MayFail("redis") /\ lock' = lock)

UnlockOk(o) ==
  /\ pc[o] = "unlockOk"
  /\ ReleaseLock
  /\ mu' = NoOp
  /\ snap' = [snap EXCEPT ![o] = {}]
  /\ Goto(o, "attach")
  /\ UNCHANGED <<up, crashes, upset, marked, dbVars, req, start, n, ownVars>>

UnlockErr(o) ==
  /\ pc[o] = "unlockErr"
  /\ ReleaseLock
  /\ GiveUp(o)
  /\ UNCHANGED <<up, crashes, upset, marked, rows, ownVars>>

------------------------------------------------------------------------------
(***************************************************************************)
(* What the callers do with the ports they hold.                           *)
(***************************************************************************)

\* provision ends with UpdateInstanceStatus (running or error), StartInstance
\* with UpdateInstanceStatus(running) when it succeeds.  The UPDATE has no
\* condition on the status: a row soft-deleted meanwhile is live again.
Conclude(o, ok) ==
  /\ Goto(o, "done")
  /\ req' = [req EXCEPT ![o] = NoRequest]
  /\ start' = [start EXCEPT ![o] = RangeStart]
  /\ n' = [n EXCEPT ![o] = 0]
  /\ snap' = [snap EXCEPT ![o] = {}]
  /\ held' = [held EXCEPT ![o] = {}]
  /\ IF req[o].kind = "provision" \/ (ok /\ req[o].kind = "start")
       THEN table' = [table EXCEPT ![req[o].inst] = "active"]
       ELSE UNCHANGED table

\* The ports that attachPortBlock finds mapped: it takes those of its block for
\* attached.  AddPortMapping does not look.
Have(o) ==
  IF req[o].kind = "add" THEN {}
  ELSE Block(o) \cap {r.port : r \in {x \in rows : x.inst = req[o].inst}}

\* Everything between the reservation and the first AddPort: the container is
\* created (when that fails the whole block is released) and started (provision),
\* ListPorts is read, and the proxies are added.
Attach(o) ==
  /\ pc[o] = "attach"
  /\ \/ snap' = [snap EXCEPT ![o] = Have(o)] /\ Goto(o, "commit") /\ UNCHANGED rel
     \/ MayFail("incus") /\ Goto(o, "cleanup") /\ UNCHANGED <<snap, rel>>
     \/ /\ MayFail("dbRead")
        /\ req[o].kind # "add"
        /\ Goto(o, "cleanup")
        /\ UNCHANGED <<snap, rel>>
     \/ /\ MayFail("incus")
        /\ req[o].kind = "provision"
        /\ rel' = [rel EXCEPT ![o] = Block(o)]
        /\ Goto(o, "release")
        /\ UNCHANGED snap
  /\ UNCHANGED <<up, crashes, upset, mu, redisVars, dbVars, req, start, n,
                 held, todo, draining>>

\* store.AddPort for the next port of the block that was not found mapped.  It
\* fails when a row with the same host port and protocol exists: UNIQUE (host_port,
\* protocol).  A port that was found mapped stays marked, for a row that may be
\* about to go.
AddPort(o) ==
  /\ pc[o] = "commit"
  /\ \/ /\ held[o] \subseteq snap[o]
        /\ Conclude(o, TRUE)
        /\ Note("skipped", held[o] # {})
        /\ UNCHANGED rows
     \/ \E p \in held[o] \ snap[o] :
          /\ \A q \in held[o] \ snap[o] : p <= q
          /\ \/ /\ \A r \in rows : r.port # p \/ r.proto # req[o].proto
                /\ rows' = rows \cup {[port |-> p, proto |-> req[o].proto,
                                       inst |-> req[o].inst, by |-> o]}
                /\ held' = [held EXCEPT ![o] = @ \ {p}]
                /\ UNCHANGED pc
             \/ /\ \/ MayFail("addRow")
                   \/ \E r \in rows : r.port = p /\ r.proto = req[o].proto
                /\ Goto(o, "cleanup")
                /\ UNCHANGED <<rows, held>>
          /\ UNCHANGED <<table, req, scanVars, upset>>
  /\ UNCHANGED <<up, crashes, mu, redisVars, rel, todo, draining>>

\* Mistaken variant of Unused: the failed request gives nothing back.
UnusedForgotten(o) == {{}}

\* Which ports the failed caller gives back.  provision's releaseUnused spares
\* the ports that have a row by now, unless ListPorts fails; ensurePortBlock
\* gives back the whole block; AddPortMapping its one port.
Unused(o) ==
  CASE req[o].kind = "start" -> {Block(o)}
    [] req[o].kind = "provision" ->
         {Block(o) \ {r.port : r \in {x \in rows : x.inst = req[o].inst}}}
         \cup (IF MayFail("releaseList") THEN {Block(o)} ELSE {})
    [] OTHER -> {held[o]}

Cleanup(o) ==
  /\ pc[o] = "cleanup"
  /\ \E ports \in Unused(o) :
       /\ rel' = [rel EXCEPT ![o] = ports]
       /\ upset' = upset
            \cup (IF ports \subseteq held[o] THEN {} ELSE {"stored"})
            \cup (IF \E r \in rows : r.port \in held[o] \ ports THEN {"spared"} ELSE {})
  /\ snap' = [snap EXCEPT ![o] = {}]
  /\ Goto(o, "release")
  /\ UNCHANGED <<up, crashes, mu, redisVars, dbVars, req, start, n,
                 held, todo, draining>>

ReleaseBlock(o) ==
  /\ pc[o] = "release"
  /\ \/ ReleasePort(o) /\ UNCHANGED <<pc, table, req, scanVars>>
     \/ rel[o] = {} /\ Conclude(o, FALSE) /\ UNCHANGED <<marked, rel, upset>>
  /\ UNCHANGED <<up, crashes, mu, lock, rows, todo, draining>>

------------------------------------------------------------------------------
(***************************************************************************)
(* Requests that give ports back.  The instance and its mappings are read  *)
(* once; they are used in the steps that follow.                           *)
(***************************************************************************)

\* No other request is removing one of these rows, and the requests that added
\* them have returned.
Undisputed(rs) ==
  /\ \A o \in Op : (todo[o] \cup draining[o]) \cap rs = {}
  /\ \A r \in rs : ~Active(r.by)

\* RemovePortMapping
RemovePortMapping(o, r) ==
  /\ up
  /\ pc[o] = "idle"
  /\ "remove" \in Kinds
  /\ table[r.inst] = "active"
  /\ Note("raced", ~Undisputed({r}))
  /\ todo' = [todo EXCEPT ![o] = {r}]
  /\ req' = [req EXCEPT ![o] = [NoRequest EXCEPT !.kind = "remove", !.inst = r.inst]]
  /\ Goto(o, "unmarkRow")
  /\ UNCHANGED <<up, crashes, mu, redisVars, dbVars, scanVars, held, rel, draining>>

\* DeleteInstance
DeleteInstance(o, i) ==
  LET mine == {r \in rows : r.inst = i} IN
  /\ up
  /\ pc[o] = "idle"
  /\ "delete" \in Kinds
  /\ table[i] = "active"
  /\ Note("raced", ~Undisputed(mine))
  /\ todo' = [todo EXCEPT ![o] = mine]
  /\ req' = [req EXCEPT ![o] = [NoRequest EXCEPT !.kind = "delete", !.inst = i]]
  /\ Goto(o, "unmarkRow")
  /\ UNCHANGED <<up, crashes, mu, redisVars, dbVars, scanVars, held, rel, draining>>

\* ports.Release of the next mapping, then on to its row.  When every mapping
\* is gone, RemovePortMapping is done and DeleteInstance soft-deletes.
UnmarkRow(o) ==
  /\ pc[o] = "unmarkRow"
  /\ \/ \E r \in todo[o] :
          /\ \A x \in todo[o] : r.port <= x.port
          /\ Unmark(r.port)
          /\ todo' = [todo EXCEPT ![o] = @ \ {r}]
          /\ draining' = [draining EXCEPT ![o] = {r}]
          /\ Goto(o, "delRow")
          /\ UNCHANGED req
     \/ /\ todo[o] = {}
        /\ IF req[o].kind = "delete"
             THEN Goto(o, "softDelete") /\ UNCHANGED req
             ELSE Goto(o, "done") /\ req' = [req EXCEPT ![o] = NoRequest]
        /\ UNCHANGED <<marked, todo, draining, upset>>
  /\ UNCHANGED <<up, crashes, mu, lock, dbVars, scanVars, held, rel>>

\* Mistaken variant of DeletePort: Release is (also) called after the row is gone.
DeletePortThenRelease(o) ==
  /\ pc[o] = "delRow"
  /\ rows' = rows \ draining[o]
  /\ marked' = marked \ {r.port : r \in draining[o]}
  /\ draining' = [draining EXCEPT ![o] = {}]
  /\ Goto(o, "unmarkRow")
  /\ UNCHANGED <<up, crashes, upset, mu, lock, table, req, scanVars, held, rel, todo>>

\* store.DeletePort by id; DeleteInstance ignores its error, RemovePortMapping
\* returns it, and both leave the row behind.
DeletePort(o) ==
  /\ pc[o] = "delRow"
  /\ \/ rows' = rows \ draining[o] /\ UNCHANGED upset
     \/ MayFail("delRow") /\ rows' = rows /\ Note("lost", TRUE)
  /\ draining' = [draining EXCEPT ![o] = {}]
  /\ Goto(o, "unmarkRow")
  /\ UNCHANGED <<up, crashes, mu, redisVars, table, req, scanVars, held, rel, todo>>

\* store.SoftDeleteInstance
SoftDeleteInstance(o) ==
  /\ pc[o] = "softDelete"
  /\ table' = [table EXCEPT ![req[o].inst] = "deleted"]
  /\ req' = [req EXCEPT ![o] = NoRequest]
  /\ Goto(o, "done")
  /\ UNCHANGED <<up, crashes, upset, mu, redisVars, rows, scanVars, ownVars>>

------------------------------------------------------------------------------
(***************************************************************************)
(* The Redis TTL, and the server process.                                  *)
(***************************************************************************)

\* The key expires allocLockTTL after SET NX, whoever still relies on it.
LockExpires ==
  /\ lock
  /\ lock' = FALSE
  /\ UNCHANGED <<up, crashes, upset, mu, marked, dbVars, pc, req, scanVars, ownVars>>

\* The process dies with its goroutines and its mutex; Redis and Postgres stay.
\* Dying between Release and DeletePort is one way to lose the DELETE.
Crash ==
  /\ up
  /\ MayFail("delRow") \/ \A o \in Op : draining[o] = {}
  /\ crashes < MaxCrashes
  /\ up' = FALSE
  /\ crashes' = crashes + 1
  /\ Note("lost", \E o \in Op : draining[o] # {})
  /\ mu' = NoOp
  /\ pc' = [o \in Op |-> IF Active(o) THEN "done" ELSE pc[o]]
  /\ req' = [o \in Op |-> NoRequest]
  /\ start' = [o \in Op |-> RangeStart]
  /\ n' = [o \in Op |-> 0]
  /\ snap' = [o \in Op |-> {}]
  /\ held' = [o \in Op |-> {}]
  /\ rel' = [o \in Op |-> {}]
  /\ todo' = [o \in Op |-> {}]
  /\ draining' = [o \in Op |-> {}]
  /\ UNCHANGED <<redisVars, dbVars>>

\* No port is mapped twice by live instances.
MappedOnce ==
  \A r1, r2 \in rows :
    table[r1.inst] = "active" /\ table[r2.inst] = "active" /\ r1.port = r2.port => r1 = r2

\* runServe: Allocator.Sync replaces the Redis set before a request is served, which
\* makes up for everything but a port that is mapped twice.
Restart ==
  /\ ~up
  /\ up' = TRUE
  /\ marked' = UsedHostPorts
  /\ upset' = IF MappedOnce THEN {} ELSE upset \ Leak
  /\ UNCHANGED <<crashes, mu, lock, dbVars, pc, req, scanVars, ownVars>>

Step(o) ==
  \/ LockMutex(o)      \/ AcquireLock(o)       \/ ListUsedHostPorts(o)
  \/ Scan(o)           \/ MarkPortAllocated(o) \/ Rollback(o)
  \/ UnlockOk(o)       \/ UnlockErr(o)         \/ Attach(o)
  \/ AddPort(o)        \/ Cleanup(o)           \/ ReleaseBlock(o)
  \/ UnmarkRow(o)      \/ DeletePort(o)        \/ SoftDeleteInstance(o)

Begin(o) ==
  \/ \E i \in Inst :
       \/ Provision(o, i)
       \/ Start(o, i)
       \/ DeleteInstance(o, i)
       \/ \E proto \in Proto, p \in Asked : AddFixed(o, i, proto, p)
       \/ \E proto \in Proto, p \in Asked : AddAny(o, i, proto, p)
  \/ \E r \in rows : RemovePortMapping(o, r)

Next ==
  \/ \E o \in Op : Begin(o) \/ Step(o)
  \/ LockExpires
  \/ Crash
  \/ Restart

Spec == Init /\ [][Next]_vars

\* Goroutines that can run do run, a restarted server comes up, the TTL ends.
Fairness ==
  /\ \A o \in Op : WF_vars(Step(o))
  /\ WF_vars(Restart)
  /\ WF_vars(LockExpires)

FairSpec == Spec /\ Fairness

------------------------------------------------------------------------------
(***************************************************************************)
(* Properties.                                                             *)
(***************************************************************************)

\* A row is still part of the system when its instance is live, or a request
\* that may bring the instance back is under way.
Engaged(i) ==
  table[i] = "active" \/ \E o \in Op : Active(o) /\ req[o].inst = i

\* A mapping that nobody has begun to take down.
Serving(r) == Engaged(r.inst) /\ \A o \in Op : r \notin draining[o]

\* Nothing of Clash has happened that a restart has not made up for, nothing of Leak
\* since the last one.
Undisturbed == upset \cap Clash = {}
Accounted   == upset \cap Leak = {}

\* Two requests never hold the same host port: what AllocateBlock and Reserve
\* hand out was free, whatever the lock-free releases did in between.
HeldExclusive ==
  Undisturbed => \A o1, o2 \in Op : o1 # o2 => held[o1] \cap held[o2] = {}

\* The Redis mark of a reservation survives until its owner stores the mapping
\* or gives the port back: no other request's ReleasePort removes it.
ReservationKept == Undisturbed => \A o \in Op : held[o] \subseteq marked

\* A host port serves one mapping at a time, whatever the protocol, and is not
\* reserved for another request while it does.  UNIQUE (host_port, protocol)
\* alone would let a tcp and a udp mapping of two instances share the port.
ServedOnce ==
  Undisturbed =>
    /\ \A r1, r2 \in rows :
         Serving(r1) /\ Serving(r2) /\ r1.port = r2.port => r1 = r2
    /\ \A r \in rows, o \in Op : Serving(r) => r.port \notin held[o]

\* No reservation outlives its request: every mark belongs to a request under
\* way or to a row.  A leaked mark would make the port unusable until restart.
NoLeakedMark ==
  up /\ Accounted => \A p \in marked : \/ \E o \in Op : p \in held[o] \cup rel[o]
                                      \/ \E r \in rows : r.port = p

\* The promise of PortPool: reservations and mappings as the pool sees them.
Pool == INSTANCE PortPool WITH
          reserved <- held,
          serving  <- {r.port : r \in {x \in rows : Serving(x)}},
          misused  <- ~Undisturbed

\* Each step of the allocator and its callers is a step of the pool, or none:
\* ports are handed out only when free and never change hands directly.
PoolSpec == Pool!Spec

\* Every request that calls the allocator returns, also when the Redis lock was
\* left behind by a crash and whichever of the calls fails.
RequestReturns == \A o \in Op : pc[o] = "lock" ~> pc[o] = "done"
==============================================================================
