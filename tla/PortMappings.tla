----------------------------- MODULE PortMappings -----------------------------
(***************************************************************************)
(* The port mappings of one instance, kept twice: as rows of port_mappings *)
(* (internal/db/store.go) and as proxy devices in the instance's Incus     *)
(* configuration (internal/incusclient/client.go).  AddPortMapping,        *)
(* RemovePortMapping and UpdatePortMapping change both; StartInstance      *)
(* completes the block and gives the NIC and the guest an address          *)
(* (internal/incusclient/network.go); trafficLoop and StartInstance edit   *)
(* the same configuration to change the NIC's limit.  An edit is a         *)
(* GetInstance and an UpdateInstance that carries the etag of what was     *)
(* read.  That a host port is free is PortAllocator's promise.             *)
(***************************************************************************)
EXTENDS Integers, FiniteSetsExt

CONSTANTS
  Port,      \* port numbers, of the host and of the guest
  Block,     \* ports of the 1:1 block the instance was provisioned with
  Addr,      \* addresses of the bridge's network, its gateway left out
  NoAddr,    \* none of them
  Request,   \* requests; each runs once
  Plain,     \* a device name without a random suffix
  Kinds,     \* which requests are sent
  Failures   \* which external calls may fail

Kind    == {"add", "remove", "update", "policy", "start"}
Failure == {"incus", "dbRead", "addRow", "delRow", "setRow", "reserve", "guest"}
Proto   == {"tcp", "udp"}

ASSUME MappingAssumption ==
  /\ Port \subseteq Nat
  /\ Block \subseteq Port /\ Block # {} /\ IsFiniteSet(Block)
  /\ NoAddr \notin Addr
  /\ Plain \notin Request
  /\ Kinds \subseteq Kind
  /\ Failures \subseteq Failure

VARIABLES
  rows,    \* port_mappings of the instance
  config,  \* the instance's Incus configuration: proxy devices, NIC limit, address
  guest,   \* the address configured inside the guest
  go,      \* each request: where it is, the edit it makes and what it has read
  orderly  \* history: no two requests that choose a name or work on one mapping have
           \* overlapped, nor has a removal overlapped a start, and no UPDATE or DELETE
           \* of a row has failed

vars == <<rows, config, guest, go, orderly>>

------------------------------------------------------------------------------
\* proxy-<port> for the block, proxy-<proto>-<port>, or that with a suffix.
Name == (Proto \cup {"block"}) \X Port \X (Request \cup {Plain})

Id     == (Request \cup {Plain}) \X Port
Row    == [id : Id, host : Port, internal : Port, proto : Proto, name : Name]
Device == [name : Name, host : Port, internal : Port, proto : Proto]
Config == [devices : SUBSET Device, nic : {"full", "slow"}, addr : Addr \cup {NoAddr}]

\* The forkproxy device of a mapping: listen and connect.
ProxyDevice(m) ==
  [name |-> m.name, host |-> m.host, internal |-> m.internal, proto |-> m.proto]

\* The row that r stores for port p of a block.
BlockRow(r, p) ==
  [id |-> <<r, p>>, host |-> p, internal |-> p, proto |-> "tcp", name |-> <<"block", p, Plain>>]

\* An edit adds, removes or updates a mapping, changes the limit, fills the block,
\* attaches a new one, or gives the NIC an address.
EditKind == {"add", "remove", "update", "policy", "fill", "block", "nic"}

Location == {"idle", "get", "put", "row", "ports", "fill", "apply", "done"}

\* "old" and "new" are the mappings before and after the edit, "copy" has the
\* configuration GetInstance returned and stands for its etag too, "need" are the
\* ports StartInstance has still to fill, "undo": it is rolling back.
Goroutine ==
  [at : Location, kind : EditKind, old : SUBSET Row, new : SUBSET Row,
   limit : {"full", "slow"}, addr : Addr \cup {NoAddr}, start : BOOLEAN,
   need : SUBSET Nat, undo : BOOLEAN, copy : SUBSET Config]

NoEdit == [at |-> "idle", kind |-> "policy", old |-> {}, new |-> {}, limit |-> "full",
           addr |-> NoAddr, start |-> FALSE, need |-> {}, undo |-> FALSE, copy |-> {}]

Active(r) == go[r].at \notin {"idle", "done"}

TypeOK ==
  /\ rows \subseteq Row
  /\ \A x, y \in rows : x.id = y.id => x = y
  /\ config \in Config
  /\ guest \in Addr \cup {NoAddr}
  /\ go \in [Request -> Goroutine]
  /\ orderly \in BOOLEAN

\* The instance as attachPortBlock leaves it: all devices, and the rows of the
\* whole block or, after an error, of its first ports.  EnsureInstanceIPv4 comes
\* first, but a NIC that the profile provides has no address.
Init ==
  /\ \E stored \in {{p \in Block : p < q} : q \in Block} \cup {Block} :
       rows = {BlockRow(Plain, p) : p \in stored}
  /\ \E a \in Addr \cup {NoAddr} :
       /\ config = [devices |-> {ProxyDevice(BlockRow(Plain, p)) : p \in Block},
                    nic |-> "full", addr |-> a]
       /\ guest = a
  /\ go = [r \in Request |-> NoEdit]
  /\ orderly = TRUE

\* Request r goes on at l with the local state g; a finished one has none.
Go(r, l, g) ==
  go' = [go EXCEPT ![r] = [(IF l = "done" THEN NoEdit ELSE g) EXCEPT !.at = l]]

Goto(r, l) == Go(r, l, go[r])

MayFail(f) == f \in Failures

------------------------------------------------------------------------------
(***************************************************************************)
(* The requests begin: the instance and its mappings are read.             *)
(***************************************************************************)

\* Mistaken variant of DeviceName: a name in use is taken again.
DeviceNamePlain(r, proto, p, others) == <<proto, p, Plain>>

\* The name of a new device, made different if one of the mappings that were
\* read has it.
DeviceName(r, proto, p, others) ==
  IF \E x \in others : x.name = <<proto, p, Plain>>
    THEN <<proto, p, r>>
    ELSE <<proto, p, Plain>>

\* Requests that must not overlap for their device names to stay apart: a device is
\* removed by the name that was read, whoever has that name by then.
Clash(k, l) ==
  \/ {k, l} \subseteq {"add", "update", "start"}
  \/ {k, l} = {"remove", "start"}

KindOf(q) == IF go[q].start THEN "start" ELSE go[q].kind

SameMapping(ms, ns) == \E m \in ms, n \in ns : m.id = n.id

\* old and new have one mapping each, except for a policy edit.
Begin(r, kind, edit) ==
  /\ go[r].at = "idle"
  /\ kind \in Kinds
  /\ orderly' = (orderly /\ ~\E q \in Request :
                    Active(q) /\ (Clash(kind, KindOf(q)) \/ SameMapping(edit.old, go[q].old)))
  /\ Go(r, "get", edit)
  /\ UNCHANGED <<rows, config, guest>>

Mapping(kind, old, new) == [NoEdit EXCEPT !.kind = kind, !.old = old, !.new = new]

\* A host port that no mapping and no request under way has.
Free(r, p) ==
  /\ \A x \in rows : x.host # p
  /\ \A q \in Request \ {r} : Active(q) => \A x \in go[q].new : x.host # p

AddPortMapping(r, internal, proto, host) ==
  LET new == [id |-> <<r, host>>, host |-> host, internal |-> internal, proto |-> proto,
              name |-> DeviceName(r, proto, internal, rows)]
  IN  Free(r, host) /\ Begin(r, "add", Mapping("add", {new}, {new}))

RemovePortMapping(r, m) == Begin(r, "remove", Mapping("remove", {m}, {}))

\* The other protocol, unless another mapping of the host port has it.
UpdatePortMapping(r, m, proto) ==
  LET new == [m EXCEPT !.proto = proto,
                       !.name = DeviceName(r, proto, m.host, rows \ {m})]
  IN  /\ proto # m.proto
      /\ \A x \in rows \ {m} : x.host # m.host \/ x.proto # proto
      /\ Begin(r, "update", Mapping("update", {m}, {new}))

\* ApplyNetworkPolicy, in trafficLoop.
ApplyNetworkPolicy(r, limit) == Begin(r, "policy", [NoEdit EXCEPT !.limit = limit])

\* UpdateResourceLimits, as far as eth0 is concerned, is its first edit.
StartInstance(r, limit) ==
  Begin(r, "start", [NoEdit EXCEPT !.limit = limit, !.start = TRUE])

------------------------------------------------------------------------------
(***************************************************************************)
(* An edit of the configuration.                                           *)
(***************************************************************************)

\* The mappings whose devices the edit removes, and adds.
Removes(r) == IF go[r].undo THEN go[r].new ELSE go[r].old
Adds(r)    == IF ~go[r].undo THEN go[r].new
              ELSE IF go[r].kind = "update" THEN go[r].old ELSE {}

Own(r) == {m.name : m \in Removes(r) \cup Adds(r)}

\* What AddProxyDevice(s), RemoveProxyDevice, UpdateProxyDeviceProtocol,
\* ApplyNetworkPolicy and EnsureInstanceIPv4 make of the configuration they have
\* read.
Edited(r, c) ==
  [devices |-> {d \in c.devices : d.name \notin Own(r)} \cup {ProxyDevice(m) : m \in Adds(r)},
   nic     |-> IF go[r].kind = "policy" THEN go[r].limit ELSE c.nic,
   addr    |-> IF go[r].kind = "nic" THEN go[r].addr ELSE c.addr]

\* Mistaken variant of Edit: a refused address is used all the same.
EditUnchecked(r, ok) ==
  Go(r, CASE go[r].undo -> "done"
          [] go[r].kind = "policy" -> IF go[r].start THEN "ports" ELSE "done"
          [] go[r].kind = "remove" -> "row"
          [] go[r].kind = "nic" -> "apply"
          [] OTHER -> IF ok THEN "row" ELSE "done",
     [go[r] EXCEPT !.copy = {}])

\* The edit has succeeded, or failed.  RemovePortMapping and the rollbacks
\* ignore an error; of a limit it is logged.
Edit(r, ok) ==
  Go(r, CASE go[r].undo -> "done"
          [] go[r].kind = "policy" -> IF go[r].start THEN "ports" ELSE "done"
          [] go[r].kind = "remove" -> "row"
          [] go[r].kind = "nic" -> IF ok THEN "apply" ELSE "done"
          [] OTHER -> IF ok THEN "row" ELSE "done",
     [go[r] EXCEPT !.copy = {}])

\* Whether the device that is renamed or removed is in the configuration.
Found(r) == \A m \in Removes(r) : \E d \in config.devices : d.name = m.name

Renames(r)   == go[r].kind = "update"
JustDrops(r) == go[r].kind \notin {"policy", "nic"} /\ Adds(r) = {}

\* server.GetInstance
GetInstance(r) ==
  /\ go[r].at = "get"
  /\ go[r].kind # "nic"
  /\ \/ /\ Renames(r) \/ JustDrops(r) => Found(r)
        /\ Go(r, "put", [go[r] EXCEPT !.copy = {config}])
     \/ JustDrops(r) /\ ~Found(r) /\ Edit(r, TRUE)
     \/ (MayFail("incus") \/ (Renames(r) /\ ~Found(r))) /\ Edit(r, FALSE)
  /\ UNCHANGED <<rows, config, guest, orderly>>

\* Mistaken variant of UpdateInstance: the etag is not passed on.
UpdateInstanceNoEtag(r) ==
  /\ go[r].at = "put"
  /\ \E c \in go[r].copy : config' = Edited(r, c)
  /\ Edit(r, TRUE)
  /\ UNCHANGED <<rows, guest, orderly>>

\* server.UpdateInstance: refused when the configuration has changed.
UpdateInstance(r) ==
  /\ go[r].at = "put"
  /\ \/ /\ config \in go[r].copy
        /\ config' = Edited(r, config)
        /\ Edit(r, TRUE)
     \/ /\ config \notin go[r].copy \/ MayFail("incus")
        /\ Edit(r, FALSE)
        /\ UNCHANGED config
  /\ UNCHANGED <<rows, guest, orderly>>

------------------------------------------------------------------------------
(***************************************************************************)
(* The row is stored; an error rolls the edit back.                        *)
(***************************************************************************)

RollBack(r) ==
  /\ Go(r, "get", [go[r] EXCEPT !.undo = TRUE])
  /\ UNCHANGED rows

\* UNIQUE (host_port, protocol) and UNIQUE (instance_id, device_name)
Unique(rs) ==
  \A x, y \in rs : (x.host = y.host /\ x.proto = y.proto) \/ x.name = y.name => x = y

\* A port of a block that fails leaves the devices, and the rows before it.
AddPort(r) ==
  LET stored == rows \cup go[r].new IN
  /\ go[r].at = "row" /\ go[r].kind \in {"add", "fill", "block"}
  /\ \/ /\ Unique(stored)
        /\ rows' = stored
        /\ Goto(r, IF go[r].kind = "add" THEN "done" ELSE "fill")
     \/ /\ go[r].kind # "block"
        /\ ~Unique(stored) \/ MayFail("addRow")
        /\ RollBack(r)
     \/ /\ go[r].kind = "block"
        /\ ~Unique(stored) \/ MayFail("addRow")
        /\ \E m \in go[r].new : rows' = rows \cup {x \in go[r].new : x.host < m.host}
        /\ Unique(rows')
        /\ Goto(r, "done")
  /\ UNCHANGED <<config, guest, orderly>>

\* DELETE by id.
DeletePort(r) ==
  /\ go[r].at = "row" /\ go[r].kind = "remove"
  /\ \/ rows' = {x \in rows : \A m \in go[r].old : x.id # m.id} /\ UNCHANGED orderly
     \/ MayFail("delRow") /\ UNCHANGED rows /\ orderly' = FALSE
  /\ Goto(r, "done")
  /\ UNCHANGED <<config, guest>>

\* Mistaken variant of UpdatePortProtocol: a second row instead of a changed one.
UpdatePortProtocolInsert(r) ==
  /\ go[r].at = "row" /\ go[r].kind = "update"
  /\ Unique(rows \cup go[r].new)
  /\ rows' = rows \cup go[r].new
  /\ Goto(r, "done")
  /\ UNCHANGED <<config, guest, orderly>>

\* UPDATE by id: no error when the row is gone.
UpdatePortProtocol(r) ==
  LET updated == {x \in rows : \A m \in go[r].new : x.id # m.id}
                 \cup {m \in go[r].new : \E x \in rows : x.id = m.id}
  IN  /\ go[r].at = "row" /\ go[r].kind = "update"
      /\ \/ Unique(updated) /\ rows' = updated /\ Goto(r, "done") /\ UNCHANGED orderly
         \/ (~Unique(updated) \/ MayFail("setRow")) /\ RollBack(r) /\ orderly' = FALSE
      /\ UNCHANGED <<config, guest>>

------------------------------------------------------------------------------
(***************************************************************************)
(* StartInstance goes on: ensurePortBlock, then EnsureInstanceIPv4.        *)
(***************************************************************************)

Size == Cardinality(Block)

BlockAt(p) == p..(p + Size - 1)

\* ensurePortBlock: the ports missing from the block that begins with the lowest
\* mapped port; without any mapping, AllocateBlock and attachPortBlock.
ListPorts(r) ==
  LET hosts == {x.host : x \in rows} IN
  /\ go[r].at = "ports"
  /\ \/ /\ rows # {}
        /\ Go(r, "fill", [go[r] EXCEPT !.need = BlockAt(Min(hosts)) \ hosts])
     \/ /\ rows = {}
        /\ \E p \in Port :
             LET block == {BlockRow(r, q) : q \in BlockAt(p)}
             IN  /\ \A q \in BlockAt(p) : q \in Port /\ Free(r, q)
                 /\ Go(r, "get", [go[r] EXCEPT !.kind = "block", !.old = block, !.new = block])
     \/ /\ MayFail("dbRead") \/ (rows = {} /\ MayFail("reserve"))
        /\ Goto(r, "done")
  /\ UNCHANGED <<rows, config, guest, orderly>>

\* Reserve, for the lowest port that is missing; one that is taken or out of the
\* range is skipped.  At the end bootstrapSSH begins.
FillPort(r) ==
  LET p == Min(go[r].need) IN
  /\ go[r].at = "fill"
  /\ \/ /\ go[r].need # {}
        /\ p \in Port /\ Free(r, p)
        /\ Go(r, "get", [go[r] EXCEPT !.kind = "fill", !.need = @ \ {p},
                                      !.old = {BlockRow(r, p)}, !.new = {BlockRow(r, p)}])
     \/ /\ go[r].need # {}
        /\ p \notin Port \/ ~Free(r, p) \/ MayFail("reserve")
        /\ Go(r, "fill", [go[r] EXCEPT !.need = @ \ {p}])
     \/ /\ go[r].need = {}
        /\ Go(r, "get", [NoEdit EXCEPT !.kind = "nic", !.start = TRUE])
  /\ UNCHANGED <<rows, config, guest, orderly>>

\* Which address is free depends on the other instances.
AllocateContainerIPv4 == Addr

\* EnsureInstanceIPv4 up to UpdateInstance: the NIC's address is kept, and nothing
\* is updated if the rest of the NIC is as it should be.
EnsureInstanceIPv4(r) ==
  /\ go[r].at = "get"
  /\ go[r].kind = "nic"
  /\ \/ \E a \in IF config.addr = NoAddr THEN AllocateContainerIPv4 ELSE {config.addr} :
          \/ Go(r, "put", [go[r] EXCEPT !.addr = a, !.copy = {config}])
          \/ config.addr # NoAddr /\ Go(r, "apply", [go[r] EXCEPT !.addr = a])
     \/ MayFail("incus") /\ Goto(r, "done")
  /\ UNCHANGED <<rows, config, guest, orderly>>

\* The script in the guest may fail before and after it has set the address;
\* EnsureSSH follows.
ApplyGuestStaticIPv4(r) ==
  /\ go[r].at = "apply"
  /\ guest' \in {go[r].addr} \cup (IF MayFail("guest") THEN {guest} ELSE {})
  /\ Goto(r, "done")
  /\ UNCHANGED <<rows, config, orderly>>

Next ==
  \E r \in Request :
    \/ \E p, h \in Port, proto \in Proto : AddPortMapping(r, p, proto, h)
    \/ \E m \in rows : \/ RemovePortMapping(r, m)
                       \/ \E proto \in Proto : UpdatePortMapping(r, m, proto)
    \/ \E limit \in {"full", "slow"} : ApplyNetworkPolicy(r, limit) \/ StartInstance(r, limit)
    \/ GetInstance(r) \/ UpdateInstance(r)
    \/ AddPort(r) \/ DeletePort(r) \/ UpdatePortProtocol(r)
    \/ ListPorts(r) \/ FillPort(r)
    \/ EnsureInstanceIPv4(r) \/ ApplyGuestStaticIPv4(r)

Spec == Init /\ [][Next]_vars

------------------------------------------------------------------------------
(***************************************************************************)
(* Properties.                                                             *)
(***************************************************************************)

Quiet == \A r \in Request : ~Active(r)

\* No edit of the configuration undoes another: a request changes the devices it
\* names and nothing else, however long ago it read the configuration, and an
\* address that the NIC has is never replaced.
NoLostEdit ==
  [][\A r \in Request : go[r].at = "put" /\ go'[r].at # "put" /\ config' # config =>
       /\ \A d \in config.devices \cup config'.devices :
            d.name \notin Own(r) => d \in config.devices /\ d \in config'.devices
       /\ go[r].kind # "policy" => config'.nic = config.nic
       /\ config.addr # NoAddr => config'.addr = config.addr]_vars

\* The guest has the address of its NIC, which filters every other: two starts
\* that both found no address never give the guest the one that was refused.
GuestAddressed == guest # NoAddr => guest = config.addr

\* AddPortMapping attaches a proxy device: Incus has the device of every stored
\* mapping, with its ports and its protocol, once the requests under way have
\* returned.
AddedIsServed == Quiet => \A x \in rows : ProxyDevice(x) \in config.devices

\* Every mapping the database lists works, whichever edits were refused or failed
\* and had to be rolled back, and whatever StartInstance has filled in, as long as
\* no two requests that choose a device name or work on the same mapping and no
\* removal and start have overlapped, and no UPDATE or DELETE of a row has failed.
MappingServed == orderly => AddedIsServed
================================================================================
