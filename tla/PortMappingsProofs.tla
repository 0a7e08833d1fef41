--------------------------- MODULE PortMappingsProofs ---------------------------
(***************************************************************************)
(* The port mappings of an instance, for every number of requests, every   *)
(* block and every choice of failures: no edit is lost, the guest has the  *)
(* address of its NIC, and every stored mapping is served.                 *)
(***************************************************************************)
EXTENDS PortMappings, FiniteSetTheorems, WellFoundedInduction, TLAPS

------------------------------------------------------------------------------
(***************************************************************************)
(* The inductive invariant.                                                *)
(***************************************************************************)

\* Where a request has an edit of the configuration, or its row, before it.
Editing == {"get", "put", "row"}

\* Edits that end with a new row.
Creates == {"add", "fill", "block"}

\* What the constraints of port_mappings and the naming of devices guarantee.
RowInv ==
  /\ Unique(rows)
  /\ \A x \in rows : /\ x.id[2] = x.host
                     /\ x.name[1] = "block" => x.name[2] = x.host
                     /\ x.name[3] \in Request => go[x.name[3]].at # "idle"

\* Which mappings an edit of each kind is about.
EditShape(r) ==
  /\ go[r].kind \in {"policy", "nic"} => go[r].old = {} /\ go[r].new = {}
  /\ go[r].kind = "remove" => go[r].new = {} /\ \E m \in Row : go[r].old = {m}
  /\ go[r].kind = "update" =>
       \E m \in Row, m2 \in Row : /\ go[r].old = {m} /\ go[r].new = {m2}
                                  /\ m2.id = m.id /\ m2.host = m.host
  /\ go[r].kind \in Creates => /\ go[r].old = go[r].new
                               /\ \A m \in go[r].new : m.id = <<r, m.host>>
  /\ go[r].kind \in {"fill", "block"} =>
       \A m \in go[r].new : m.name = <<"block", m.host, Plain>>
  /\ go[r].kind = "add" => \E m \in Row : go[r].new = {m}
  /\ go[r].kind \in {"add", "update"} =>
       \A m \in go[r].new : m.name[1] # "block" /\ m.name[3] \in {Plain, r}
  /\ \A m \in go[r].old : m.id[2] = m.host

\* Where a request can be.
PathShape(r) ==
  /\ ~Active(r) => /\ go[r].old = {} /\ go[r].new = {} /\ go[r].kind = "policy"
                   /\ ~go[r].start
  /\ go[r].kind \in {"fill", "block", "nic"} => go[r].start
  /\ go[r].start => go[r].kind \in {"policy", "fill", "block", "nic"}
  /\ go[r].undo => /\ go[r].kind \in {"add", "fill", "update"}
                   /\ go[r].at \in {"get", "put"}
  /\ go[r].at = "ports" => go[r].kind = "policy" /\ go[r].start
  /\ go[r].at = "fill" => go[r].start /\ go[r].kind # "nic"
  /\ go[r].at = "apply" => go[r].kind = "nic"
  /\ go[r].at = "row" => go[r].kind \in Creates \cup {"remove", "update"}

ShapeInv == \A r \in Request : EditShape(r) /\ PathShape(r)

\* The id of a mapping that is being added is new.
FreshAt(r) ==
  go[r].kind \in Creates /\ go[r].at \in Editing =>
    \A x \in rows, m \in go[r].new : x.id # m.id

FreshInv == \A r \in Request : FreshAt(r)

\* The address about to be used in the guest is the one Incus has accepted.
AddrAt(r) ==
  /\ go[r].at = "apply" => go[r].addr = config.addr /\ config.addr # NoAddr
  /\ go[r].at = "put" /\ go[r].kind = "nic" =>
       go[r].addr # NoAddr /\ \A c \in go[r].copy : c.addr \in {NoAddr, go[r].addr}

AddrInv == \A r \in Request : AddrAt(r)

\* In an orderly history requests that must not overlap do not.
ApartAt(r) ==
  \A q \in Request : r # q /\ Active(r) /\ Active(q) =>
    ~Clash(KindOf(r), KindOf(q)) /\ ~SameMapping(go[r].old, go[q].old)

ApartInv == orderly => \A r \in Request : ApartAt(r)

\* In an orderly history what a request has read of the rows is still so, the
\* names it takes are nobody else's, and its device is there before its row.
OrderAt(r) ==
  /\ go[r].kind \in {"remove", "update"} => go[r].old \subseteq rows
  /\ go[r].kind = "update" =>
       ~go[r].undo /\ \A x \in rows \ go[r].old, m \in go[r].new : x.name # m.name
  /\ go[r].kind \in Creates /\ go[r].at \in Editing =>
       \A x \in rows, m \in go[r].new : x.name # m.name
  /\ go[r].kind \in Creates \cup {"update"} /\ go[r].at = "row" =>
       \A m \in go[r].new : ProxyDevice(m) \in config.devices

OrderInv == orderly => \A r \in Request : OrderAt(r)

\* A row whose device has been removed or renamed, and which is next.
Leaving(x) ==
  \E r \in Request : /\ go[r].at = "row" /\ go[r].kind \in {"remove", "update"}
                     /\ \E m \in go[r].old : m.id = x.id

\* In an orderly history only such a row has no device.
DeviceInv == orderly => \A x \in rows : ProxyDevice(x) \in config.devices \/ Leaving(x)

IInv ==
  /\ TypeOK /\ RowInv /\ ShapeInv /\ FreshInv
  /\ GuestAddressed /\ AddrInv
  /\ ApartInv /\ OrderInv /\ DeviceInv

------------------------------------------------------------------------------
(***************************************************************************)
(* Lemmas.                                                                 *)
(***************************************************************************)
USE MappingAssumption

\* The least of a non-empty set of naturals is one of them.
LEMMA MinOfNat ==
  ASSUME NEW S \in SUBSET Nat, S # {}
  PROVE  Min(S) \in S /\ \A x \in S : Min(S) <= x
  <1> DEFINE R == {ss \in Nat \X Nat : ss[1] < ss[2]}
  <1>1. IsWellFoundedOn(R, Nat)
    BY NatLessThanWellFounded DEF OpToRel
  <1>2. PICK m \in S : \A x \in S : ~(<<x, m>> \in R)
    BY <1>1, WFMin
  <1>3. ASSUME NEW x \in S
        PROVE  m <= x
    <2>1. <<x, m>> \in Nat \X Nat /\ ~(<<x, m>> \in R)
      BY <1>2
    <2>2. ~(x < m)
      BY <2>1
    <2> QED
      BY <2>2
  <1> QED
    BY <1>3 DEF Min

\* A block has so many ports.
LEMMA SizeType == Size \in Nat
  BY FS_CardinalityType DEF Size

\* The ports of a block are numbers.
LEMMA BlockAtType ==
  ASSUME NEW p \in Nat
  PROVE  BlockAt(p) \subseteq Nat
  BY SizeType DEF BlockAt

\* The row of a block's port.
LEMMA BlockRowType ==
  ASSUME NEW r \in Request \cup {Plain}, NEW p \in Port
  PROVE  /\ BlockRow(r, p) \in Row
         /\ BlockRow(r, p).id = <<r, p>> /\ BlockRow(r, p).id[2] = p
         /\ BlockRow(r, p).host = p
         /\ BlockRow(r, p).name = <<"block", p, Plain>>
         /\ BlockRow(r, p).name[1] = "block" /\ BlockRow(r, p).name[2] = p
         /\ BlockRow(r, p).name[3] = Plain
  BY DEF BlockRow, Row, Id, Name, Proto

\* A new device is a device, and its name is not one of a block.
LEMMA DeviceNameType ==
  ASSUME NEW r \in Request, NEW proto \in Proto, NEW p \in Port, NEW others
  PROVE  LET name == DeviceName(r, proto, p, others)
         IN  name \in Name /\ name[1] # "block" /\ name[3] \in {Plain, r}
  BY DEF DeviceName, Name, Proto

\* The state of a request without an edit.
LEMMA NoEditType == NoEdit \in Goroutine
  BY DEF NoEdit, Goroutine, Location, EditKind

\* What Go does to a request that goes on, and to one that ends.
LEMMA GoOn ==
  ASSUME TypeOK, NEW r \in Request, NEW l \in Location, NEW g \in Goroutine, Go(r, l, g)
  PROVE  /\ go' \in [Request -> Goroutine]
         /\ \A q \in Request : q # r => go'[q] = go[q]
         /\ go'[r].at = l
         /\ l # "done" => /\ go'[r].kind = g.kind /\ go'[r].old = g.old
                          /\ go'[r].new = g.new /\ go'[r].limit = g.limit
                          /\ go'[r].addr = g.addr /\ go'[r].start = g.start
                          /\ go'[r].need = g.need /\ go'[r].undo = g.undo
                          /\ go'[r].copy = g.copy
         /\ l = "done" => /\ go'[r].kind = "policy" /\ go'[r].old = {}
                          /\ go'[r].new = {} /\ ~go'[r].start /\ ~go'[r].undo
  <1> DEFINE h == IF l = "done" THEN NoEdit ELSE g
  <1>1. h \in Goroutine
    BY NoEditType
  <1>2. go' = [go EXCEPT ![r] = [h EXCEPT !.at = l]]
    BY DEF Go
  <1>3. [h EXCEPT !.at = l] \in Goroutine
    BY <1>1 DEF Goroutine
  <1> HIDE DEF h
  <1>4. go'[r] = [h EXCEPT !.at = l] /\ go' \in [Request -> Goroutine]
        /\ \A q \in Request : q # r => go'[q] = go[q]
    BY <1>2, <1>3 DEF TypeOK
  <1>5. /\ go'[r].at = l
        /\ go'[r].kind = h.kind /\ go'[r].old = h.old
        /\ go'[r].new = h.new /\ go'[r].limit = h.limit
        /\ go'[r].addr = h.addr /\ go'[r].start = h.start
        /\ go'[r].need = h.need /\ go'[r].undo = h.undo
        /\ go'[r].copy = h.copy
    BY <1>1, <1>4 DEF Goroutine
  <1> QED
    BY <1>4, <1>5 DEF h, NoEdit

\* An edit that ends sends the request on, or ends it.
LEMMA EditGoes ==
  ASSUME TypeOK, ShapeInv, NEW r \in Request, NEW ok \in BOOLEAN, Edit(r, ok)
  PROVE  \E l \in Location :
           /\ Go(r, l, [go[r] EXCEPT !.copy = {}])
           /\ [go[r] EXCEPT !.copy = {}] \in Goroutine
           /\ l \in {"row", "ports", "apply", "done"}
           /\ l = "row" => ~go[r].undo /\ go[r].kind \in Creates \cup {"remove", "update"}
                           /\ (ok \/ go[r].kind = "remove")
           /\ l = "ports" => go[r].kind = "policy" /\ go[r].start
           /\ l = "apply" => go[r].kind = "nic" /\ ok
           /\ go[r].kind = "remove" => l = "row"
           /\ ok /\ go[r].kind = "update" /\ ~go[r].undo => l = "row"
  <1> DEFINE l == CASE go[r].undo -> "done"
                    [] go[r].kind = "policy" -> IF go[r].start THEN "ports" ELSE "done"
                    [] go[r].kind = "remove" -> "row"
                    [] go[r].kind = "nic" -> IF ok THEN "apply" ELSE "done"
                    [] OTHER -> IF ok THEN "row" ELSE "done"
  <1>1. Go(r, l, [go[r] EXCEPT !.copy = {}])
    BY DEF Edit
  <1>2. /\ go[r] \in Goroutine /\ go[r].kind \in EditKind
        /\ go[r].undo \in BOOLEAN /\ go[r].start \in BOOLEAN
    BY DEF TypeOK, Goroutine
  <1>4. go[r].undo => go[r].kind \in {"add", "fill", "update"}
    BY DEF ShapeInv, PathShape
  <1>3. /\ go[r].undo => l = "done"
        /\ ~go[r].undo /\ go[r].kind = "policy" => l = IF go[r].start THEN "ports" ELSE "done"
        /\ ~go[r].undo /\ go[r].kind = "remove" => l = "row"
        /\ ~go[r].undo /\ go[r].kind = "nic" => l = IF ok THEN "apply" ELSE "done"
        /\ ~go[r].undo /\ go[r].kind \notin {"policy", "remove", "nic"} =>
             l = IF ok THEN "row" ELSE "done"
    BY <1>2, <1>4
  <1> HIDE DEF l
  <1>5. l \in Location /\ [go[r] EXCEPT !.copy = {}] \in Goroutine
    BY <1>2, <1>3 DEF Location, Goroutine
  <1> QED
    BY <1>1, <1>2, <1>3, <1>4, <1>5 DEF Creates, EditKind

\* A step of r that changes neither the rows nor the configuration.
LEMMA GoStep ==
  ASSUME IInv, NEW r \in Request,
         rows' = rows, config' = config, guest' \in Addr \cup {NoAddr}, GuestAddressed',
         orderly' \in BOOLEAN, orderly' => orderly,
         go' \in [Request -> Goroutine], \A q \in Request : q # r => go'[q] = go[q],
         go[r].at = "row" => go[r].kind \notin {"remove", "update"} \/ ~orderly',
         go'[r].at # "idle",
         EditShape(r)', PathShape(r)', FreshAt(r)', AddrAt(r)',
         orderly' => ApartAt(r)' /\ OrderAt(r)'
  PROVE  IInv'
  <1>1. TypeOK'
    BY DEF IInv, TypeOK
  <1>2. RowInv'
    BY DEF IInv, RowInv, Unique, TypeOK
  <1>3. ShapeInv'
    BY DEF IInv, ShapeInv, EditShape, PathShape, Active
  <1>4. FreshInv'
    BY DEF IInv, FreshInv, FreshAt
  <1>5. AddrInv'
    BY DEF IInv, AddrInv, AddrAt
  <1>6. ApartInv'
    <2> SUFFICES ASSUME orderly', NEW p \in Request, NEW q \in Request,
                        p # q, Active(p)', Active(q)'
                 PROVE  ~Clash(KindOf(p)', KindOf(q)') /\ ~SameMapping(go'[p].old, go'[q].old)
      BY DEF ApartInv, ApartAt
    <2>1. CASE p = r
      BY <2>1 DEF ApartAt
    <2>2. CASE q = r
      BY <2>2 DEF ApartAt, Clash, SameMapping
    <2>3. CASE p # r /\ q # r
      BY <2>3 DEF IInv, ApartInv, ApartAt, Active, KindOf
    <2> QED
      BY <2>1, <2>2, <2>3
  <1>7. OrderInv'
    BY DEF IInv, OrderInv, OrderAt
  <1>8. DeviceInv'
    BY DEF IInv, DeviceInv, Leaving
  <1> QED
    BY <1>1, <1>2, <1>3, <1>4, <1>5, <1>6, <1>7, <1>8 DEF IInv

\* A request begins.
LEMMA BeginInv ==
  ASSUME IInv, NEW r \in Request, NEW kind \in Kind, NEW edit \in Goroutine,
         Begin(r, kind, edit), edit.kind \in {"add", "remove", "update", "policy"},
         edit.start => edit.kind = "policy", ~edit.undo,
         kind = IF edit.start THEN "start" ELSE edit.kind,
         EditShape(r)', FreshAt(r)', orderly' => OrderAt(r)'
  PROVE  IInv'
  <1> USE DEF Begin
  <1>1. /\ go' \in [Request -> Goroutine] /\ \A q \in Request : q # r => go'[q] = go[q]
        /\ go'[r].at = "get" /\ go'[r].kind = edit.kind /\ go'[r].start = edit.start
        /\ go'[r].undo = edit.undo /\ go'[r].old = edit.old
    BY GoOn DEF Location, IInv
  <1>2. orderly' \in BOOLEAN /\ (orderly' => orderly)
    BY DEF IInv, TypeOK
  <1>3. PathShape(r)' /\ AddrAt(r)'
    BY <1>1 DEF PathShape, AddrAt, Active, Creates
  <1>4. orderly' => ApartAt(r)'
    <2> SUFFICES ASSUME orderly', NEW q \in Request, r # q, Active(q)'
                 PROVE  ~Clash(KindOf(r)', KindOf(q)') /\ ~SameMapping(go'[r].old, go'[q].old)
      BY DEF ApartAt
    <2>1. KindOf(r)' = kind /\ KindOf(q)' = KindOf(q) /\ Active(q)
      BY <1>1 DEF KindOf, Active
    <2>2. ~Clash(kind, KindOf(q)) /\ ~SameMapping(edit.old, go[q].old)
      BY <2>1
    <2> QED
      BY <1>1, <2>1, <2>2
  <1> QED
    BY <1>1, <1>2, <1>3, <1>4, GoStep DEF IInv, TypeOK, GuestAddressed

\* The fields of the edit of one mapping.
LEMMA MappingType ==
  ASSUME NEW kind \in EditKind, NEW old \in SUBSET Row, NEW new \in SUBSET Row
  PROVE  LET g == Mapping(kind, old, new)
         IN  /\ g \in Goroutine /\ g.kind = kind /\ g.old = old /\ g.new = new
             /\ ~g.start /\ ~g.undo
  BY DEF Mapping, NoEdit, Goroutine, Location, EditKind

\* A mapping is being added: its name and its id are nobody's.
LEMMA AddPortMappingInv ==
  ASSUME IInv, NEW r \in Request, NEW p \in Port, NEW h \in Port, NEW proto \in Proto,
         AddPortMapping(r, p, proto, h)
  PROVE  IInv'
  <1> DEFINE name == DeviceName(r, proto, p, rows)
             new == [id |-> <<r, h>>, host |-> h, internal |-> p, proto |-> proto, name |-> name]
             edit == Mapping("add", {new}, {new})
  <1>1. Free(r, h) /\ Begin(r, "add", edit)
    BY DEF AddPortMapping
  <1>2. name \in Name /\ name[1] # "block" /\ name[3] \in {Plain, r}
    BY DeviceNameType
  <1>3. \A x \in rows : x.name # name
    BY <1>1 DEF IInv, TypeOK, RowInv, DeviceName, Begin, Row, Name
  <1> HIDE DEF name
  <1>4. /\ new \in Row /\ new.id = <<r, h>> /\ new.id[2] = h /\ new.host = h /\ new.name = name
    BY <1>2 DEF Row, Id
  <1> HIDE DEF new
  <1>5. /\ edit \in Goroutine /\ edit.kind = "add" /\ edit.old = {new} /\ edit.new = {new}
        /\ ~edit.start /\ ~edit.undo
    BY <1>4, MappingType DEF EditKind
  <1> HIDE DEF edit
  <1>6. /\ go'[r].at = "get" /\ go'[r].kind = "add" /\ go'[r].old = {new}
        /\ go'[r].new = {new} /\ rows' = rows
    BY <1>1, <1>5, GoOn DEF Begin, Location, IInv
  <1>7. EditShape(r)'
    BY <1>2, <1>4, <1>6 DEF EditShape, Creates
  <1>8. FreshAt(r)'
    BY <1>1, <1>4, <1>6 DEF FreshAt, Free, IInv, RowInv
  <1>9. OrderAt(r)'
    BY <1>3, <1>4, <1>6 DEF OrderAt, Creates
  <1> QED
    BY <1>1, <1>5, <1>7, <1>8, <1>9, BeginInv DEF Kind

\* A mapping is being removed: it is one of the rows.
LEMMA RemovePortMappingInv ==
  ASSUME IInv, NEW r \in Request, NEW m \in rows, RemovePortMapping(r, m)
  PROVE  IInv'
  <1> DEFINE edit == Mapping("remove", {m}, {})
  <1>1. Begin(r, "remove", edit)
    BY DEF RemovePortMapping
  <1>2. m \in Row /\ m.id[2] = m.host
    BY DEF IInv, TypeOK, RowInv
  <1>3. /\ edit \in Goroutine /\ edit.kind = "remove" /\ edit.old = {m} /\ edit.new = {}
        /\ ~edit.start /\ ~edit.undo
    BY <1>2, MappingType DEF EditKind
  <1> HIDE DEF edit
  <1>4. /\ go'[r].at = "get" /\ go'[r].kind = "remove" /\ go'[r].old = {m}
        /\ go'[r].new = {} /\ rows' = rows
    BY <1>1, <1>3, GoOn DEF Begin, Location, IInv
  <1>5. EditShape(r)' /\ FreshAt(r)' /\ OrderAt(r)'
    BY <1>2, <1>4 DEF EditShape, FreshAt, OrderAt, Creates
  <1> QED
    BY <1>1, <1>3, <1>5, BeginInv DEF Kind

\* The protocol of a mapping is being changed: the new name is nobody else's.
LEMMA UpdatePortMappingInv ==
  ASSUME IInv, NEW r \in Request, NEW m \in rows, NEW proto \in Proto,
         UpdatePortMapping(r, m, proto)
  PROVE  IInv'
  <1> DEFINE name == DeviceName(r, proto, m.host, rows \ {m})
             new == [m EXCEPT !.proto = proto, !.name = name]
             edit == Mapping("update", {m}, {new})
  <1>1. Begin(r, "update", edit)
    BY DEF UpdatePortMapping
  <1>2. m \in Row /\ m.id[2] = m.host /\ m.host \in Port
    BY DEF IInv, TypeOK, RowInv, Row
  <1>3. name \in Name /\ name[1] # "block" /\ name[3] \in {Plain, r}
    BY <1>2, DeviceNameType
  <1>4. ASSUME NEW x \in rows \ {m}
        PROVE  x.name # name
    <2>1. x.name[3] # r
      BY <1>1 DEF IInv, RowInv, Begin
    <2>2. name = <<proto, m.host, Plain>> => x.name # name
      BY DEF DeviceName
    <2>3. name = <<proto, m.host, r>> => x.name # name
      BY <2>1
    <2> QED
      BY <2>2, <2>3 DEF DeviceName
  <1> HIDE DEF name
  <1>5. new \in Row /\ new.id = m.id /\ new.host = m.host /\ new.name = name
    BY <1>2, <1>3 DEF Row
  <1> HIDE DEF new
  <1>6. /\ edit \in Goroutine /\ edit.kind = "update" /\ edit.old = {m} /\ edit.new = {new}
        /\ ~edit.start /\ ~edit.undo
    BY <1>2, <1>5, MappingType DEF EditKind
  <1> HIDE DEF edit
  <1>7. /\ go'[r].at = "get" /\ go'[r].kind = "update" /\ go'[r].old = {m}
        /\ go'[r].new = {new} /\ rows' = rows /\ ~go'[r].undo
    BY <1>1, <1>6, GoOn DEF Begin, Location, IInv
  <1>8. EditShape(r)' /\ FreshAt(r)' /\ OrderAt(r)'
    BY <1>2, <1>3, <1>4, <1>5, <1>7 DEF EditShape, FreshAt, OrderAt, Creates
  <1> QED
    BY <1>1, <1>6, <1>8, BeginInv DEF Kind

\* A change of the limit begins: it is about no mapping.
LEMMA ApplyNetworkPolicyInv ==
  ASSUME IInv, NEW r \in Request, NEW limit \in {"full", "slow"},
         ApplyNetworkPolicy(r, limit)
  PROVE  IInv'
  <1> DEFINE edit == [NoEdit EXCEPT !.limit = limit]
  <1>1. Begin(r, "policy", edit)
    BY DEF ApplyNetworkPolicy
  <1>2. /\ edit \in Goroutine /\ edit.kind = "policy" /\ edit.old = {} /\ edit.new = {}
        /\ ~edit.start /\ ~edit.undo
    BY NoEditType DEF NoEdit, Goroutine
  <1> HIDE DEF edit
  <1>3. /\ go'[r].kind = "policy" /\ go'[r].old = {} /\ go'[r].new = {} /\ rows' = rows
    BY <1>1, <1>2, GoOn DEF Begin, Location, IInv
  <1>4. EditShape(r)' /\ FreshAt(r)' /\ OrderAt(r)'
    BY <1>3 DEF EditShape, FreshAt, OrderAt, Creates
  <1> QED
    BY <1>1, <1>2, <1>4, BeginInv DEF Kind

\* A start begins, with the limit; it is about no mapping yet.
LEMMA StartInstanceInv ==
  ASSUME IInv, NEW r \in Request, NEW limit \in {"full", "slow"},
         StartInstance(r, limit)
  PROVE  IInv'
  <1> DEFINE edit == [NoEdit EXCEPT !.limit = limit, !.start = TRUE]
  <1>1. Begin(r, "start", edit)
    BY DEF StartInstance
  <1>2. /\ edit \in Goroutine /\ edit.kind = "policy" /\ edit.old = {} /\ edit.new = {}
        /\ edit.start /\ ~edit.undo
    BY NoEditType DEF NoEdit, Goroutine
  <1> HIDE DEF edit
  <1>3. /\ go'[r].kind = "policy" /\ go'[r].old = {} /\ go'[r].new = {} /\ rows' = rows
    BY <1>1, <1>2, GoOn DEF Begin, Location, IInv
  <1>4. EditShape(r)' /\ FreshAt(r)' /\ OrderAt(r)'
    BY <1>3 DEF EditShape, FreshAt, OrderAt, Creates
  <1> QED
    BY <1>1, <1>2, <1>4, BeginInv DEF Kind

------------------------------------------------------------------------------

\* What a request that ends leaves behind.
LEMMA Ended ==
  ASSUME IInv, NEW r \in Request, Goto(r, "done"), orderly' => orderly
  PROVE  /\ go' \in [Request -> Goroutine] /\ \A q \in Request : q # r => go'[q] = go[q]
         /\ go'[r].at = "done" /\ go'[r].kind = "policy" /\ go'[r].old = {}
         /\ go'[r].new = {} /\ ~go'[r].start /\ ~go'[r].undo
         /\ FreshAt(r)' /\ AddrAt(r)' /\ OrderAt(r)'
         /\ ShapeInv' /\ ApartInv'
  <1>1. /\ go' \in [Request -> Goroutine] /\ \A q \in Request : q # r => go'[q] = go[q]
        /\ go'[r].at = "done" /\ go'[r].kind = "policy" /\ go'[r].old = {}
        /\ go'[r].new = {} /\ ~go'[r].start /\ ~go'[r].undo
    <2>1. go[r] \in Goroutine /\ "done" \in Location
      BY DEF IInv, TypeOK, Location
    <2> QED
      BY <2>1, GoOn DEF Goto, IInv
  <1>2. FreshAt(r)' /\ AddrAt(r)' /\ OrderAt(r)'
    BY <1>1 DEF FreshAt, AddrAt, OrderAt, Creates, Editing
  <1>3. ShapeInv'
    <2>1. EditShape(r)' /\ PathShape(r)'
      BY <1>1 DEF EditShape, PathShape, Active, Creates
    <2>2. ASSUME NEW q \in Request, q # r
          PROVE  EditShape(q)' /\ PathShape(q)'
      <3>1. go'[q] = go[q] /\ EditShape(q) /\ PathShape(q)
        BY <1>1, <2>2 DEF IInv, ShapeInv
      <3> QED
        BY <3>1 DEF EditShape, PathShape, Active
    <2> QED
      BY <2>1, <2>2 DEF ShapeInv
  <1>4. ApartInv'
    <2>1. SUFFICES ASSUME orderly, NEW p \in Request, NEW q \in Request,
                          p # q, Active(p)', Active(q)'
                   PROVE  ~Clash(KindOf(p)', KindOf(q)') /\ ~SameMapping(go'[p].old, go'[q].old)
      BY DEF ApartInv, ApartAt
    <2>2. p # r /\ q # r
      BY <1>1, <2>1 DEF Active
    <2>3. go'[p] = go[p] /\ go'[q] = go[q]
      BY <1>1, <2>2
    <2> QED
      BY <2>1, <2>3 DEF IInv, ApartInv, ApartAt, Active, KindOf
  <1> QED
    BY <1>1, <1>2, <1>3, <1>4

\* A request that ends leaves nothing behind that could be wrong.
LEMMA EndStep ==
  ASSUME IInv, NEW r \in Request, Goto(r, "done"),
         rows' = rows, config' = config, guest' \in Addr \cup {NoAddr}, GuestAddressed',
         orderly' \in BOOLEAN, orderly' => orderly,
         go[r].at = "row" => go[r].kind \notin {"remove", "update"} \/ ~orderly'
  PROVE  IInv'
  <1>1. /\ go' \in [Request -> Goroutine] /\ \A q \in Request : q # r => go'[q] = go[q]
        /\ go'[r].at = "done" /\ FreshAt(r)' /\ AddrAt(r)' /\ OrderAt(r)'
        /\ ShapeInv' /\ ApartInv'
    BY Ended
  <1> QED
    BY <1>1, GoStep DEF ShapeInv, ApartInv

\* A request that goes on with the edit it has is apart from the others as before.
LEMMA SameEdit ==
  ASSUME IInv, NEW r \in Request, Active(r), rows' = rows,
         \A q \in Request : q # r => go'[q] = go[q],
         go'[r].kind = go[r].kind, go'[r].old = go[r].old, go'[r].new = go[r].new,
         go'[r].start = go[r].start
  PROVE  /\ EditShape(r)'
         /\ orderly => ApartAt(r)'
         /\ go[r].at \in Editing => FreshAt(r)'
         /\ orderly /\ go[r].at \in Editing /\ go'[r].at # "row"
              /\ (go[r].kind = "update" => ~go'[r].undo) => OrderAt(r)'
  <1>1. EditShape(r)'
    BY DEF IInv, ShapeInv, EditShape
  <1>2. ASSUME orderly
        PROVE  ApartAt(r)'
    <2> SUFFICES ASSUME NEW q \in Request, r # q, Active(q)'
                 PROVE  ~Clash(KindOf(r)', KindOf(q)') /\ ~SameMapping(go'[r].old, go'[q].old)
      BY DEF ApartAt
    <2>1. KindOf(r)' = KindOf(r) /\ KindOf(q)' = KindOf(q) /\ Active(q)
      BY DEF KindOf, Active
    <2> QED
      BY <1>2, <2>1 DEF IInv, ApartInv, ApartAt
  <1>3. go[r].at \in Editing => FreshAt(r)'
    BY DEF IInv, FreshInv, FreshAt
  <1>4. orderly /\ go[r].at \in Editing /\ go'[r].at # "row"
          /\ (go[r].kind = "update" => ~go'[r].undo) => OrderAt(r)'
    BY DEF IInv, OrderInv, OrderAt
  <1> QED
    BY <1>1, <1>2, <1>3, <1>4

\* An edit ends that has left the configuration as it was.
LEMMA EditStep ==
  ASSUME IInv, NEW r \in Request, NEW ok \in BOOLEAN, Edit(r, ok),
         go[r].at \in {"get", "put"}, ok => go[r].kind # "nic",
         ok /\ ~go[r].undo /\ go[r].kind \in Creates \cup {"update"} =>
           \A m \in go[r].new : ProxyDevice(m) \in config.devices,
         UNCHANGED <<rows, config, guest, orderly>>
  PROVE  IInv'
  <1>1. PICK l \in Location :
          /\ Go(r, l, [go[r] EXCEPT !.copy = {}])
          /\ [go[r] EXCEPT !.copy = {}] \in Goroutine
          /\ l \in {"row", "ports", "apply", "done"}
          /\ l = "row" => ~go[r].undo /\ go[r].kind \in Creates \cup {"remove", "update"}
                          /\ (ok \/ go[r].kind = "remove")
          /\ l = "ports" => go[r].kind = "policy" /\ go[r].start
          /\ l = "apply" => go[r].kind = "nic" /\ ok
    BY EditGoes DEF IInv
  <1>2. go[r] \in Goroutine
    BY DEF IInv, TypeOK
  <1>3. GuestAddressed' /\ guest' \in Addr \cup {NoAddr} /\ orderly' \in BOOLEAN
    BY DEF IInv, TypeOK, GuestAddressed
  <1>4. CASE l = "done"
    <2>1. Goto(r, "done")
      BY <1>1, <1>4 DEF Go, Goto
    <2> QED
      BY <1>3, <2>1, EndStep
  <1>5. CASE l # "done"
    <2> DEFINE g == [go[r] EXCEPT !.copy = {}]
    <2>1. /\ g.kind = go[r].kind /\ g.old = go[r].old /\ g.new = go[r].new
          /\ g.start = go[r].start /\ g.undo = go[r].undo
      BY <1>2 DEF Goroutine
    <2>2. g \in Goroutine /\ Go(r, l, g)
      BY <1>1
    <2> HIDE DEF g
    <2>3. /\ go' \in [Request -> Goroutine] /\ \A q \in Request : q # r => go'[q] = go[q]
          /\ go'[r].at = l /\ go'[r].kind = go[r].kind /\ go'[r].old = go[r].old
          /\ go'[r].new = go[r].new /\ go'[r].start = go[r].start /\ go'[r].undo = go[r].undo
      BY <1>5, <2>1, <2>2, GoOn DEF IInv
    <2>4. l \in {"row", "ports"} /\ Active(r) /\ go[r].at \in Editing
      BY <1>1, <1>5 DEF Active, Editing
    <2>5. EditShape(r)' /\ FreshAt(r)' /\ (orderly' => ApartAt(r)')
      BY <2>3, <2>4, SameEdit
    <2>6. PathShape(r)'
      BY <1>1, <2>3, <2>4 DEF IInv, ShapeInv, PathShape, Active
    <2>7. AddrAt(r)'
      BY <2>3, <2>4 DEF AddrAt
    <2>8. orderly' => OrderAt(r)'
      BY <1>1, <2>3, <2>4 DEF IInv, OrderInv, OrderAt, Creates
    <2> QED
      BY <1>3, <2>3, <2>4, <2>5, <2>6, <2>7, <2>8, GoStep
  <1> QED
    BY <1>4, <1>5

\* The configuration is read, or cannot be.
LEMMA GetInstanceInv ==
  ASSUME IInv, NEW r \in Request, GetInstance(r)
  PROVE  IInv'
  <1> USE DEF GetInstance
  <1>1. CASE Go(r, "put", [go[r] EXCEPT !.copy = {config}])
    <2> DEFINE g == [go[r] EXCEPT !.copy = {config}]
    <2>1. /\ g \in Goroutine /\ g.kind = go[r].kind /\ g.old = go[r].old /\ g.new = go[r].new
          /\ g.start = go[r].start /\ g.undo = go[r].undo
      <3>1. go[r] \in Goroutine /\ {config} \in SUBSET Config
        BY DEF IInv, TypeOK
      <3> QED
        BY <3>1 DEF Goroutine
    <2>2. Go(r, "put", g)
      BY <1>1
    <2> HIDE DEF g
    <2>3. /\ go' \in [Request -> Goroutine] /\ \A q \in Request : q # r => go'[q] = go[q]
          /\ go'[r].at = "put" /\ go'[r].kind = go[r].kind /\ go'[r].old = go[r].old
          /\ go'[r].new = go[r].new /\ go'[r].start = go[r].start /\ go'[r].undo = go[r].undo
      BY <2>1, <2>2, GoOn DEF IInv, Location
    <2>4. Active(r) /\ go[r].at \in Editing
      BY DEF Active, Editing
    <2>5. /\ EditShape(r)' /\ FreshAt(r)'
          /\ orderly' => ApartAt(r)' /\ OrderAt(r)'
      <3>1. orderly /\ go[r].kind = "update" => ~go'[r].undo
        BY <2>3 DEF IInv, OrderInv, OrderAt
      <3> QED
        BY <2>3, <2>4, <3>1, SameEdit
    <2>6. PathShape(r)'
      BY <2>3 DEF IInv, ShapeInv, PathShape, Active
    <2>7. AddrAt(r)'
      BY <2>3 DEF AddrAt
    <2> QED
      BY <2>3, <2>5, <2>6, <2>7, GoStep DEF IInv, TypeOK, GuestAddressed
  <1>2. CASE JustDrops(r) /\ ~Found(r) /\ Edit(r, TRUE)
    <2>1. /\ go[r].kind # "nic"
          /\ ~go[r].undo /\ go[r].kind \in Creates \cup {"update"} => go[r].new = {}
      BY <1>2 DEF JustDrops, Adds
    <2> QED
      BY <1>2, <2>1, EditStep
  <1>3. CASE Edit(r, FALSE)
    BY <1>3, EditStep
  <1> QED
    BY <1>1, <1>2, <1>3

\* The configuration is replaced by what has become of the one that was read: the
\* devices of others, and an address, stay.
LEMMA UpdateInstanceKeeps ==
  ASSUME IInv, NEW r \in Request, go[r].at = "put", config \in go[r].copy,
         config' = Edited(r, config)
  PROVE  /\ config' \in Config
         /\ config'.devices = {d \in config.devices : d.name \notin Own(r)}
                              \cup {ProxyDevice(m) : m \in Adds(r)}
         /\ go[r].kind # "policy" => config'.nic = config.nic
         /\ go[r].kind # "nic" => config'.addr = config.addr
         /\ go[r].kind = "nic" => config'.addr = go[r].addr /\ go[r].addr # NoAddr
         /\ config.addr # NoAddr => config'.addr = config.addr
  <1>1. /\ config.devices \in SUBSET Device /\ config.nic \in {"full", "slow"}
        /\ config.addr \in Addr \cup {NoAddr} /\ go[r].limit \in {"full", "slow"}
        /\ go[r].addr \in Addr \cup {NoAddr} /\ go[r].old \in SUBSET Row
        /\ go[r].new \in SUBSET Row
    BY DEF IInv, TypeOK, Config, Goroutine
  <1>2. {ProxyDevice(m) : m \in Adds(r)} \in SUBSET Device
    BY <1>1 DEF Adds, ProxyDevice, Device, Row
  <1>3. go[r].kind = "nic" => go[r].addr # NoAddr /\ config.addr \in {NoAddr, go[r].addr}
    BY DEF IInv, AddrInv, AddrAt
  <1> QED
    BY <1>1, <1>2, <1>3 DEF Edited, Config

\* The configuration is updated, or the update is refused.
LEMMA UpdateInstanceInv ==
  ASSUME IInv, NEW r \in Request, UpdateInstance(r)
  PROVE  IInv'
  <1> USE DEF UpdateInstance
  <1>1. CASE Edit(r, FALSE) /\ UNCHANGED config
    BY <1>1, EditStep
  <1>2. CASE config \in go[r].copy /\ config' = Edited(r, config) /\ Edit(r, TRUE)
    <2>1. PICK l \in Location :
            /\ Go(r, l, [go[r] EXCEPT !.copy = {}])
            /\ [go[r] EXCEPT !.copy = {}] \in Goroutine
            /\ l \in {"row", "ports", "apply", "done"}
            /\ l = "row" => ~go[r].undo /\ go[r].kind \in Creates \cup {"remove", "update"}
            /\ l = "ports" => go[r].kind = "policy" /\ go[r].start
            /\ l = "apply" => go[r].kind = "nic"
            /\ go[r].kind = "remove" => l = "row"
            /\ go[r].kind = "update" /\ ~go[r].undo => l = "row"
      BY <1>2, EditGoes DEF IInv
    <2>2. /\ config' \in Config
          /\ config'.devices = {d \in config.devices : d.name \notin Own(r)}
                               \cup {ProxyDevice(m) : m \in Adds(r)}
          /\ go[r].kind = "nic" => config'.addr = go[r].addr /\ go[r].addr # NoAddr
          /\ config.addr # NoAddr => config'.addr = config.addr
      BY <1>2, UpdateInstanceKeeps
    <2> DEFINE g == [go[r] EXCEPT !.copy = {}]
    <2>3. /\ g.kind = go[r].kind /\ g.old = go[r].old /\ g.new = go[r].new /\ g.addr = go[r].addr
          /\ g.start = go[r].start /\ g.undo = go[r].undo
      BY DEF IInv, TypeOK, Goroutine
    <2>4. g \in Goroutine /\ Go(r, l, g)
      BY <2>1
    <2> HIDE DEF g
    <2>5. /\ go' \in [Request -> Goroutine] /\ \A q \in Request : q # r => go'[q] = go[q]
          /\ go'[r].at = l
          /\ l # "done" => /\ go'[r].kind = go[r].kind /\ go'[r].old = go[r].old
                           /\ go'[r].new = go[r].new /\ go'[r].addr = go[r].addr
                           /\ go'[r].start = go[r].start /\ go'[r].undo = go[r].undo
          /\ l = "done" => /\ go'[r].kind = "policy" /\ go'[r].old = {} /\ go'[r].new = {}
                           /\ ~go'[r].start /\ ~go'[r].undo
      BY <2>3, <2>4, GoOn DEF IInv
    <2>6. /\ go[r].old \subseteq Row /\ go[r].new \subseteq Row
          /\ Own(r) \subseteq {m.name : m \in go[r].old \cup go[r].new}
          /\ ~go[r].undo => Adds(r) = go[r].new
      BY DEF IInv, TypeOK, Goroutine, Own, Adds, Removes
    <2>7. TypeOK'
      BY <2>2, <2>5 DEF IInv, TypeOK
    <2>8. RowInv'
      BY <2>1, <2>5 DEF IInv, RowInv, Unique, TypeOK
    <2>9. ShapeInv'
      <3>1. EditShape(r)' /\ PathShape(r)'
        BY <2>1, <2>5 DEF IInv, ShapeInv, EditShape, PathShape, Active, Creates
      <3> QED
        BY <2>5, <3>1 DEF IInv, ShapeInv, EditShape, PathShape, Active
    <2>10. FreshInv'
      BY <2>1, <2>5 DEF IInv, FreshInv, FreshAt, Creates, Editing
    <2>11. AddrInv'
      <3>1. AddrAt(r)'
        BY <2>1, <2>2, <2>5 DEF AddrAt
      <3> QED
        BY <2>2, <2>5, <3>1 DEF IInv, AddrInv, AddrAt
    <2>12. GuestAddressed'
      BY <2>2 DEF IInv, GuestAddressed
    <2>13. ApartInv'
      <3>1. SUFFICES ASSUME orderly, NEW p \in Request, NEW q \in Request,
                            p # q, Active(p)', Active(q)'
                     PROVE  ~Clash(KindOf(p)', KindOf(q)') /\ ~SameMapping(go'[p].old, go'[q].old)
        BY DEF ApartInv, ApartAt
      <3>2. \A s \in {p, q} : Active(s) /\ KindOf(s)' = KindOf(s) /\ go'[s].old = go[s].old
        <4>1. ASSUME NEW s \in {p, q}
              PROVE  Active(s) /\ KindOf(s)' = KindOf(s) /\ go'[s].old = go[s].old
          <5>1. CASE s = r
            BY <2>5, <3>1, <5>1 DEF Active, KindOf
          <5>2. CASE s # r
            BY <2>5, <3>1, <5>2 DEF Active, KindOf
          <5> QED
            BY <5>1, <5>2
        <4> QED
          BY <4>1
      <3> QED
        BY <3>1, <3>2 DEF IInv, ApartInv, ApartAt
    <2>14. ASSUME orderly, NEW q \in Request, q # r, go[q].at = "row",
                  go[q].kind \in Creates \cup {"update"}, NEW m \in go[q].new,
                  NEW n \in go[r].old \cup go[r].new
           PROVE  m.name # n.name
      <3>1. Active(q) /\ Active(r) /\ go[r].at \in Editing /\ go[q].at \in Editing
        BY <2>14 DEF Active, Editing
      <3>2. ~Clash(KindOf(r), KindOf(q)) /\ ~SameMapping(go[r].old, go[q].old)
        BY <2>14, <3>1 DEF IInv, ApartInv, ApartAt
      <3>3. /\ go[r].kind = "remove" /\ ~go[r].start
            /\ go[q].kind \in {"add", "update"}
        <4>1. KindOf(q) \in {"add", "update", "start"}
          BY <2>14 DEF IInv, ShapeInv, PathShape, KindOf, Creates
        <4>2. /\ KindOf(r) \notin {"add", "update", "start"}
              /\ KindOf(q) = "start" => KindOf(r) # "remove"
          BY <3>2, <4>1 DEF Clash
        <4>3. go[r].kind \in EditKind /\ go[q].kind \in EditKind
          BY DEF IInv, TypeOK, Goroutine
        <4>4. go[r].kind \notin {"policy", "nic"}
          BY <2>14 DEF IInv, ShapeInv, EditShape
        <4>5. go[r].kind = "remove" /\ ~go[r].start
          <5>1. ~go[r].start
            BY <4>2 DEF KindOf
          <5> QED
            BY <4>2, <4>3, <4>4, <5>1 DEF IInv, ShapeInv, PathShape, KindOf, EditKind
        <4> QED
          BY <4>1, <4>2, <4>5, <2>14 DEF IInv, ShapeInv, PathShape, KindOf, Creates
      <3>4. n \in rows /\ n \in go[r].old
        BY <2>14, <3>3 DEF IInv, OrderInv, OrderAt, ShapeInv, EditShape
      <3>5. CASE go[q].kind = "add"
        BY <2>14, <3>1, <3>4, <3>5 DEF IInv, OrderInv, OrderAt, Creates
      <3>6. CASE go[q].kind = "update"
        <4>1. n \notin go[q].old
          BY <3>2, <3>4 DEF SameMapping
        <4> QED
          BY <2>14, <3>4, <3>6, <4>1 DEF IInv, OrderInv, OrderAt
      <3> QED
        BY <3>3, <3>5, <3>6
    <2>15. ASSUME NEW q \in Request, q # r, OrderAt(q), orderly
           PROVE  OrderAt(q)'
      <3>1. ASSUME go[q].kind \in Creates \cup {"update"}, go[q].at = "row", NEW m \in go[q].new
            PROVE  ProxyDevice(m) \in config'.devices
        <4>1. ProxyDevice(m) \in config.devices
          BY <2>15, <3>1 DEF OrderAt
        <4>2. ProxyDevice(m).name \notin Own(r)
          BY <2>6, <2>14, <2>15, <3>1 DEF ProxyDevice
        <4> QED
          BY <2>2, <4>1, <4>2
      <3> QED
        BY <2>5, <2>15, <3>1 DEF OrderAt
    <2>16. orderly => OrderAt(r)'
      BY <2>1, <2>2, <2>5, <2>6 DEF IInv, OrderInv, OrderAt, Creates, Editing
    <2>17. OrderInv'
      BY <2>15, <2>16 DEF IInv, OrderInv
    <2>18. ASSUME orderly, NEW x \in rows, ProxyDevice(x) \in config.devices,
                  ProxyDevice(x) \notin config'.devices
           PROVE  Leaving(x)'
      <3>1. PICK n \in go[r].old \cup go[r].new : n.name = x.name
        BY <2>2, <2>6, <2>18 DEF ProxyDevice
      <3>2. /\ go[r].kind \in EditKind /\ go[r].kind \notin {"policy", "nic"}
            /\ x \in Row /\ n \in Row
        BY <2>6 DEF IInv, TypeOK, Goroutine, ShapeInv, EditShape
      <3>3. go[r].kind \notin Creates
        BY <2>18, <3>1 DEF IInv, OrderInv, OrderAt, ShapeInv, EditShape, Editing
      <3>4. CASE go[r].kind = "remove"
        <4>1. n \in go[r].old /\ n \in rows
          BY <2>18, <3>1, <3>4 DEF IInv, OrderInv, OrderAt, ShapeInv, EditShape
        <4>2. x = n
          BY <3>1, <4>1 DEF IInv, RowInv, Unique
        <4> QED
          BY <2>1, <2>5, <3>4, <4>1, <4>2 DEF Leaving
      <3>5. CASE go[r].kind = "update"
        <4>1. x \in go[r].old
          <5>1. CASE n \in go[r].old
            <6>1. n \in rows
              BY <2>18, <3>5, <5>1 DEF IInv, OrderInv, OrderAt
            <6> QED
              BY <3>1, <5>1, <6>1 DEF IInv, RowInv, Unique
          <5>2. CASE n \in go[r].new
            BY <2>18, <3>1, <3>5, <5>2 DEF IInv, OrderInv, OrderAt
          <5> QED
            BY <5>1, <5>2
        <4>2. l = "row"
          BY <2>1, <2>18, <3>5 DEF IInv, OrderInv, OrderAt
        <4> QED
          BY <2>5, <3>5, <4>1, <4>2 DEF Leaving
      <3> QED
        BY <3>2, <3>3, <3>4, <3>5 DEF EditKind, Creates
    <2>19. ASSUME NEW x \in rows, Leaving(x)
           PROVE  Leaving(x)'
      BY <2>5, <2>19 DEF Leaving
    <2>20. DeviceInv'
      BY <2>18, <2>19 DEF IInv, DeviceInv
    <2> QED
      BY <2>7, <2>8, <2>9, <2>10, <2>11, <2>12, <2>13, <2>17, <2>20 DEF IInv
  <1> QED
    BY <1>1, <1>2

------------------------------------------------------------------------------

\* An error of the database sends the request back to undo its edit.
LEMMA RollBackInv ==
  ASSUME IInv, NEW r \in Request, go[r].at = "row", go[r].kind \in {"add", "fill", "update"},
         RollBack(r), UNCHANGED <<config, guest>>,
         orderly' \in BOOLEAN, orderly' => orderly, go[r].kind = "update" => ~orderly'
  PROVE  IInv'
  <1> DEFINE g == [go[r] EXCEPT !.undo = TRUE]
  <1>1. /\ g \in Goroutine /\ g.kind = go[r].kind /\ g.old = go[r].old /\ g.new = go[r].new
        /\ g.start = go[r].start
    <2>1. go[r] \in Goroutine
      BY DEF IInv, TypeOK
    <2> QED
      BY <2>1 DEF Goroutine
  <1>2. Go(r, "get", g) /\ rows' = rows
    BY DEF RollBack
  <1> HIDE DEF g
  <1>3. /\ go' \in [Request -> Goroutine] /\ \A q \in Request : q # r => go'[q] = go[q]
        /\ go'[r].at = "get" /\ go'[r].kind = go[r].kind /\ go'[r].old = go[r].old
        /\ go'[r].new = go[r].new /\ go'[r].start = go[r].start
    BY <1>1, <1>2, GoOn DEF IInv, Location
  <1>4. Active(r) /\ go[r].at \in Editing
    BY DEF Active, Editing
  <1>5. /\ EditShape(r)' /\ FreshAt(r)'
        /\ orderly' => ApartAt(r)' /\ OrderAt(r)'
    BY <1>2, <1>3, <1>4, SameEdit
  <1>6. PathShape(r)' /\ AddrAt(r)'
    BY <1>3 DEF IInv, ShapeInv, PathShape, AddrAt, Active
  <1> QED
    BY <1>2, <1>3, <1>5, <1>6, GoStep DEF IInv, TypeOK, GuestAddressed

\* Rows of an edit are added: their ids and names are new, their devices attached.
LEMMA AddRows ==
  ASSUME IInv, NEW r \in Request, go[r].at = "row", go[r].kind \in Creates,
         rows \subseteq rows', rows' \subseteq rows \cup go[r].new, Unique(rows'),
         Goto(r, "done") \/ (go[r].kind # "add" /\ Goto(r, "fill")),
         UNCHANGED <<config, guest, orderly>>
  PROVE  IInv'
  <1>1. PICK l \in {"done", "fill"} : Goto(r, l) /\ (l = "fill" => go[r].kind # "add")
    OBVIOUS
  <1>2. go[r] \in Goroutine /\ l \in Location
    BY DEF IInv, TypeOK, Location
  <1>3. /\ go' \in [Request -> Goroutine] /\ \A q \in Request : q # r => go'[q] = go[q]
        /\ go'[r].at = l
        /\ l # "done" => /\ go'[r].kind = go[r].kind /\ go'[r].old = go[r].old
                         /\ go'[r].new = go[r].new
                         /\ go'[r].start = go[r].start /\ go'[r].undo = go[r].undo
        /\ l = "done" => /\ go'[r].kind = "policy" /\ go'[r].old = {} /\ go'[r].new = {}
                         /\ ~go'[r].start /\ ~go'[r].undo
    BY <1>1, <1>2, GoOn DEF IInv, Goto
  <1>4. /\ go[r].new \subseteq Row /\ rows \subseteq Row
        /\ \A m \in go[r].new : m.id = <<r, m.host>> /\ m.id[2] = m.host
        /\ go[r].kind = "add" => /\ \E m \in Row : go[r].new = {m}
                                 /\ \A m \in go[r].new : m.name[1] # "block"
                                                         /\ m.name[3] \in {Plain, r}
        /\ go[r].kind # "add" => \A m \in go[r].new : m.name = <<"block", m.host, Plain>>
    BY DEF IInv, TypeOK, Goroutine, ShapeInv, EditShape, Creates
  <1>5. \A x \in rows, m \in go[r].new : x.id # m.id
    BY DEF IInv, FreshInv, FreshAt, Editing
  <1>6. ASSUME NEW x \in rows', NEW y \in rows', x.id = y.id
        PROVE  x = y
    <2>1. CASE x \in rows /\ y \in rows
      BY <1>6, <2>1 DEF IInv, TypeOK
    <2>2. CASE x \in rows /\ y \in go[r].new
      BY <1>5, <1>6, <2>2
    <2>3. CASE x \in go[r].new /\ y \in rows
      BY <1>5, <1>6, <2>3
    <2>4. CASE x \in go[r].new /\ y \in go[r].new
      <3>1. x.host = y.host
        BY <1>4, <1>6, <2>4
      <3>2. CASE go[r].kind = "add"
        BY <1>4, <2>4, <3>2
      <3>3. CASE go[r].kind # "add"
        <4>1. x.name = y.name
          BY <1>4, <2>4, <3>1, <3>3
        <4> QED
          BY <4>1 DEF Unique
      <3> QED
        BY <3>2, <3>3
    <2> QED
      BY <2>1, <2>2, <2>3, <2>4
  <1>7. TypeOK'
    BY <1>3, <1>4, <1>6 DEF IInv, TypeOK
  <1>8. RowInv'
    <2>1. ASSUME NEW x \in rows'
          PROVE  /\ x.id[2] = x.host
                 /\ x.name[1] = "block" => x.name[2] = x.host
                 /\ x.name[3] \in Request => go'[x.name[3]].at # "idle"
      <3>1. CASE x \in rows
        BY <1>1, <1>3, <3>1 DEF IInv, RowInv
      <3>2. CASE x \in go[r].new
        BY <1>1, <1>3, <1>4, <3>2
      <3> QED
        BY <3>1, <3>2
    <2> QED
      BY <2>1 DEF RowInv
  <1>9. ShapeInv'
    <2>1. EditShape(r)' /\ PathShape(r)'
      BY <1>1, <1>3 DEF IInv, ShapeInv, EditShape, PathShape, Active, Creates
    <2> QED
      BY <1>3, <2>1 DEF IInv, ShapeInv, EditShape, PathShape, Active
  <1>10. FreshInv'
    <2>1. ASSUME NEW q \in Request, q # r, go[q].kind \in Creates, go[q].at \in Editing,
                 NEW x \in rows', NEW m \in go[q].new
          PROVE  x.id # m.id
      <3>1. m.id = <<q, m.host>>
        BY <2>1 DEF IInv, ShapeInv, EditShape
      <3>2. CASE x \in rows
        BY <2>1, <3>2 DEF IInv, FreshInv, FreshAt
      <3>3. CASE x \in go[r].new
        BY <1>4, <2>1, <3>1, <3>3
      <3> QED
        BY <3>2, <3>3
    <2>2. FreshAt(r)'
      BY <1>1, <1>3 DEF FreshAt, Editing
    <2> QED
      BY <1>3, <2>1, <2>2 DEF FreshInv, FreshAt
  <1>11. AddrInv' /\ GuestAddressed'
    BY <1>1, <1>3 DEF IInv, AddrInv, AddrAt, GuestAddressed
  <1>12. Active(r) /\ ~go[r].undo
    BY DEF Active, IInv, ShapeInv, PathShape
  <1>13. ASSUME NEW q \in Request, Active(q)'
         PROVE  Active(q) /\ KindOf(q)' = KindOf(q) /\ go'[q].old = go[q].old
    <2>1. CASE q = r
      BY <1>3, <1>12, <1>13, <2>1 DEF Active, KindOf
    <2>2. CASE q # r
      BY <1>3, <1>13, <2>2 DEF Active, KindOf
    <2> QED
      BY <2>1, <2>2
  <1>14. ApartInv'
    BY <1>13 DEF IInv, ApartInv, ApartAt
  <1>15. ASSUME orderly, NEW q \in Request, q # r, Active(q)
         PROVE  KindOf(q) \notin {"add", "update", "start"}
    <2>1. KindOf(r) \in {"add", "start"}
      BY DEF IInv, ShapeInv, PathShape, KindOf, Creates
    <2>2. ~Clash(KindOf(r), KindOf(q))
      BY <1>12, <1>15 DEF IInv, ApartInv, ApartAt
    <2> QED
      BY <2>1, <2>2 DEF Clash
  <1>16. ASSUME orderly, NEW q \in Request, q # r
         PROVE  OrderAt(q)'
    <2>1. OrderAt(q)
      BY <1>16 DEF IInv, OrderInv
    <2>2. go[q].kind \in Creates \cup {"update"} => ~Active(q)
      BY <1>15, <1>16 DEF IInv, ShapeInv, PathShape, KindOf, Creates
    <2>3. go[q].kind # "update" /\ ~(go[q].kind \in Creates /\ go[q].at \in Editing)
      BY <2>2 DEF IInv, ShapeInv, PathShape, Active, Editing
    <2>4. go'[q] = go[q]
      BY <1>3, <1>16
    <2> QED
      BY <2>1, <2>3, <2>4 DEF OrderAt, Editing
  <1>17. OrderAt(r)'
    BY <1>1, <1>3 DEF OrderAt, Creates, Editing
  <1>18. OrderInv'
    BY <1>16, <1>17 DEF OrderInv
  <1>19. ASSUME orderly, NEW x \in rows'
         PROVE  ProxyDevice(x) \in config.devices \/ Leaving(x)'
    <2>1. CASE x \in go[r].new
      BY <1>19, <2>1 DEF IInv, OrderInv, OrderAt
    <2>2. CASE x \in rows
      <3>1. Leaving(x) => Leaving(x)'
        BY <1>3 DEF Leaving, Creates
      <3> QED
        BY <1>19, <2>2, <3>1 DEF IInv, DeviceInv
    <2> QED
      BY <2>1, <2>2
  <1>20. DeviceInv'
    BY <1>19 DEF DeviceInv
  <1> QED
    BY <1>7, <1>8, <1>9, <1>10, <1>11, <1>14, <1>18, <1>20 DEF IInv

\* The rows of a new mapping, or of a block, are stored or refused.
LEMMA AddPortInv ==
  ASSUME IInv, NEW r \in Request, AddPort(r)
  PROVE  IInv'
  <1> DEFINE stored == rows \cup go[r].new
  <1>1. go[r].at = "row" /\ go[r].kind \in Creates /\ UNCHANGED <<config, guest, orderly>>
    BY DEF AddPort, Creates
  <1>2. CASE /\ Unique(stored)
             /\ rows' = stored
             /\ Goto(r, IF go[r].kind = "add" THEN "done" ELSE "fill")
    <2>1. rows \subseteq rows' /\ rows' \subseteq rows \cup go[r].new /\ Unique(rows')
      BY <1>2
    <2>2. Goto(r, "done") \/ (go[r].kind # "add" /\ Goto(r, "fill"))
      <3>1. CASE go[r].kind = "add"
        BY <1>2, <3>1 DEF Goto, Go
      <3>2. CASE go[r].kind # "add"
        BY <1>2, <3>2 DEF Goto, Go
      <3> QED
        BY <3>1, <3>2
    <2> QED
      BY <1>1, <2>1, <2>2, AddRows
  <1>3. CASE go[r].kind # "block" /\ RollBack(r)
    BY <1>1, <1>3, RollBackInv DEF IInv, TypeOK, Creates
  <1>4. CASE /\ \E m \in go[r].new : rows' = rows \cup {x \in go[r].new : x.host < m.host}
             /\ Unique(rows')
             /\ Goto(r, "done")
    <2>1. rows \subseteq rows' /\ rows' \subseteq rows \cup go[r].new /\ Unique(rows')
      BY <1>4
    <2> QED
      <3>1. Goto(r, "done")
        BY <1>4
      <3>2. Goto(r, "done") \/ (go[r].kind # "add" /\ Goto(r, "fill"))
        BY <3>1
      <3> QED
        BY <1>1, <2>1, <3>2, AddRows
  <1> QED
    BY <1>2, <1>3, <1>4 DEF AddPort

\* The row of a mapping that is removed is deleted: no other request has read it.
LEMMA DeletePortInv ==
  ASSUME IInv, NEW r \in Request, DeletePort(r)
  PROVE  IInv'
  <1>1. /\ go[r].at = "row" /\ go[r].kind = "remove" /\ Goto(r, "done")
        /\ UNCHANGED <<config, guest>>
    BY DEF DeletePort
  <1>2. CASE UNCHANGED rows /\ orderly' = FALSE
    BY <1>1, <1>2, EndStep DEF IInv, TypeOK, GuestAddressed
  <1>3. CASE rows' = {x \in rows : \A m \in go[r].old : x.id # m.id} /\ UNCHANGED orderly
    <2>2. /\ go' \in [Request -> Goroutine] /\ \A q \in Request : q # r => go'[q] = go[q]
          /\ go'[r].at = "done"
          /\ FreshAt(r)' /\ AddrAt(r)' /\ OrderAt(r)' /\ ShapeInv' /\ ApartInv'
      BY <1>1, <1>3, Ended
    <2>4. TypeOK' /\ RowInv'
      BY <1>1, <1>3, <2>2 DEF IInv, TypeOK, RowInv, Unique
    <2>6. FreshInv' /\ AddrInv' /\ GuestAddressed'
      BY <1>1, <1>3, <2>2 DEF IInv, FreshInv, FreshAt, AddrInv, AddrAt, GuestAddressed
    <2>8. ASSUME orderly, NEW q \in Request, q # r
          PROVE  OrderAt(q)'
      <3>1. OrderAt(q) /\ go'[q] = go[q]
        BY <2>2, <2>8 DEF IInv, OrderInv
      <3>2. ASSUME go[q].kind \in {"remove", "update"}
            PROVE  go[q].old \subseteq rows'
        <4>1. Active(q) /\ Active(r)
          BY <1>1, <3>2 DEF IInv, ShapeInv, PathShape, Active
        <4>2. ~SameMapping(go[r].old, go[q].old)
          BY <2>8, <4>1 DEF IInv, ApartInv, ApartAt
        <4> QED
          BY <1>3, <3>1, <3>2, <4>2 DEF OrderAt, SameMapping
      <3> QED
        BY <1>1, <1>3, <3>1, <3>2 DEF OrderAt
    <2>9. OrderInv'
      BY <2>2, <2>8, <1>3 DEF OrderInv
    <2>10. ASSUME orderly, NEW x \in rows'
           PROVE  ProxyDevice(x) \in config.devices \/ Leaving(x)'
      <3>1. ASSUME Leaving(x)
            PROVE  Leaving(x)'
        <4>1. PICK q \in Request : /\ go[q].at = "row" /\ go[q].kind \in {"remove", "update"}
                                   /\ \E m \in go[q].old : m.id = x.id
          BY <3>1 DEF Leaving
        <4>2. q # r
          BY <1>3, <2>10, <4>1
        <4> QED
          BY <2>2, <4>1, <4>2 DEF Leaving
      <3> QED
        BY <1>3, <2>10, <3>1 DEF IInv, DeviceInv
    <2>11. DeviceInv'
      BY <1>1, <1>3, <2>10 DEF DeviceInv
    <2> QED
      BY <2>2, <2>4, <2>6, <2>9, <2>11 DEF IInv
  <1> QED
    BY <1>1, <1>2, <1>3 DEF DeletePort

\* The row of a mapping gets its new protocol and name: its device is attached.
LEMMA UpdatePortProtocolInv ==
  ASSUME IInv, NEW r \in Request, UpdatePortProtocol(r)
  PROVE  IInv'
  <1> DEFINE updated == {x \in rows : \A m \in go[r].new : x.id # m.id}
                        \cup {m \in go[r].new : \E x \in rows : x.id = m.id}
  <1>1. go[r].at = "row" /\ go[r].kind = "update" /\ UNCHANGED <<config, guest>>
    BY DEF UpdatePortProtocol
  <1>2. CASE RollBack(r) /\ orderly' = FALSE
    BY <1>1, <1>2, RollBackInv
  <1>3. CASE Unique(updated) /\ rows' = updated /\ Goto(r, "done") /\ UNCHANGED orderly
    <2>2. /\ go' \in [Request -> Goroutine] /\ \A q \in Request : q # r => go'[q] = go[q]
          /\ go'[r].at = "done"
          /\ FreshAt(r)' /\ AddrAt(r)' /\ OrderAt(r)' /\ ShapeInv' /\ ApartInv'
      BY <1>1, <1>3, Ended
    <2>4. PICK m \in Row, n \in Row : /\ go[r].old = {m} /\ go[r].new = {n}
                                      /\ n.id = m.id /\ n.id[2] = n.host
                                      /\ n.name[1] # "block" /\ n.name[3] \in {Plain, r}
      BY <1>1 DEF IInv, ShapeInv, EditShape
    <2>5. /\ rows' \subseteq rows \cup {n} /\ Unique(rows')
          /\ \A x \in rows' : x # n => x \in rows /\ x.id # n.id
          /\ \A x \in rows : x.id # n.id => x \in rows'
          /\ \A x \in rows' : \E y \in rows : y.id = x.id
      BY <1>3, <2>4
    <2>6. TypeOK'
      BY <1>1, <1>3, <2>2, <2>4, <2>5 DEF IInv, TypeOK
    <2>7. RowInv'
      <3>1. ASSUME NEW x \in rows'
            PROVE  /\ x.id[2] = x.host
                   /\ x.name[1] = "block" => x.name[2] = x.host
                   /\ x.name[3] \in Request => go'[x.name[3]].at # "idle"
        <4>1. CASE x = n
          BY <2>2, <2>4, <4>1
        <4>2. CASE x \in rows
          BY <2>2, <4>2 DEF IInv, RowInv
        <4> QED
          BY <2>5, <4>1, <4>2
      <3> QED
        BY <2>5, <3>1 DEF RowInv
    <2>9. FreshInv' /\ AddrInv' /\ GuestAddressed'
      BY <1>1, <2>2, <2>5 DEF IInv, FreshInv, FreshAt, AddrInv, AddrAt, GuestAddressed
    <2>11. ASSUME orderly, NEW q \in Request, q # r
           PROVE  OrderAt(q)'
      <3>1. OrderAt(q) /\ go'[q] = go[q] /\ Active(r)
        BY <1>1, <2>2, <2>11 DEF IInv, OrderInv, Active
      <3>2. ASSUME Active(q)
            PROVE  /\ KindOf(q) \notin {"add", "update", "start"}
                   /\ ~SameMapping(go[r].old, go[q].old)
        <4>1. KindOf(r) = "update"
          BY <1>1 DEF IInv, ShapeInv, PathShape, KindOf
        <4>2. ~Clash(KindOf(r), KindOf(q)) /\ ~SameMapping(go[r].old, go[q].old)
          BY <2>11, <3>1, <3>2 DEF IInv, ApartInv, ApartAt
        <4> QED
          BY <4>1, <4>2 DEF Clash
      <3>3. go[q].kind # "update" /\ ~(go[q].kind \in Creates /\ go[q].at \in Editing)
        BY <3>2 DEF IInv, ShapeInv, PathShape, KindOf, Active, Creates, Editing
      <3>4. ASSUME go[q].kind = "remove"
            PROVE  go[q].old \subseteq rows'
        <4>1. ~SameMapping(go[r].old, go[q].old)
          BY <3>2, <3>4 DEF IInv, ShapeInv, PathShape
        <4>2. \A y \in go[q].old : y \in rows /\ y.id # n.id
          BY <2>4, <3>1, <3>4, <4>1 DEF OrderAt, SameMapping
        <4> QED
          BY <2>5, <4>2
      <3> QED
        BY <1>1, <3>1, <3>3, <3>4 DEF OrderAt, Editing
    <2>12. OrderInv'
      BY <1>3, <2>2, <2>11 DEF OrderInv
    <2>13. ASSUME orderly, NEW x \in rows'
           PROVE  ProxyDevice(x) \in config.devices \/ Leaving(x)'
      <3>1. CASE x = n
        BY <1>1, <2>4, <2>13, <3>1 DEF IInv, OrderInv, OrderAt
      <3>2. CASE x # n
        <4>1. x \in rows /\ x.id # m.id
          BY <2>4, <2>5, <3>2
        <4>2. ASSUME Leaving(x)
              PROVE  Leaving(x)'
          <5>1. PICK q \in Request : /\ go[q].at = "row" /\ go[q].kind \in {"remove", "update"}
                                     /\ \E y \in go[q].old : y.id = x.id
            BY <4>2 DEF Leaving
          <5>2. q # r
            BY <2>4, <4>1, <5>1
          <5> QED
            BY <2>2, <5>1, <5>2 DEF Leaving
        <4> QED
          BY <2>13, <4>1, <4>2 DEF IInv, DeviceInv
      <3> QED
        BY <3>1, <3>2
    <2>14. DeviceInv'
      BY <1>1, <1>3, <2>13 DEF DeviceInv
    <2> QED
      BY <2>2, <2>6, <2>7, <2>9, <2>12, <2>14 DEF IInv
  <1> QED
    BY <1>1, <1>2, <1>3 DEF UpdatePortProtocol

------------------------------------------------------------------------------

\* While a start runs, no other request is about a mapping, but for a limit.
LEMMA StartAlone ==
  ASSUME IInv, orderly, NEW r \in Request, go[r].start, NEW q \in Request, q # r, Active(q)
  PROVE  go[q].old = {} /\ ~Clash("start", KindOf(q))
  <1>1. go[r].at \notin {"idle", "done"}
    BY DEF IInv, ShapeInv, PathShape, Active
  <1>2. ~Clash("start", KindOf(q))
    BY <1>1 DEF IInv, ApartInv, ApartAt, Active, KindOf
  <1>3. KindOf(q) \notin {"add", "update", "start", "remove"}
    BY <1>2 DEF Clash
  <1>4. ~go[q].start /\ go[q].kind \in EditKind
    BY <1>3 DEF KindOf, IInv, TypeOK, Goroutine
  <1>5. go[q].kind \in {"policy", "nic"}
    BY <1>3, <1>4 DEF KindOf, IInv, ShapeInv, PathShape, EditKind
  <1> QED
    BY <1>2, <1>5 DEF IInv, ShapeInv, EditShape

\* A start goes on to mappings of its own.
LEMMA StartApart ==
  ASSUME IInv, NEW r \in Request, go[r].start, go'[r].start,
         \A q \in Request : q # r => go'[q] = go[q]
  PROVE  orderly => ApartAt(r)'
  <1> SUFFICES ASSUME orderly, NEW q \in Request, r # q, Active(q)'
               PROVE  ~Clash(KindOf(r)', KindOf(q)') /\ ~SameMapping(go'[r].old, go'[q].old)
    BY DEF ApartAt
  <1>1. KindOf(r)' = "start" /\ KindOf(q)' = KindOf(q) /\ Active(q) /\ go'[q] = go[q]
    BY DEF KindOf, Active
  <1>2. go[q].old = {} /\ ~Clash("start", KindOf(q))
    BY <1>1, StartAlone
  <1> QED
    BY <1>1, <1>2 DEF SameMapping

\* A start attaches rows of the block whose ports no mapping has.
LEMMA StartEdits ==
  ASSUME IInv, NEW r \in Request, go[r].start, ~go[r].undo,
         NEW kind \in {"fill", "block"}, NEW S \in SUBSET Port, NEW need \in SUBSET Nat,
         \A p \in S, x \in rows : x.host # p,
         Go(r, "get", [go[r] EXCEPT !.kind = kind, !.need = need,
                                    !.old = {BlockRow(r, p) : p \in S},
                                    !.new = {BlockRow(r, p) : p \in S}]),
         UNCHANGED <<rows, config, guest, orderly>>
  PROVE  IInv'
  <1> DEFINE block == {BlockRow(r, p) : p \in S}
             g == [go[r] EXCEPT !.kind = kind, !.need = need, !.old = block, !.new = block]
  <1>1. /\ block \in SUBSET Row
        /\ \A m \in block : /\ m.id = <<r, m.host>> /\ m.id[2] = m.host /\ m.host \in S
                            /\ m.name = <<"block", m.host, Plain>>
    BY BlockRowType
  <1>2. Go(r, "get", g)
    OBVIOUS
  <1> HIDE DEF block
  <1>3. /\ g \in Goroutine /\ g.kind = kind /\ g.old = block /\ g.new = block
        /\ g.start /\ ~g.undo
    <2>1. go[r] \in Goroutine /\ kind \in EditKind
      BY DEF IInv, TypeOK, EditKind
    <2> QED
      BY <1>1, <2>1 DEF Goroutine
  <1> HIDE DEF g
  <1>4. /\ go' \in [Request -> Goroutine] /\ \A q \in Request : q # r => go'[q] = go[q]
        /\ go'[r].at = "get" /\ go'[r].kind = kind /\ go'[r].old = block /\ go'[r].new = block
        /\ go'[r].start /\ ~go'[r].undo
    BY <1>2, <1>3, GoOn DEF IInv, Location
  <1>5. EditShape(r)' /\ PathShape(r)' /\ AddrAt(r)'
    BY <1>1, <1>4 DEF EditShape, PathShape, AddrAt, Active, Creates
  <1>6. FreshAt(r)'
    BY <1>1, <1>4 DEF FreshAt, IInv, RowInv
  <1>7. OrderAt(r)'
    <2>1. ASSUME NEW x \in rows, NEW m \in block
          PROVE  x.name # m.name
      <3>1. m.name[1] = "block" /\ m.name[2] = m.host /\ x.host # m.host
        BY <1>1
      <3> QED
        BY <3>1 DEF IInv, RowInv
    <2> QED
      BY <1>4, <2>1 DEF OrderAt
  <1>8. orderly' => ApartAt(r)'
    BY <1>4, StartApart
  <1>9. go[r].kind \notin {"remove", "update"}
    BY DEF IInv, ShapeInv, PathShape
  <1> QED
    BY <1>4, <1>5, <1>6, <1>7, <1>8, <1>9, GoStep DEF IInv, TypeOK, GuestAddressed

\* A start comes to the next port of its block.
LEMMA StartFills ==
  ASSUME IInv, NEW r \in Request, go[r].start, ~go[r].undo, go[r].kind # "nic",
         go[r].at \in {"ports", "fill"}, NEW need \in SUBSET Nat,
         Go(r, "fill", [go[r] EXCEPT !.need = need]),
         UNCHANGED <<rows, config, guest, orderly>>
  PROVE  IInv'
  <1> DEFINE g == [go[r] EXCEPT !.need = need]
  <1>1. /\ g \in Goroutine /\ g.kind = go[r].kind /\ g.old = go[r].old /\ g.new = go[r].new
        /\ g.start = go[r].start /\ g.undo = go[r].undo
    <2>1. go[r] \in Goroutine
      BY DEF IInv, TypeOK
    <2> QED
      BY <2>1 DEF Goroutine
  <1>2. Go(r, "fill", g)
    OBVIOUS
  <1> HIDE DEF g
  <1>3. /\ go' \in [Request -> Goroutine] /\ \A q \in Request : q # r => go'[q] = go[q]
        /\ go'[r].at = "fill" /\ go'[r].kind = go[r].kind /\ go'[r].old = go[r].old
        /\ go'[r].new = go[r].new /\ go'[r].start /\ ~go'[r].undo
    BY <1>1, <1>2, GoOn DEF IInv, Location
  <1>4. EditShape(r)' /\ PathShape(r)' /\ FreshAt(r)' /\ AddrAt(r)'
    BY <1>3 DEF IInv, ShapeInv, EditShape, PathShape, FreshAt, AddrAt, Active, Editing
  <1>5. go[r].kind \notin {"remove", "update"}
    BY DEF IInv, ShapeInv, PathShape
  <1>6. OrderAt(r)'
    BY <1>3, <1>5 DEF OrderAt, Editing
  <1>7. orderly' => ApartAt(r)'
    BY <1>3, StartApart
  <1> QED
    BY <1>3, <1>4, <1>6, <1>7, GoStep DEF IInv, TypeOK, GuestAddressed

\* The ports of the block are found.
LEMMA ListPortsInv ==
  ASSUME IInv, NEW r \in Request, ListPorts(r)
  PROVE  IInv'
  <1> DEFINE hosts == {x.host : x \in rows}
  <1>1. go[r].at = "ports" /\ UNCHANGED <<rows, config, guest, orderly>>
    BY DEF ListPorts
  <1>2. /\ go[r].start /\ ~go[r].undo /\ go[r].kind = "policy" /\ go[r].undo \in BOOLEAN
    BY <1>1 DEF IInv, TypeOK, Goroutine, ShapeInv, PathShape
  <1>3. CASE rows # {} /\ Go(r, "fill", [go[r] EXCEPT !.need = BlockAt(Min(hosts)) \ hosts])
    <2>1. hosts \in SUBSET Nat /\ hosts # {}
      BY <1>3 DEF IInv, TypeOK, Row
    <2>2. BlockAt(Min(hosts)) \ hosts \in SUBSET Nat
      BY <2>1, MinOfNat, BlockAtType
    <2> QED
      BY <1>1, <1>2, <1>3, <2>2, StartFills
  <1>4. CASE /\ rows = {}
             /\ \E p \in Port :
                  LET block == {BlockRow(r, q) : q \in BlockAt(p)}
                  IN  /\ \A q \in BlockAt(p) : q \in Port /\ Free(r, q)
                      /\ Go(r, "get", [go[r] EXCEPT !.kind = "block", !.old = block, !.new = block])
    <2>1. PICK p \in Port :
            LET block == {BlockRow(r, q) : q \in BlockAt(p)}
            IN  /\ \A q \in BlockAt(p) : q \in Port
                /\ Go(r, "get", [go[r] EXCEPT !.kind = "block", !.old = block, !.new = block])
      BY <1>4
    <2> DEFINE S == BlockAt(p)
               block == {BlockRow(r, q) : q \in S}
    <2>2. S \in SUBSET Port
      BY <2>1
    <2>3. [go[r] EXCEPT !.kind = "block", !.old = block, !.new = block]
            = [go[r] EXCEPT !.kind = "block", !.need = go[r].need, !.old = block, !.new = block]
          /\ go[r].need \in SUBSET Nat
      BY DEF IInv, TypeOK, Goroutine
    <2>4. Go(r, "get", [go[r] EXCEPT !.kind = "block", !.need = go[r].need,
                                     !.old = block, !.new = block])
      BY <2>1, <2>3 DEF Go
    <2> QED
      BY <1>1, <1>2, <1>4, <2>2, <2>3, <2>4, StartEdits
  <1>5. CASE Goto(r, "done")
    BY <1>1, <1>5, EndStep DEF IInv, TypeOK, GuestAddressed
  <1> QED
    BY <1>1, <1>3, <1>4, <1>5 DEF ListPorts

\* The next port of the block is filled or skipped, or the NIC's turn has come.
LEMMA FillPortInv ==
  ASSUME IInv, NEW r \in Request, FillPort(r)
  PROVE  IInv'
  <1> DEFINE p == Min(go[r].need)
  <1>1. go[r].at = "fill" /\ UNCHANGED <<rows, config, guest, orderly>>
    BY DEF FillPort
  <1>2. go[r].start /\ ~go[r].undo /\ go[r].kind # "nic" /\ go[r] \in Goroutine
        /\ go[r].need \ {p} \in SUBSET Nat
    <2>1. go[r].need \in SUBSET Nat /\ go[r] \in Goroutine
      BY DEF IInv, TypeOK, Goroutine
    <2> QED
      BY <1>1, <2>1 DEF IInv, ShapeInv, PathShape
  <1>3. CASE /\ p \in Port /\ Free(r, p)
             /\ Go(r, "get", [go[r] EXCEPT !.kind = "fill", !.need = @ \ {p},
                                           !.old = {BlockRow(r, p)}, !.new = {BlockRow(r, p)}])
    <2> DEFINE S == {p}
    <2>1. {BlockRow(r, q) : q \in S} = {BlockRow(r, p)}
      OBVIOUS
    <2>2. S \in SUBSET Port /\ \A q \in S, x \in rows : x.host # q
      BY <1>3 DEF Free
    <2>3. Go(r, "get", [go[r] EXCEPT !.kind = "fill", !.need = go[r].need \ {p},
                                     !.old = {BlockRow(r, q) : q \in S},
                                     !.new = {BlockRow(r, q) : q \in S}])
      BY <1>3, <2>1 DEF Go
    <2> QED
      BY <1>1, <1>2, <2>2, <2>3, StartEdits
  <1>4. CASE Go(r, "fill", [go[r] EXCEPT !.need = @ \ {p}])
    BY <1>1, <1>2, <1>4, StartFills
  <1>5. CASE Go(r, "get", [NoEdit EXCEPT !.kind = "nic", !.start = TRUE])
    <2> DEFINE g == [NoEdit EXCEPT !.kind = "nic", !.start = TRUE]
    <2>1. /\ g \in Goroutine /\ g.kind = "nic" /\ g.old = {} /\ g.new = {} /\ g.start /\ ~g.undo
      BY NoEditType DEF NoEdit, Goroutine, EditKind
    <2>2. Go(r, "get", g)
      BY <1>5
    <2> HIDE DEF g
    <2>3. /\ go' \in [Request -> Goroutine] /\ \A q \in Request : q # r => go'[q] = go[q]
          /\ go'[r].at = "get" /\ go'[r].kind = "nic" /\ go'[r].old = {} /\ go'[r].new = {}
          /\ go'[r].start /\ ~go'[r].undo
      BY <2>1, <2>2, GoOn DEF IInv, Location
    <2>4. /\ EditShape(r)' /\ PathShape(r)' /\ FreshAt(r)' /\ AddrAt(r)' /\ OrderAt(r)'
      BY <2>3 DEF EditShape, PathShape, FreshAt, AddrAt, OrderAt, Active, Creates
    <2>5. orderly' => ApartAt(r)'
      BY <1>1, <1>2, <2>3, StartApart
    <2> QED
      BY <1>1, <2>3, <2>4, <2>5, GoStep DEF IInv, TypeOK, GuestAddressed
  <1> QED
    BY <1>1, <1>3, <1>4, <1>5 DEF FillPort

\* The address of the NIC is kept, or one is chosen.
LEMMA EnsureInstanceIPv4Inv ==
  ASSUME IInv, NEW r \in Request, EnsureInstanceIPv4(r)
  PROVE  IInv'
  <1>1. go[r].at = "get" /\ go[r].kind = "nic" /\ UNCHANGED <<rows, config, guest, orderly>>
    BY DEF EnsureInstanceIPv4
  <1>2. /\ go[r] \in Goroutine /\ go[r].start /\ ~go[r].undo
        /\ go[r].old = {} /\ go[r].new = {}
        /\ config \in Config /\ config.addr \in Addr \cup {NoAddr}
    BY <1>1 DEF IInv, TypeOK, ShapeInv, PathShape, EditShape, Config
  <1>3. ASSUME NEW l \in {"put", "apply"}, NEW g \in Goroutine, Go(r, l, g),
               g.kind = "nic", g.start, ~g.undo, g.old = {}, g.new = {},
               l = "apply" => g.addr = config.addr /\ config.addr # NoAddr,
               l = "put" => g.addr # NoAddr /\ g.copy = {config}
                            /\ config.addr \in {NoAddr, g.addr}
        PROVE  IInv'
    <2>1. /\ go' \in [Request -> Goroutine] /\ \A q \in Request : q # r => go'[q] = go[q]
          /\ go'[r].at = l /\ go'[r].kind = "nic" /\ go'[r].old = {} /\ go'[r].new = {}
          /\ go'[r].start /\ ~go'[r].undo /\ go'[r].addr = g.addr /\ go'[r].copy = g.copy
      BY <1>3, GoOn DEF IInv, Location
    <2>2. EditShape(r)' /\ PathShape(r)' /\ FreshAt(r)' /\ OrderAt(r)'
      BY <2>1 DEF EditShape, PathShape, FreshAt, OrderAt, Active, Creates
    <2>3. AddrAt(r)'
      BY <1>1, <1>3, <2>1 DEF AddrAt
    <2>4. orderly' => ApartAt(r)'
      BY <1>1, <1>2, <2>1, StartApart
    <2> QED
      BY <1>1, <1>3, <2>1, <2>2, <2>3, <2>4, GoStep DEF IInv, TypeOK, GuestAddressed
  <1>4. ASSUME NEW a \in IF config.addr = NoAddr THEN AllocateContainerIPv4 ELSE {config.addr},
               Go(r, "put", [go[r] EXCEPT !.addr = a, !.copy = {config}])
        PROVE  IInv'
    <2> DEFINE g == [go[r] EXCEPT !.addr = a, !.copy = {config}]
    <2>1. a \in Addr /\ config.addr \in {NoAddr, a} /\ a # NoAddr
      BY <1>2 DEF AllocateContainerIPv4
    <2>2. /\ g \in Goroutine /\ g.kind = "nic" /\ g.start /\ ~g.undo /\ g.old = {} /\ g.new = {}
          /\ g.addr = a /\ g.copy = {config}
      BY <1>1, <1>2, <2>1 DEF Goroutine
    <2>3. Go(r, "put", g)
      BY <1>4
    <2> HIDE DEF g
    <2> QED
      BY <1>3, <2>1, <2>2, <2>3
  <1>5. ASSUME NEW a \in IF config.addr = NoAddr THEN AllocateContainerIPv4 ELSE {config.addr},
               config.addr # NoAddr, Go(r, "apply", [go[r] EXCEPT !.addr = a])
        PROVE  IInv'
    <2> DEFINE g == [go[r] EXCEPT !.addr = a]
    <2>1. a \in Addr /\ a = config.addr
      BY <1>2, <1>5
    <2>2. /\ g \in Goroutine /\ g.kind = "nic" /\ g.start /\ ~g.undo /\ g.old = {} /\ g.new = {}
          /\ g.addr = a
      BY <1>1, <1>2, <2>1 DEF Goroutine
    <2>3. Go(r, "apply", g)
      BY <1>5
    <2> HIDE DEF g
    <2> QED
      BY <1>3, <1>5, <2>1, <2>2, <2>3
  <1>6. CASE Goto(r, "done")
    BY <1>1, <1>6, EndStep DEF IInv, TypeOK, GuestAddressed
  <1> QED
    BY <1>1, <1>4, <1>5, <1>6 DEF EnsureInstanceIPv4

\* The guest gets the address that the NIC has.
LEMMA ApplyGuestStaticIPv4Inv ==
  ASSUME IInv, NEW r \in Request, ApplyGuestStaticIPv4(r)
  PROVE  IInv'
  <1>1. /\ go[r].at = "apply" /\ Goto(r, "done") /\ UNCHANGED <<rows, config, orderly>>
        /\ guest' \in {go[r].addr, guest}
    BY DEF ApplyGuestStaticIPv4
  <1>2. guest' \in Addr \cup {NoAddr} /\ GuestAddressed'
    BY <1>1 DEF IInv, TypeOK, Goroutine, GuestAddressed, AddrInv, AddrAt
  <1> QED
    BY <1>1, <1>2, EndStep DEF IInv, TypeOK

------------------------------------------------------------------------------

\* The instance as it was provisioned.
LEMMA InitInv == Init => IInv
  <1> SUFFICES ASSUME Init
               PROVE  IInv
    OBVIOUS
  <1>1. PICK S \in SUBSET Block : rows = {BlockRow(Plain, p) : p \in S}
    BY DEF Init
  <1>2. PICK a \in Addr \cup {NoAddr} :
          /\ config = [devices |-> {ProxyDevice(BlockRow(Plain, p)) : p \in Block},
                       nic |-> "full", addr |-> a]
          /\ guest = a
    BY DEF Init
  <1>3. /\ go = [r \in Request |-> NoEdit] /\ orderly = TRUE
        /\ NoEdit.at = "idle" /\ NoEdit.kind = "policy" /\ NoEdit.old = {} /\ NoEdit.new = {}
        /\ NoEdit.start = FALSE /\ NoEdit.undo = FALSE
    BY DEF Init, NoEdit
  <1>4. \A x \in rows : \E p \in S : /\ x = BlockRow(Plain, p) /\ x \in Row /\ x.host = p
                                     /\ x.id = <<Plain, p>> /\ x.id[2] = p
                                     /\ x.name = <<"block", p, Plain>>
                                     /\ x.name[1] = "block" /\ x.name[2] = p /\ x.name[3] = Plain
    BY <1>1, BlockRowType
  <1>5. TypeOK
    <2>1. {ProxyDevice(BlockRow(Plain, p)) : p \in Block} \in SUBSET Device
      <3>1. \A p \in Block : BlockRow(Plain, p) \in Row
        BY BlockRowType
      <3>2. \A m \in Row : ProxyDevice(m) \in Device
        BY DEF ProxyDevice, Device, Row
      <3> QED
        BY <3>1, <3>2
    <2>2. config \in Config
      BY <1>2, <2>1 DEF Config
    <2>3. rows \subseteq Row /\ \A x, y \in rows : x.id = y.id => x = y
      BY <1>4
    <2>4. go \in [Request -> Goroutine]
      BY <1>3, NoEditType
    <2> QED
      BY <1>2, <1>3, <2>2, <2>3, <2>4 DEF TypeOK
  <1>6. RowInv
    BY <1>4 DEF RowInv, Unique
  <1>7. ShapeInv /\ FreshInv /\ AddrInv /\ ApartInv /\ OrderInv
    BY <1>3 DEF ShapeInv, EditShape, PathShape, FreshInv, FreshAt, AddrInv, AddrAt, ApartInv,
                ApartAt, OrderInv, OrderAt, Active, Creates
  <1>8. GuestAddressed
    BY <1>2 DEF GuestAddressed
  <1>9. DeviceInv
    BY <1>2, <1>4 DEF DeviceInv
  <1> QED
    BY <1>5, <1>6, <1>7, <1>8, <1>9 DEF IInv

\* Every step keeps the invariant.
LEMMA NextInv == IInv /\ [Next]_vars => IInv'
  <1> SUFFICES ASSUME IInv, [Next]_vars
               PROVE  IInv'
    OBVIOUS
  <1>1. CASE UNCHANGED vars
    BY <1>1 DEF vars, IInv, TypeOK, RowInv, ShapeInv, EditShape, PathShape, FreshInv, FreshAt,
                GuestAddressed, AddrInv, AddrAt, ApartInv, ApartAt, KindOf, OrderInv, OrderAt,
                DeviceInv, Leaving, Active
  <1>2. ASSUME NEW r \in Request, NEW p \in Port, NEW h \in Port, NEW proto \in Proto,
               AddPortMapping(r, p, proto, h)
        PROVE  IInv'
    BY <1>2, AddPortMappingInv
  <1>3. ASSUME NEW r \in Request, NEW m \in rows, RemovePortMapping(r, m)
        PROVE  IInv'
    BY <1>3, RemovePortMappingInv
  <1>4. ASSUME NEW r \in Request, NEW m \in rows, NEW proto \in Proto,
               UpdatePortMapping(r, m, proto)
        PROVE  IInv'
    BY <1>4, UpdatePortMappingInv
  <1>5. ASSUME NEW r \in Request, NEW limit \in {"full", "slow"},
               ApplyNetworkPolicy(r, limit) \/ StartInstance(r, limit)
        PROVE  IInv'
    BY <1>5, ApplyNetworkPolicyInv, StartInstanceInv
  <1>6. ASSUME NEW r \in Request, GetInstance(r) \/ UpdateInstance(r)
        PROVE  IInv'
    BY <1>6, GetInstanceInv, UpdateInstanceInv
  <1>7. ASSUME NEW r \in Request, AddPort(r) \/ DeletePort(r) \/ UpdatePortProtocol(r)
        PROVE  IInv'
    BY <1>7, AddPortInv, DeletePortInv, UpdatePortProtocolInv
  <1>8. ASSUME NEW r \in Request,
               ListPorts(r) \/ FillPort(r) \/ EnsureInstanceIPv4(r) \/ ApplyGuestStaticIPv4(r)
        PROVE  IInv'
    BY <1>8, ListPortsInv, FillPortInv, EnsureInstanceIPv4Inv, ApplyGuestStaticIPv4Inv
  <1> QED
    BY <1>1, <1>2, <1>3, <1>4, <1>5, <1>6, <1>7, <1>8 DEF Next

------------------------------------------------------------------------------
(***************************************************************************)
(* Theorems.                                                               *)
(***************************************************************************)

\* The invariant holds in every reachable state.
THEOREM Invariance == Spec => []IInv
  BY InitInv, NextInv, PTL DEF Spec

\* Type correctness: rows and devices are what the table and Incus can hold, and no
\* two rows have the same id.
THEOREM TypeCorrect == Spec => []TypeOK
  BY Invariance, PTL DEF IInv

\* The address inside the guest is the one Incus filters by: StartInstance, run twice
\* at once, never leaves the guest with the address that was refused.
THEOREM Guest == Spec => []GuestAddressed
  BY Invariance, PTL DEF IInv

\* A mapping that is stored works, whatever edits of the configuration were refused,
\* failed and were rolled back, for any number of requests that do not overlap on a
\* name or a mapping.
THEOREM Served == Spec => []MappingServed
  <1>1. IInv => MappingServed
    BY DEF IInv, DeviceInv, Leaving, MappingServed, AddedIsServed, Quiet, Active
  <1> QED
    BY <1>1, Invariance, PTL

\* What a step may never do: an update of the configuration touches the devices the
\* request names and nothing else, and never replaces an address.
THEOREM EditsKept == Spec => NoLostEdit
  <1> DEFINE Kept ==
        \A r \in Request : go[r].at = "put" /\ go'[r].at # "put" /\ config' # config =>
          /\ \A d \in config.devices \cup config'.devices :
               d.name \notin Own(r) => d \in config.devices /\ d \in config'.devices
          /\ go[r].kind # "policy" => config'.nic = config.nic
          /\ config.addr # NoAddr => config'.addr = config.addr
  <1>1. ASSUME IInv, [Next]_vars
        PROVE  [Kept]_vars
    <2> SUFFICES ASSUME NEW q \in Request, go[q].at = "put", go'[q].at # "put",
                        config' # config
                 PROVE  /\ \A d \in config.devices \cup config'.devices :
                             d.name \notin Own(q) => d \in config.devices /\ d \in config'.devices
                        /\ go[q].kind # "policy" => config'.nic = config.nic
                        /\ config.addr # NoAddr => config'.addr = config.addr
      OBVIOUS
    <2>1. PICK r \in Request : UpdateInstance(r)
      <3>1. Next
        BY <1>1 DEF vars
      <3>2. \A r, kind, edit : Begin(r, kind, edit) => UNCHANGED config
        BY DEF Begin
      <3>3. ASSUME NEW r \in Request
            PROVE  /\ \A p, h \in Port, proto \in Proto : ~AddPortMapping(r, p, proto, h)
                   /\ \A m \in rows : /\ ~RemovePortMapping(r, m)
                                      /\ \A proto \in Proto : ~UpdatePortMapping(r, m, proto)
                   /\ \A limit \in {"full", "slow"} :
                        ~ApplyNetworkPolicy(r, limit) /\ ~StartInstance(r, limit)
        BY <3>2 DEF AddPortMapping, RemovePortMapping, UpdatePortMapping, ApplyNetworkPolicy,
                    StartInstance
      <3>4. ASSUME NEW r \in Request
            PROVE  /\ ~GetInstance(r) /\ ~AddPort(r) /\ ~DeletePort(r)
                   /\ ~UpdatePortProtocol(r) /\ ~ListPorts(r) /\ ~FillPort(r)
                   /\ ~EnsureInstanceIPv4(r) /\ ~ApplyGuestStaticIPv4(r)
        BY DEF GetInstance, AddPort, DeletePort, UpdatePortProtocol, ListPorts, FillPort,
               EnsureInstanceIPv4, ApplyGuestStaticIPv4
      <3> QED
        BY <3>1, <3>3, <3>4 DEF Next
    <2>2. r = q
      <3>1. \E l, g : Go(r, l, g)
        BY <2>1 DEF UpdateInstance, Edit
      <3> QED
        BY <3>1 DEF Go, IInv, TypeOK
    <2>3. config \in go[q].copy /\ config' = Edited(q, config)
      BY <2>1, <2>2 DEF UpdateInstance
    <2>4. /\ config'.devices = {d \in config.devices : d.name \notin Own(q)}
                               \cup {ProxyDevice(m) : m \in Adds(q)}
          /\ go[q].kind # "policy" => config'.nic = config.nic
          /\ config.addr # NoAddr => config'.addr = config.addr
      BY <1>1, <2>3, UpdateInstanceKeeps
    <2>5. \A m \in Adds(q) : ProxyDevice(m).name \in Own(q)
      BY DEF ProxyDevice, Own
    <2> QED
      BY <2>4, <2>5
  <1> QED
    BY <1>1, Invariance, PTL DEF Spec, NoLostEdit
================================================================================
