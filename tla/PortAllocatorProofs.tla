-------------------------- MODULE PortAllocatorProofs --------------------------
(***************************************************************************)
(* The safety of the port allocator for every range, block size, set of    *)
(* requests and of instances, whatever the clients send, whichever calls   *)
(* fail and however often the server crashes: types, exclusion, the        *)
(* refinement of PortPool, and no leaked mark.                             *)
(***************************************************************************)
EXTENDS PortAllocator, TLAPS

------------------------------------------------------------------------------
(***************************************************************************)
(* The inductive invariant: what holds until something of Clash happens.   *)
(***************************************************************************)

\* Allocator.mu is held exactly by the operation that is inside it.
MutexInv == \A o \in Op : pc[o] \in Critical <=> mu = o

\* Nothing runs while the server is down.
DownInv == ~up => mu = NoOp /\ \A o \in Op : ~Active(o)

Searching == {"lock", "acquire", "list", "scan", "mark", "rollback",
              "unlockOk", "unlockErr", "attach", "commit", "cleanup", "release"}

Removing == {"unmarkRow", "delRow", "softDelete"}

\* The block under consideration lies in the range.
BlockAt(o) ==
  /\ pc[o] \in {"lock", "acquire", "list", "scan", "mark"} =>
       start[o] \in Port
  /\ pc[o] \in {"scan", "mark"} =>
       start[o] + Size(o) - 1 \in Port /\ n[o] < Size(o)
  /\ pc[o] \in {"idle", "lock", "acquire", "list"} => n[o] = 0

BlockInv == \A o \in Op : BlockAt(o)

\* What an operation holds at each of its locations.
HoldingAt(o) ==
  /\ pc[o] \in {"idle", "lock", "acquire", "list", "scan", "unlockErr", "done"}
               \cup Removing => held[o] = {}
  /\ pc[o] \notin {"rollback", "release"} => rel[o] = {}
  /\ pc[o] = "mark" => held[o] = start[o]..(start[o] + n[o] - 1)
  /\ pc[o] = "rollback" => rel[o] = held[o]
  /\ pc[o] \in {"unlockOk", "attach"} => held[o] = Block(o)
  /\ pc[o] = "release" => rel[o] \subseteq held[o]

HoldingInv == \A o \in Op : HoldingAt(o)

\* The ports of the block that are no longer held have become rows.
StoredAt(o) ==
  pc[o] \in {"commit", "cleanup"} =>
    \A p \in Block(o) \ held[o] :
      \E r \in rows : r.by = o /\ r.port = p /\ r.inst = req[o].inst

StoredInv == \A o \in Op : StoredAt(o)

\* The ports found free are still unmarked: only the holder of the mutex marks.
FreshInv ==
  \A o \in Op :
    /\ pc[o] = "scan" =>
         (start[o]..(start[o] + n[o] - 1)) \cap marked = {}
    /\ pc[o] = "mark" =>
         ((start[o] + n[o])..(start[o] + Size(o) - 1)) \cap marked = {}

\* Requests that allocate are not the ones that remove; a request under way is
\* about an instance that exists.
KindAt(o) ==
  /\ pc[o] \in Searching => req[o].kind \in {"provision", "start", "add"}
  /\ pc[o] \in {"idle", "done", "softDelete"} \cup Searching =>
       todo[o] = {} /\ draining[o] = {}
  /\ pc[o] = "unmarkRow" => draining[o] = {}
  /\ pc[o] \notin {"idle", "done"} => table[req[o].inst] # "none"

KindInv == \A o \in Op : KindAt(o)

\* Rows belong to instances that exist and to requests that have begun.
RowInv ==
  \A r \in rows : table[r.inst] # "none" /\ pc[r.by] # "idle"

\* A row is being removed by one request, after its own request has returned.
RemovalAt(o) ==
  /\ \A r \in todo[o] \cup draining[o] :
       r \in rows /\ pc[r.by] = "done" /\ r.inst = req[o].inst
  /\ todo[o] \cap draining[o] = {}
  /\ \A o2 \in Op : o2 # o =>
       (todo[o] \cup draining[o]) \cap (todo[o2] \cup draining[o2]) = {}

RemovalInv == \A o \in Op : RemovalAt(o)

\* HeldExclusive, ReservationKept and ServedOnce without their condition.
ExclusiveInv == \A o1, o2 \in Op : o1 # o2 => held[o1] \cap held[o2] = {}

KeptInv == \A o \in Op : held[o] \subseteq marked

OnceInv ==
  /\ \A r1, r2 \in rows :
       Serving(r1) /\ Serving(r2) /\ r1.port = r2.port => r1 = r2
  /\ \A r \in rows, o \in Op : Serving(r) => r.port \notin held[o]

\* A mapping that is served keeps its mark.
ServedMarked == \A r \in rows : Serving(r) => r.port \in marked

IInv ==
  /\ TypeOK
  /\ MutexInv /\ DownInv /\ BlockInv /\ HoldingInv /\ StoredInv /\ FreshInv
  /\ KindInv /\ RowInv /\ RemovalInv
  /\ ExclusiveInv /\ KeptInv /\ OnceInv /\ ServedMarked

------------------------------------------------------------------------------
(***************************************************************************)
(* Lemmas.                                                                 *)
(***************************************************************************)
USE RangeAssumption, RequestAssumption

\* The value of req for an operation that is not running is a request.
LEMMA NoRequestType == NoRequest \in Request
  <1> DEFINE some == [kind |-> "add", inst |-> CHOOSE i \in Inst : TRUE,
                      proto |-> "tcp", plan |-> "scan"]
  <1>1. some \in Request
    BY DEF Request, Kind, Proto, Plan
  <1> QED
    BY <1>1 DEF NoRequest

\* AddPortMapping that goes on from Reserve to Allocate is still the request.
LEMMA PlanRequestType ==
  ASSUME NEW r \in Request
  PROVE  [r EXCEPT !.plan = "scan"] \in Request
  BY DEF Request, Plan

\* The value of req for an operation that removes mappings is a request.
LEMMA RemovalRequestType ==
  ASSUME NEW k \in Kind, NEW i \in Inst
  PROVE  LET r == [NoRequest EXCEPT !.kind = k, !.inst = i]
         IN  r \in Request /\ r.inst = i
  BY NoRequestType DEF Request

\* The run of ports marked so far grows by the next port.
LEMMA IntervalGrows ==
  ASSUME NEW a \in Int, NEW b \in Int, a <= b
  PROVE  (a..(b - 1)) \cup {b} = a..b
  OBVIOUS

\* No port of a block has been looked at yet.
LEMMA IntervalEmpty == \A a \in Int : a..(a - 1) = {}
  OBVIOUS

\* A step of o that starts no removal of a row, creates no instance and takes
\* none over makes no row that exists serve again.
LEMMA ServingShrinks ==
  ASSUME TypeOK, NEW o \in Op, Active(o), NEW r \in Row,
         \A x \in Op : x # o => /\ pc'[x] = pc[x]
                               /\ req'[x] = req[x]
                               /\ draining'[x] = draining[x],
         Active(o)' => req'[o].inst = req[o].inst,
         draining[o] \subseteq draining'[o],
         \A i \in Inst : table'[i] = "active" =>
                           table[i] = "active" \/ i = req[o].inst,
         Serving(r)'
  PROVE  Serving(r)
  BY DEF Serving, Engaged, Active, TypeOK, Row

\* o takes the mutex.
LEMMA LockMutexInv ==
  ASSUME IInv, NEW o \in Op, LockMutex(o)
  PROVE  IInv'
  <1> USE DEF LockMutex, Goto, MayFail, redisVars, dbVars, scanVars, ownVars
  <1>1. TypeOK'
    BY DEF IInv, TypeOK, Location
  <1>2. MutexInv'
    BY DEF IInv, MutexInv, TypeOK, Critical, Location
  <1>3. DownInv'
    BY DEF IInv, DownInv, TypeOK, Active
  <1>4. BlockInv'
    BY DEF IInv, BlockInv, BlockAt, TypeOK, Port, Size, LastStart
  <1>5. HoldingInv'
    <2> SUFFICES ASSUME NEW x \in Op PROVE HoldingAt(x)'
      BY DEF HoldingInv
    <2>1. CASE x # o
      BY <2>1 DEF IInv, TypeOK, HoldingInv, HoldingAt, Block, Size, Removing
    <2>2. CASE x = o
      BY <2>2 DEF IInv, TypeOK, HoldingInv, HoldingAt, Block, Size, Removing
    <2> QED
      BY <2>1, <2>2
  <1>6. StoredInv'
    <2> SUFFICES ASSUME NEW x \in Op PROVE StoredAt(x)'
      BY DEF StoredInv
    <2>1. CASE x # o
      BY <2>1 DEF IInv, TypeOK, StoredInv, StoredAt, Block, Size
    <2>2. CASE x = o
      BY <2>2 DEF IInv, TypeOK, StoredInv, StoredAt, Block, Size
    <2> QED
      BY <2>1, <2>2
  <1>7. FreshInv'
    BY DEF IInv, FreshInv, TypeOK, Size, MutexInv, Critical, BlockInv, BlockAt, Port, Asked
  <1>8. KindInv'
    <2> SUFFICES ASSUME NEW x \in Op PROVE KindAt(x)'
      BY DEF KindInv
    <2>1. CASE x # o
      BY <2>1 DEF IInv, TypeOK, KindInv, KindAt, Searching, Removing
    <2>2. CASE x = o
      BY <2>2 DEF IInv, TypeOK, KindInv, KindAt, Searching, Removing
    <2> QED
      BY <2>1, <2>2
  <1>9. RowInv'
    BY DEF IInv, RowInv, TypeOK, Row
  <1>10. RemovalInv'
    BY DEF IInv, RemovalInv, RemovalAt, TypeOK, KindInv, KindAt, Row, Removing, Searching
  <1>11. ExclusiveInv'
    BY DEF IInv, ExclusiveInv, TypeOK
  <1>12. KeptInv'
    BY DEF IInv, KeptInv, TypeOK
  <1>13. OnceInv'
    BY DEF IInv, OnceInv, Serving, Engaged, Active, TypeOK, RowInv, Row
  <1>14. ServedMarked'
    BY DEF IInv, ServedMarked, Serving, Engaged, Active, TypeOK, RowInv, Row
  <1> QED
    BY <1>1, <1>2, <1>3, <1>4, <1>5, <1>6, <1>7, <1>8,
       <1>9, <1>10, <1>11, <1>12, <1>13, <1>14 DEF IInv

\* o takes the Redis lock, or is refused.
LEMMA AcquireLockInv ==
  ASSUME IInv, NEW o \in Op, AcquireLock(o)
  PROVE  IInv'
  <1> USE DEF AcquireLock, GiveUp, Goto, MayFail, redisVars, dbVars, scanVars, ownVars
  <1>1. TypeOK'
    <2>1. req' \in [Op -> Request]
      BY NoRequestType, PlanRequestType DEF IInv, TypeOK
    <2>2. start' \in [Op -> Asked] /\ n' \in [Op -> 0..BlockSize]
      BY DEF IInv, TypeOK, Asked
    <2> QED
      BY <2>1, <2>2 DEF IInv, TypeOK, Location
  <1>2. MutexInv'
    BY DEF IInv, MutexInv, TypeOK, Critical, Location
  <1>3. DownInv'
    BY DEF IInv, DownInv, TypeOK, Active
  <1>4. BlockInv'
    BY DEF IInv, BlockInv, BlockAt, TypeOK, Port, Size, LastStart
  <1>5. HoldingInv'
    <2> SUFFICES ASSUME NEW x \in Op PROVE HoldingAt(x)'
      BY DEF HoldingInv
    <2>1. CASE x # o
      BY <2>1 DEF IInv, TypeOK, HoldingInv, HoldingAt, Block, Size, Removing
    <2>2. CASE x = o
      <3>1. pc'[o] \in {"lock", "list", "done"} /\ held' = held /\ rel' = rel
        BY DEF IInv, TypeOK
      <3> QED
        BY <2>2, <3>1 DEF IInv, HoldingInv, HoldingAt
    <2> QED
      BY <2>1, <2>2
  <1>6. StoredInv'
    <2> SUFFICES ASSUME NEW x \in Op PROVE StoredAt(x)'
      BY DEF StoredInv
    <2>1. CASE x # o
      BY <2>1 DEF IInv, TypeOK, StoredInv, StoredAt, Block, Size
    <2>2. CASE x = o
      BY <2>2 DEF IInv, TypeOK, StoredInv, StoredAt, Block, Size
    <2> QED
      BY <2>1, <2>2
  <1>7. FreshInv'
    BY DEF IInv, FreshInv, TypeOK, Size, MutexInv, Critical, BlockInv, BlockAt, Port, Asked
  <1>8. KindInv'
    <2> SUFFICES ASSUME NEW x \in Op PROVE KindAt(x)'
      BY DEF KindInv
    <2>1. CASE x # o
      <3>1. \A i \in Inst : table[i] # "none" => table'[i] # "none"
        BY DEF IInv, TypeOK
      <3>2. pc'[x] = pc[x] /\ req'[x] = req[x] /\ req[x].inst \in Inst
        BY <2>1 DEF IInv, TypeOK, Request
      <3> QED
        BY <3>1, <3>2 DEF IInv, KindInv, KindAt
    <2>2. CASE x = o
      <3>1. pc'[o] = "done" \/ (/\ pc'[o] \in {"lock", "list"}
                               /\ req'[o].kind = req[o].kind
                               /\ req'[o].inst = req[o].inst)
        BY DEF IInv, TypeOK, Request
      <3> QED
        BY <2>2, <3>1 DEF IInv, TypeOK, KindInv, KindAt, Searching
    <2> QED
      BY <2>1, <2>2
  <1>9. RowInv'
    BY DEF IInv, RowInv, TypeOK, Row
  <1>10. RemovalInv'
    BY DEF IInv, RemovalInv, RemovalAt, TypeOK, KindInv, KindAt, Row, Removing, Searching
  <1>11. ExclusiveInv'
    BY DEF IInv, ExclusiveInv, TypeOK
  <1>12. KeptInv'
    BY DEF IInv, KeptInv, TypeOK
  <1>13. OnceInv'
    <2>0. Active(o)' => req'[o].inst = req[o].inst
      BY DEF IInv, TypeOK, Active, Request
    <2>1. \A r \in rows : Serving(r)' => Serving(r)
      BY <2>0, ServingShrinks DEF IInv, TypeOK, KindInv, KindAt, Searching, Active, Request
    <2> QED
      BY <2>1 DEF IInv, TypeOK, OnceInv, Row
  <1>14. ServedMarked'
    <2>0. Active(o)' => req'[o].inst = req[o].inst
      BY DEF IInv, TypeOK, Active, Request
    <2>1. \A r \in rows : Serving(r)' => Serving(r)
      BY <2>0, ServingShrinks DEF IInv, TypeOK, KindInv, KindAt, Searching, Active, Request
    <2> QED
      BY <2>1 DEF IInv, TypeOK, ServedMarked, Row
  <1> QED
    BY <1>1, <1>2, <1>3, <1>4, <1>5, <1>6, <1>7, <1>8,
       <1>9, <1>10, <1>11, <1>12, <1>13, <1>14 DEF IInv

\* o reads the ports in use.
LEMMA ListUsedHostPortsInv ==
  ASSUME IInv, NEW o \in Op, ListUsedHostPorts(o)
  PROVE  IInv'
  <1> USE DEF ListUsedHostPorts, LastStart, Goto, MayFail, redisVars, dbVars, scanVars, ownVars
  <1>1. TypeOK'
    <2>1. UsedHostPorts \subseteq Port
      BY DEF IInv, TypeOK, UsedHostPorts, Row
    <2> QED
      BY <2>1 DEF IInv, TypeOK, Location
  <1>2. MutexInv'
    BY DEF IInv, MutexInv, TypeOK, Critical, Location
  <1>3. DownInv'
    BY DEF IInv, DownInv, TypeOK, Active
  <1>4. BlockInv'
    BY DEF IInv, BlockInv, BlockAt, TypeOK, Port, Size, LastStart
  <1>5. HoldingInv'
    <2> SUFFICES ASSUME NEW x \in Op PROVE HoldingAt(x)'
      BY DEF HoldingInv
    <2>1. CASE x # o
      BY <2>1 DEF IInv, TypeOK, HoldingInv, HoldingAt, Block, Size, Removing
    <2>2. CASE x = o
      BY <2>2 DEF IInv, TypeOK, HoldingInv, HoldingAt, Block, Size, Removing
    <2> QED
      BY <2>1, <2>2
  <1>6. StoredInv'
    <2> SUFFICES ASSUME NEW x \in Op PROVE StoredAt(x)'
      BY DEF StoredInv
    <2>1. CASE x # o
      BY <2>1 DEF IInv, TypeOK, StoredInv, StoredAt, Block, Size
    <2>2. CASE x = o
      BY <2>2 DEF IInv, TypeOK, StoredInv, StoredAt, Block, Size
    <2> QED
      BY <2>1, <2>2
  <1>7. FreshInv'
    BY DEF IInv, FreshInv, TypeOK, Size, MutexInv, Critical, BlockInv, BlockAt, Port, Asked
  <1>8. KindInv'
    <2> SUFFICES ASSUME NEW x \in Op PROVE KindAt(x)'
      BY DEF KindInv
    <2>1. CASE x # o
      BY <2>1 DEF IInv, TypeOK, KindInv, KindAt, Searching, Removing
    <2>2. CASE x = o
      BY <2>2 DEF IInv, TypeOK, KindInv, KindAt, Searching, Removing
    <2> QED
      BY <2>1, <2>2
  <1>9. RowInv'
    BY DEF IInv, RowInv, TypeOK, Row
  <1>10. RemovalInv'
    BY DEF IInv, RemovalInv, RemovalAt, TypeOK, KindInv, KindAt, Row, Removing, Searching
  <1>11. ExclusiveInv'
    BY DEF IInv, ExclusiveInv, TypeOK
  <1>12. KeptInv'
    BY DEF IInv, KeptInv, TypeOK
  <1>13. OnceInv'
    BY DEF IInv, OnceInv, Serving, Engaged, Active, TypeOK, RowInv, Row
  <1>14. ServedMarked'
    BY DEF IInv, ServedMarked, Serving, Engaged, Active, TypeOK, RowInv, Row
  <1> QED
    BY <1>1, <1>2, <1>3, <1>4, <1>5, <1>6, <1>7, <1>8,
       <1>9, <1>10, <1>11, <1>12, <1>13, <1>14 DEF IInv

\* o looks at one port.
LEMMA ScanInv ==
  ASSUME IInv, NEW o \in Op, Scan(o)
  PROVE  IInv'
  <1> USE DEF Scan, IsFree, LastStart, Goto, MayFail, redisVars, dbVars, scanVars, ownVars
  <1>1. TypeOK'
    BY DEF IInv, TypeOK, Location, BlockInv, BlockAt, Port, Asked, Size
  <1>2. MutexInv'
    BY DEF IInv, MutexInv, TypeOK, Critical, Location
  <1>3. DownInv'
    BY DEF IInv, DownInv, TypeOK, Active
  <1>4. BlockInv'
    BY DEF IInv, BlockInv, BlockAt, TypeOK, Port, Size, LastStart
  <1>5. HoldingInv'
    <2> SUFFICES ASSUME NEW x \in Op PROVE HoldingAt(x)'
      BY DEF HoldingInv
    <2>1. CASE x # o
      BY <2>1 DEF IInv, TypeOK, HoldingInv, HoldingAt, Block, Size, Removing
    <2>2. CASE x = o
      <3>1. held'[o] = {} /\ rel'[o] = {}
        BY DEF IInv, HoldingInv, HoldingAt
      <3>2. pc'[o] = "mark" => start'[o]..(start'[o] + n'[o] - 1) = {}
        BY IntervalEmpty DEF IInv, TypeOK, BlockInv, BlockAt, Port
      <3>3. pc'[o] \in {"scan", "mark", "unlockErr"}
        BY DEF IInv, TypeOK
      <3> QED
        BY <2>2, <3>1, <3>2, <3>3 DEF HoldingAt
    <2> QED
      BY <2>1, <2>2
  <1>6. StoredInv'
    <2> SUFFICES ASSUME NEW x \in Op PROVE StoredAt(x)'
      BY DEF StoredInv
    <2>1. CASE x # o
      BY <2>1 DEF IInv, TypeOK, StoredInv, StoredAt, Block, Size
    <2>2. CASE x = o
      BY <2>2 DEF IInv, TypeOK, StoredInv, StoredAt, Block, Size
    <2> QED
      BY <2>1, <2>2
  <1>7. FreshInv'
    <2>1. start[o] \in Int /\ n[o] \in Int /\ Size(o) \in Int
      BY DEF IInv, TypeOK, BlockInv, BlockAt, Port, Size, Asked
    <2>2. ASSUME NEW x \in Op, x # o
          PROVE  pc'[x] \notin {"scan", "mark"}
      BY <2>2 DEF IInv, TypeOK, MutexInv, Critical
    <2> QED
      BY <2>1, <2>2 DEF IInv, TypeOK, FreshInv, Size, BlockInv, BlockAt
  <1>8. KindInv'
    <2> SUFFICES ASSUME NEW x \in Op PROVE KindAt(x)'
      BY DEF KindInv
    <2>1. CASE x # o
      BY <2>1 DEF IInv, TypeOK, KindInv, KindAt, Searching, Removing
    <2>2. CASE x = o
      BY <2>2 DEF IInv, TypeOK, KindInv, KindAt, Searching, Removing
    <2> QED
      BY <2>1, <2>2
  <1>9. RowInv'
    BY DEF IInv, RowInv, TypeOK, Row
  <1>10. RemovalInv'
    BY DEF IInv, RemovalInv, RemovalAt, TypeOK, KindInv, KindAt, Row, Removing, Searching
  <1>11. ExclusiveInv'
    BY DEF IInv, ExclusiveInv, TypeOK
  <1>12. KeptInv'
    BY DEF IInv, KeptInv, TypeOK
  <1>13. OnceInv'
    BY DEF IInv, OnceInv, Serving, Engaged, Active, TypeOK, RowInv, Row
  <1>14. ServedMarked'
    BY DEF IInv, ServedMarked, Serving, Engaged, Active, TypeOK, RowInv, Row
  <1> QED
    BY <1>1, <1>2, <1>3, <1>4, <1>5, <1>6, <1>7, <1>8,
       <1>9, <1>10, <1>11, <1>12, <1>13, <1>14 DEF IInv

\* o marks one port; nobody else holds it and no mapping is served on it.
LEMMA MarkPortAllocatedInv ==
  ASSUME IInv, NEW o \in Op, MarkPortAllocated(o)
  PROVE  IInv'
  <1> USE DEF MarkPortAllocated, Goto, MayFail, redisVars, dbVars, scanVars, ownVars
  <1>a. /\ start[o] + n[o] \in Port /\ start[o] + n[o] \notin marked
        /\ start[o] \in Int /\ n[o] \in Int /\ n[o] >= 0 /\ Size(o) \in Int
    BY DEF IInv, BlockInv, BlockAt, FreshInv, TypeOK, Port, Size, Asked
  <1>1. TypeOK'
    <2>u. upset' \subseteq Upset
      BY DEF IInv, TypeOK, Note, Upset, Clash, Leak
    <2>m. marked' \subseteq Port
      BY <1>a DEF IInv, TypeOK
    <2> QED
      BY <2>u, <2>m, <1>a DEF IInv, TypeOK, Location, BlockInv, BlockAt, Size
  <1>2. MutexInv'
    BY DEF IInv, MutexInv, TypeOK, Critical, Location
  <1>3. DownInv'
    BY DEF IInv, DownInv, TypeOK, Active
  <1>4. BlockInv'
    <2> SUFFICES ASSUME NEW x \in Op PROVE BlockAt(x)'
      BY DEF BlockInv
    <2>1. CASE x # o
      BY <2>1 DEF IInv, TypeOK, BlockInv, BlockAt, Size
    <2>2. CASE x = o
      BY <1>a, <2>2 DEF IInv, TypeOK, BlockInv, BlockAt, Size
    <2> QED
      BY <2>1, <2>2
  <1>5. HoldingInv'
    <2> SUFFICES ASSUME NEW x \in Op PROVE HoldingAt(x)'
      BY DEF HoldingInv
    <2>1. CASE x # o
      BY <2>1 DEF IInv, TypeOK, HoldingInv, HoldingAt, Block, Size, Removing
    <2>2. CASE x = o /\ pc'[o] = "rollback"
      BY <2>2 DEF IInv, TypeOK, HoldingInv, HoldingAt, Removing
    <2>3. CASE x = o /\ pc'[o] # "rollback"
      <3>a. held[o] = start[o]..((start[o] + n[o]) - 1)
        <4>1. HoldingAt(o)
          BY DEF IInv, HoldingInv
        <4> QED
          BY <1>a, <4>1 DEF HoldingAt
      <3>b. held'[o] = held[o] \cup {start[o] + n[o]}
        BY <2>3 DEF IInv, TypeOK
      <3>1. held'[o] = start[o]..(start[o] + n[o])
        BY <1>a, <3>a, <3>b, IntervalGrows
      <3> QED
        BY <1>a, <2>3, <3>1
           DEF IInv, TypeOK, HoldingInv, HoldingAt, Block, Size, Removing
    <2> QED
      BY <2>1, <2>2, <2>3
  <1>6. StoredInv'
    <2> SUFFICES ASSUME NEW x \in Op PROVE StoredAt(x)'
      BY DEF StoredInv
    <2>1. CASE x # o
      BY <2>1 DEF IInv, TypeOK, StoredInv, StoredAt, Block, Size
    <2>2. CASE x = o
      BY <2>2 DEF IInv, TypeOK, StoredInv, StoredAt, Block, Size
    <2> QED
      BY <2>1, <2>2
  <1>7. FreshInv'
    BY DEF IInv, FreshInv, TypeOK, Size, MutexInv, Critical, BlockInv, BlockAt, Port, Asked
  <1>8. KindInv'
    <2> SUFFICES ASSUME NEW x \in Op PROVE KindAt(x)'
      BY DEF KindInv
    <2>1. CASE x # o
      BY <2>1 DEF IInv, TypeOK, KindInv, KindAt, Searching, Removing
    <2>2. CASE x = o
      BY <2>2 DEF IInv, TypeOK, KindInv, KindAt, Searching, Removing
    <2> QED
      BY <2>1, <2>2
  <1>9. RowInv'
    BY DEF IInv, RowInv, TypeOK, Row
  <1>10. RemovalInv'
    BY DEF IInv, RemovalInv, RemovalAt, TypeOK, KindInv, KindAt, Row, Removing, Searching
  <1>11. ExclusiveInv'
    BY <1>a DEF IInv, TypeOK, KeptInv, ExclusiveInv
  <1>12. KeptInv'
    BY DEF IInv, KeptInv, TypeOK
  <1>13. OnceInv'
    BY <1>a DEF IInv, TypeOK, Row, OnceInv, Serving, Engaged, Active,
                ServedMarked, Location
  <1>14. ServedMarked'
    BY DEF IInv, ServedMarked, Serving, Engaged, Active, TypeOK, RowInv, Row
  <1> QED
    BY <1>1, <1>2, <1>3, <1>4, <1>5, <1>6, <1>7, <1>8,
       <1>9, <1>10, <1>11, <1>12, <1>13, <1>14 DEF IInv

\* o gives back what it marked before a call failed.
LEMMA RollbackInv ==
  ASSUME IInv, NEW o \in Op, Rollback(o)
  PROVE  IInv'
  <1> USE DEF Unmark, Rollback, ReleasePort, Goto, MayFail, redisVars, dbVars, scanVars, ownVars
  <1>a. \A x \in Op : x # o => rel[o] \cap held[x] = {}
    BY DEF IInv, TypeOK, HoldingInv, HoldingAt, ExclusiveInv
  <1>b. \A r \in rows : Serving(r) => r.port \notin rel[o]
    BY DEF IInv, TypeOK, HoldingInv, HoldingAt, OnceInv
  <1>1. TypeOK'
    <2>u. upset' \subseteq Upset
      BY DEF IInv, TypeOK, Note, Upset, Clash, Leak
    <2>m. marked' \subseteq Port
      BY DEF IInv, TypeOK
    <2> QED
      BY <2>u, <2>m DEF IInv, TypeOK, Location
  <1>2. MutexInv'
    BY DEF IInv, MutexInv, TypeOK, Critical, Location
  <1>3. DownInv'
    BY DEF IInv, DownInv, TypeOK, Active
  <1>4. BlockInv'
    BY DEF IInv, BlockInv, BlockAt, TypeOK, Port, Size, LastStart
  <1>5. HoldingInv'
    <2> SUFFICES ASSUME NEW x \in Op PROVE HoldingAt(x)'
      BY DEF HoldingInv
    <2>1. CASE x # o
      BY <2>1 DEF IInv, TypeOK, HoldingInv, HoldingAt, Block, Size, Removing
    <2>2. CASE x = o /\ rel[o] = {}
      BY <2>2 DEF IInv, TypeOK, HoldingInv, HoldingAt, Removing
    <2>3. CASE x = o /\ rel[o] # {}
      <3>1. PICK p \in rel[o] : /\ rel' = [rel EXCEPT ![o] = @ \ {p}]
                               /\ held' = [held EXCEPT ![o] = @ \ {p}]
                               /\ pc' = pc
        BY <2>3
      <3> QED
        BY <2>3, <3>1 DEF IInv, TypeOK, HoldingInv, HoldingAt, Removing
    <2> QED
      BY <2>1, <2>2, <2>3
  <1>6. StoredInv'
    <2> SUFFICES ASSUME NEW x \in Op PROVE StoredAt(x)'
      BY DEF StoredInv
    <2>1. CASE x # o
      BY <2>1 DEF IInv, TypeOK, StoredInv, StoredAt, Block, Size
    <2>2. CASE x = o
      BY <2>2 DEF IInv, TypeOK, StoredInv, StoredAt, Block, Size
    <2> QED
      BY <2>1, <2>2
  <1>7. FreshInv'
    BY DEF IInv, FreshInv, TypeOK, Size, MutexInv, Critical, BlockInv, BlockAt, Port, Asked
  <1>8. KindInv'
    <2> SUFFICES ASSUME NEW x \in Op PROVE KindAt(x)'
      BY DEF KindInv
    <2>1. CASE x # o
      BY <2>1 DEF IInv, TypeOK, KindInv, KindAt, Searching, Removing
    <2>2. CASE x = o
      BY <2>2 DEF IInv, TypeOK, KindInv, KindAt, Searching, Removing
    <2> QED
      BY <2>1, <2>2
  <1>9. RowInv'
    BY DEF IInv, RowInv, TypeOK, Row
  <1>10. RemovalInv'
    BY DEF IInv, RemovalInv, RemovalAt, TypeOK, KindInv, KindAt, Row, Removing, Searching
  <1>11. ExclusiveInv'
    BY DEF IInv, ExclusiveInv, TypeOK
  <1>12. KeptInv'
    <2> SUFFICES ASSUME NEW x \in Op PROVE held'[x] \subseteq marked'
      BY DEF KeptInv
    <2>1. CASE x # o
      BY <2>1, <1>a DEF IInv, TypeOK, KeptInv
    <2>2. CASE x = o
      BY <2>2 DEF IInv, TypeOK, KeptInv
    <2> QED
      BY <2>1, <2>2
  <1>13. OnceInv'
    <2>0. Active(o)' => req'[o].inst = req[o].inst
      BY DEF IInv, TypeOK, Active
    <2>1. \A r \in rows : Serving(r)' => Serving(r)
      BY <2>0, ServingShrinks DEF IInv, TypeOK, KindInv, KindAt, Searching, Active
    <2> QED
      BY <2>1, <1>b DEF IInv, TypeOK, OnceInv, Row
  <1>14. ServedMarked'
    <2>0. Active(o)' => req'[o].inst = req[o].inst
      BY DEF IInv, TypeOK, Active
    <2>1. \A r \in rows : Serving(r)' => Serving(r)
      BY <2>0, ServingShrinks DEF IInv, TypeOK, KindInv, KindAt, Searching, Active
    <2> QED
      BY <2>1, <1>b DEF IInv, TypeOK, ServedMarked, Row
  <1> QED
    BY <1>1, <1>2, <1>3, <1>4, <1>5, <1>6, <1>7, <1>8,
       <1>9, <1>10, <1>11, <1>12, <1>13, <1>14 DEF IInv

\* o leaves the allocator with its block.
LEMMA UnlockOkInv ==
  ASSUME IInv, NEW o \in Op, UnlockOk(o)
  PROVE  IInv'
  <1> USE DEF UnlockOk, ReleaseLock, Goto, MayFail, redisVars, dbVars, scanVars, ownVars
  <1>1. TypeOK'
    BY DEF IInv, TypeOK, Location
  <1>2. MutexInv'
    BY DEF IInv, MutexInv, TypeOK, Critical, Location
  <1>3. DownInv'
    BY DEF IInv, DownInv, TypeOK, Active
  <1>4. BlockInv'
    BY DEF IInv, BlockInv, BlockAt, TypeOK, Port, Size, LastStart
  <1>5. HoldingInv'
    <2> SUFFICES ASSUME NEW x \in Op PROVE HoldingAt(x)'
      BY DEF HoldingInv
    <2>1. CASE x # o
      BY <2>1 DEF IInv, TypeOK, HoldingInv, HoldingAt, Block, Size, Removing
    <2>2. CASE x = o
      BY <2>2 DEF IInv, TypeOK, HoldingInv, HoldingAt, Block, Size, Removing
    <2> QED
      BY <2>1, <2>2
  <1>6. StoredInv'
    <2> SUFFICES ASSUME NEW x \in Op PROVE StoredAt(x)'
      BY DEF StoredInv
    <2>1. CASE x # o
      BY <2>1 DEF IInv, TypeOK, StoredInv, StoredAt, Block, Size
    <2>2. CASE x = o
      BY <2>2 DEF IInv, TypeOK, StoredInv, StoredAt, Block, Size
    <2> QED
      BY <2>1, <2>2
  <1>7. FreshInv'
    BY DEF IInv, FreshInv, TypeOK, Size, MutexInv, Critical, BlockInv, BlockAt, Port, Asked
  <1>8. KindInv'
    <2> SUFFICES ASSUME NEW x \in Op PROVE KindAt(x)'
      BY DEF KindInv
    <2>1. CASE x # o
      BY <2>1 DEF IInv, TypeOK, KindInv, KindAt, Searching, Removing
    <2>2. CASE x = o
      BY <2>2 DEF IInv, TypeOK, KindInv, KindAt, Searching, Removing
    <2> QED
      BY <2>1, <2>2
  <1>9. RowInv'
    BY DEF IInv, RowInv, TypeOK, Row
  <1>10. RemovalInv'
    BY DEF IInv, RemovalInv, RemovalAt, TypeOK, KindInv, KindAt, Row, Removing, Searching
  <1>11. ExclusiveInv'
    BY DEF IInv, ExclusiveInv, TypeOK
  <1>12. KeptInv'
    BY DEF IInv, KeptInv, TypeOK
  <1>13. OnceInv'
    BY DEF IInv, OnceInv, Serving, Engaged, Active, TypeOK, RowInv, Row
  <1>14. ServedMarked'
    BY DEF IInv, ServedMarked, Serving, Engaged, Active, TypeOK, RowInv, Row
  <1> QED
    BY <1>1, <1>2, <1>3, <1>4, <1>5, <1>6, <1>7, <1>8,
       <1>9, <1>10, <1>11, <1>12, <1>13, <1>14 DEF IInv

\* o leaves the allocator without a port.
LEMMA UnlockErrInv ==
  ASSUME IInv, NEW o \in Op, UnlockErr(o)
  PROVE  IInv'
  <1> USE DEF UnlockErr, ReleaseLock, GiveUp, Goto, MayFail, redisVars, dbVars, scanVars, ownVars
  <1>1. TypeOK'
    <2>1. req' \in [Op -> Request]
      BY NoRequestType, PlanRequestType DEF IInv, TypeOK
    <2>2. start' \in [Op -> Asked] /\ n' \in [Op -> 0..BlockSize]
      BY DEF IInv, TypeOK, Asked
    <2> QED
      BY <2>1, <2>2 DEF IInv, TypeOK, Location
  <1>2. MutexInv'
    BY DEF IInv, MutexInv, TypeOK, Critical, Location
  <1>3. DownInv'
    BY DEF IInv, DownInv, TypeOK, Active
  <1>4. BlockInv'
    BY DEF IInv, BlockInv, BlockAt, TypeOK, Port, Size, LastStart
  <1>5. HoldingInv'
    <2> SUFFICES ASSUME NEW x \in Op PROVE HoldingAt(x)'
      BY DEF HoldingInv
    <2>1. CASE x # o
      BY <2>1 DEF IInv, TypeOK, HoldingInv, HoldingAt, Block, Size, Removing
    <2>2. CASE x = o
      <3>1. pc'[o] \in {"lock", "list", "done"} /\ held' = held /\ rel' = rel
        BY DEF IInv, TypeOK
      <3> QED
        BY <2>2, <3>1 DEF IInv, HoldingInv, HoldingAt
    <2> QED
      BY <2>1, <2>2
  <1>6. StoredInv'
    <2> SUFFICES ASSUME NEW x \in Op PROVE StoredAt(x)'
      BY DEF StoredInv
    <2>1. CASE x # o
      BY <2>1 DEF IInv, TypeOK, StoredInv, StoredAt, Block, Size
    <2>2. CASE x = o
      BY <2>2 DEF IInv, TypeOK, StoredInv, StoredAt, Block, Size
    <2> QED
      BY <2>1, <2>2
  <1>7. FreshInv'
    BY DEF IInv, FreshInv, TypeOK, Size, MutexInv, Critical, BlockInv, BlockAt, Port, Asked
  <1>8. KindInv'
    <2> SUFFICES ASSUME NEW x \in Op PROVE KindAt(x)'
      BY DEF KindInv
    <2>1. CASE x # o
      <3>1. \A i \in Inst : table[i] # "none" => table'[i] # "none"
        BY DEF IInv, TypeOK
      <3>2. pc'[x] = pc[x] /\ req'[x] = req[x] /\ req[x].inst \in Inst
        BY <2>1 DEF IInv, TypeOK, Request
      <3> QED
        BY <3>1, <3>2 DEF IInv, KindInv, KindAt
    <2>2. CASE x = o
      <3>1. pc'[o] = "done" \/ (/\ pc'[o] \in {"lock", "list"}
                               /\ req'[o].kind = req[o].kind
                               /\ req'[o].inst = req[o].inst)
        BY DEF IInv, TypeOK, Request
      <3> QED
        BY <2>2, <3>1 DEF IInv, TypeOK, KindInv, KindAt, Searching
    <2> QED
      BY <2>1, <2>2
  <1>9. RowInv'
    BY DEF IInv, RowInv, TypeOK, Row
  <1>10. RemovalInv'
    BY DEF IInv, RemovalInv, RemovalAt, TypeOK, KindInv, KindAt, Row, Removing, Searching
  <1>11. ExclusiveInv'
    BY DEF IInv, ExclusiveInv, TypeOK
  <1>12. KeptInv'
    BY DEF IInv, KeptInv, TypeOK
  <1>13. OnceInv'
    <2>0. Active(o)' => req'[o].inst = req[o].inst
      BY DEF IInv, TypeOK, Active, Request
    <2>1. \A r \in rows : Serving(r)' => Serving(r)
      BY <2>0, ServingShrinks DEF IInv, TypeOK, KindInv, KindAt, Searching, Active, Request
    <2> QED
      BY <2>1 DEF IInv, TypeOK, OnceInv, Row
  <1>14. ServedMarked'
    <2>0. Active(o)' => req'[o].inst = req[o].inst
      BY DEF IInv, TypeOK, Active, Request
    <2>1. \A r \in rows : Serving(r)' => Serving(r)
      BY <2>0, ServingShrinks DEF IInv, TypeOK, KindInv, KindAt, Searching, Active, Request
    <2> QED
      BY <2>1 DEF IInv, TypeOK, ServedMarked, Row
  <1> QED
    BY <1>1, <1>2, <1>3, <1>4, <1>5, <1>6, <1>7, <1>8,
       <1>9, <1>10, <1>11, <1>12, <1>13, <1>14 DEF IInv

\* o adds the proxies.
LEMMA AttachInv ==
  ASSUME IInv, NEW o \in Op, Attach(o)
  PROVE  IInv'
  <1> USE DEF Attach, Goto, MayFail, redisVars, dbVars, scanVars, ownVars
  <1>1. TypeOK'
    <2>1. Have(o) \subseteq Port /\ Block(o) \subseteq Port
      BY DEF IInv, TypeOK, Have, Row, HoldingInv, HoldingAt
    <2> QED
      BY <2>1 DEF IInv, TypeOK, Location
  <1>2. MutexInv'
    BY DEF IInv, MutexInv, TypeOK, Critical, Location
  <1>3. DownInv'
    BY DEF IInv, DownInv, TypeOK, Active
  <1>4. BlockInv'
    BY DEF IInv, BlockInv, BlockAt, TypeOK, Port, Size, LastStart
  <1>5. HoldingInv'
    <2> SUFFICES ASSUME NEW x \in Op PROVE HoldingAt(x)'
      BY DEF HoldingInv
    <2>1. CASE x # o
      BY <2>1 DEF IInv, TypeOK, HoldingInv, HoldingAt, Block, Size, Removing
    <2>2. CASE x = o
      BY <2>2 DEF IInv, TypeOK, HoldingInv, HoldingAt, Block, Size, Removing
    <2> QED
      BY <2>1, <2>2
  <1>6. StoredInv'
    <2> SUFFICES ASSUME NEW x \in Op PROVE StoredAt(x)'
      BY DEF StoredInv
    <2>1. CASE x # o
      BY <2>1 DEF IInv, TypeOK, StoredInv, StoredAt, Block, Size
    <2>2. CASE x = o
      <3>1. held'[o] = Block(o)'
        BY DEF IInv, HoldingInv, HoldingAt, Block, Size
      <3> QED
        BY <2>2, <3>1 DEF StoredAt
    <2> QED
      BY <2>1, <2>2
  <1>7. FreshInv'
    BY DEF IInv, FreshInv, TypeOK, Size, MutexInv, Critical, BlockInv, BlockAt, Port, Asked
  <1>8. KindInv'
    <2> SUFFICES ASSUME NEW x \in Op PROVE KindAt(x)'
      BY DEF KindInv
    <2>1. CASE x # o
      BY <2>1 DEF IInv, TypeOK, KindInv, KindAt, Searching, Removing
    <2>2. CASE x = o
      BY <2>2 DEF IInv, TypeOK, KindInv, KindAt, Searching, Removing
    <2> QED
      BY <2>1, <2>2
  <1>9. RowInv'
    BY DEF IInv, RowInv, TypeOK, Row
  <1>10. RemovalInv'
    BY DEF IInv, RemovalInv, RemovalAt, TypeOK, KindInv, KindAt, Row, Removing, Searching
  <1>11. ExclusiveInv'
    BY DEF IInv, ExclusiveInv, TypeOK
  <1>12. KeptInv'
    BY DEF IInv, KeptInv, TypeOK
  <1>13. OnceInv'
    BY DEF IInv, OnceInv, Serving, Engaged, Active, TypeOK, RowInv, Row
  <1>14. ServedMarked'
    BY DEF IInv, ServedMarked, Serving, Engaged, Active, TypeOK, RowInv, Row
  <1> QED
    BY <1>1, <1>2, <1>3, <1>4, <1>5, <1>6, <1>7, <1>8,
       <1>9, <1>10, <1>11, <1>12, <1>13, <1>14 DEF IInv

\* o stores one port of its block: the port changes from held to served.
LEMMA AddPortInv ==
  ASSUME IInv, NEW o \in Op, AddPort(o)
  PROVE  IInv'
  <1> USE DEF AddPort, Conclude, Goto, MayFail, redisVars, dbVars, scanVars, ownVars
  <1> DEFINE row(p) == [port |-> p, proto |-> req[o].proto,
                        inst |-> req[o].inst, by |-> o]
  <1>a. /\ req[o] \in Request /\ Active(o) /\ draining[o] = {}
        /\ draining' = draining
    BY DEF IInv, TypeOK, Active, KindInv, KindAt, Searching
  <1>b. /\ held'[o] \subseteq held[o]
        /\ \A x \in Op : x # o => /\ held'[x] = held[x] /\ pc'[x] = pc[x]
                                    /\ req'[x] = req[x]
    BY DEF IInv, TypeOK
  <1>d. \/ rows' = rows
        \/ \E p \in held[o] : /\ rows' = rows \cup {row(p)}
                            /\ held' = [held EXCEPT ![o] = @ \ {p}]
                            /\ UNCHANGED <<pc, req, table, start, n>>
    BY DEF IInv, TypeOK
  <1>e. \A p \in held[o] : row(p) \in Row
    BY <1>a DEF IInv, TypeOK, Row, Request
  <1>f. Active(o)' => req' = req
    BY DEF IInv, TypeOK, Active
  <1>g. table' \in [Inst -> {"none", "active", "deleted"}]
        /\ \A i \in Inst : table'[i] # table[i] =>
                             table'[i] = "active" /\ i = req[o].inst
    BY <1>a DEF IInv, TypeOK, Request
  <1>i. \A p \in held[o] : row(p) \in rows =>
                          ~\A r \in rows : r.port # p \/ r.proto # req[o].proto
    OBVIOUS
  <1>h. \A r \in Row : Serving(r)' => Serving(r)
    BY <1>a, <1>b, <1>f, <1>g, ServingShrinks DEF IInv
  <1>1. TypeOK'
    <2>1. rows' \subseteq Row
      BY <1>d, <1>e DEF IInv, TypeOK
    <2>2. req' \in [Op -> Request]
      BY NoRequestType DEF IInv, TypeOK
    <2>3. start' \in [Op -> Asked] /\ n' \in [Op -> 0..BlockSize]
      BY DEF IInv, TypeOK, Asked
    <2>4. snap' \in [Op -> SUBSET Port] /\ held' \in [Op -> SUBSET Port]
      BY DEF IInv, TypeOK
    <2>5. upset' \subseteq Upset
      BY DEF IInv, TypeOK, Note, Upset, Clash, Leak
    <2> QED
      BY <2>1, <2>2, <2>3, <2>4, <2>5, <1>g DEF IInv, TypeOK, Location
  <1>2. MutexInv'
    BY DEF IInv, MutexInv, TypeOK, Critical, Location
  <1>3. DownInv'
    BY DEF IInv, DownInv, TypeOK, Active
  <1>4. BlockInv'
    BY DEF IInv, BlockInv, BlockAt, TypeOK, Port, Size, LastStart
  <1>5. HoldingInv'
    <2> SUFFICES ASSUME NEW x \in Op PROVE HoldingAt(x)'
      BY DEF HoldingInv
    <2>1. CASE x # o
      BY <2>1 DEF IInv, TypeOK, HoldingInv, HoldingAt, Block, Size, Removing
    <2>2. CASE x = o
      BY <2>2 DEF IInv, TypeOK, HoldingInv, HoldingAt, Block, Size, Removing
    <2> QED
      BY <2>1, <2>2
  <1>6. StoredInv'
    <2> SUFFICES ASSUME NEW x \in Op PROVE StoredAt(x)'
      BY DEF StoredInv
    <2>0. rows \subseteq rows'
      BY <1>d
    <2>1. CASE x # o
      BY <2>0, <2>1 DEF IInv, TypeOK, StoredInv, StoredAt, Block, Size
    <2>2. CASE x = o /\ rows' = rows
      <3>1. pc'[o] = "done" \/ (pc'[o] = "cleanup" /\ UNCHANGED <<held, req, start>>)
        BY <1>i, <2>2 DEF IInv, TypeOK
      <3> QED
        BY <2>2, <3>1 DEF IInv, TypeOK, StoredInv, StoredAt, Block, Size
    <2>3. CASE x = o /\ rows' # rows
      <3>1. PICK p \in held[o] : /\ rows' = rows \cup {row(p)}
                               /\ held' = [held EXCEPT ![o] = @ \ {p}]
                               /\ UNCHANGED <<pc, req, start>>
        BY <1>d, <2>3
      <3>2. held'[o] = held[o] \ {p}
        BY <3>1 DEF IInv, TypeOK
      <3> QED
        BY <2>3, <3>1, <3>2 DEF IInv, StoredInv, StoredAt, Block, Size
    <2> QED
      BY <2>1, <2>2, <2>3
  <1>7. FreshInv'
    BY DEF IInv, FreshInv, TypeOK, Size, MutexInv, Critical, BlockInv, BlockAt, Port, Asked
  <1>8. KindInv'
    <2> SUFFICES ASSUME NEW x \in Op PROVE KindAt(x)'
      BY DEF KindInv
    <2>1. CASE x # o
      <3>1. \A i \in Inst : table[i] # "none" => table'[i] # "none"
        BY DEF IInv, TypeOK, Request
      <3> QED
        BY <2>1, <3>1 DEF IInv, TypeOK, KindInv, KindAt, Request, Removing, Searching
    <2>2. CASE x = o
      BY <2>2 DEF IInv, TypeOK, KindInv, KindAt, Searching, Removing
    <2> QED
      BY <2>1, <2>2
  <1>9. RowInv'
    <2>1. \A x \in Op : pc[x] # "idle" => pc'[x] # "idle"
      BY DEF IInv, TypeOK
    <2>2. \A r \in rows : table'[r.inst] # "none"
      BY <1>g DEF IInv, TypeOK, RowInv, Row
    <2>3. pc'[o] # "idle"
      BY <2>1
    <2>4. table'[req[o].inst] # "none"
      BY <1>a, <1>g DEF IInv, TypeOK, KindInv, KindAt, Active, Request
    <2> QED
      BY <1>d, <2>1, <2>2, <2>3, <2>4 DEF IInv, TypeOK, RowInv, Row
  <1>10. RemovalInv'
    BY DEF IInv, RemovalInv, RemovalAt, TypeOK, KindInv, KindAt, Row, Removing, Searching
  <1>11. ExclusiveInv'
    BY DEF IInv, ExclusiveInv, TypeOK
  <1>12. KeptInv'
    BY DEF IInv, KeptInv, TypeOK
  <1>13. OnceInv'
    <2>1. CASE rows' = rows
      BY <2>1, <1>b, <1>h DEF IInv, TypeOK, OnceInv
    <2>2. CASE rows' # rows
      <3>1. PICK p \in held[o] : /\ rows' = rows \cup {row(p)}
                               /\ held' = [held EXCEPT ![o] = @ \ {p}]
        BY <1>d, <2>2
      <3>2. \A r \in rows : Serving(r)' => Serving(r) /\ r.port # p
        BY <1>h DEF IInv, TypeOK, OnceInv
      <3>3. \A x \in Op : p \notin held'[x]
        BY <3>1, <1>b DEF IInv, TypeOK, ExclusiveInv
      <3> QED
        BY <3>1, <3>2, <3>3, <1>b DEF IInv, TypeOK, OnceInv
    <2> QED
      BY <2>1, <2>2
  <1>14. ServedMarked'
    <2>1. \A p \in held[o] : p \in marked'
      BY DEF IInv, KeptInv
    <2>2. \A r \in rows : Serving(r)' => r.port \in marked'
      BY <1>h DEF IInv, TypeOK, ServedMarked
    <2> QED
      BY <1>d, <2>1, <2>2 DEF ServedMarked
  <1> QED
    BY <1>1, <1>2, <1>3, <1>4, <1>5, <1>6, <1>7, <1>8,
       <1>9, <1>10, <1>11, <1>12, <1>13, <1>14 DEF IInv

\* o decides which ports to give back: only ports it holds.
LEMMA CleanupInv ==
  ASSUME IInv, Undisturbed', NEW o \in Op, Cleanup(o)
  PROVE  IInv'
  <1> USE DEF Cleanup, Goto, MayFail, redisVars, dbVars, scanVars, ownVars
  <1>b. PICK ports \in SUBSET held[o] : rel' = [rel EXCEPT ![o] = ports]
    BY DEF Undisturbed, Clash
  <1>1. TypeOK'
    <2>1. rel' \in [Op -> SUBSET Port]
      BY <1>b DEF IInv, TypeOK
    <2> QED
      BY <2>1 DEF IInv, TypeOK, Location, Note, Upset, Clash, Leak
  <1>2. MutexInv'
    BY DEF IInv, MutexInv, TypeOK, Critical, Location
  <1>3. DownInv'
    BY DEF IInv, DownInv, TypeOK, Active
  <1>4. BlockInv'
    BY DEF IInv, BlockInv, BlockAt, TypeOK, Port, Size, LastStart
  <1>5. HoldingInv'
    <2> SUFFICES ASSUME NEW x \in Op PROVE HoldingAt(x)'
      BY DEF HoldingInv
    <2>1. CASE x # o
      BY <2>1, <1>b DEF IInv, TypeOK, HoldingInv, HoldingAt, Block, Size, Removing
    <2>2. CASE x = o
      BY <2>2, <1>b DEF IInv, TypeOK, HoldingInv, HoldingAt, Block, Size, Removing
    <2> QED
      BY <2>1, <2>2
  <1>6. StoredInv'
    <2> SUFFICES ASSUME NEW x \in Op PROVE StoredAt(x)'
      BY DEF StoredInv
    <2>1. CASE x # o
      BY <2>1, <1>b DEF IInv, TypeOK, StoredInv, StoredAt, Block, Size
    <2>2. CASE x = o
      BY <2>2 DEF IInv, TypeOK, StoredInv, StoredAt, Block, Size
    <2> QED
      BY <2>1, <2>2
  <1>7. FreshInv'
    BY DEF IInv, FreshInv, TypeOK, Size, MutexInv, Critical, BlockInv, BlockAt, Port, Asked
  <1>8. KindInv'
    <2> SUFFICES ASSUME NEW x \in Op PROVE KindAt(x)'
      BY DEF KindInv
    <2>1. CASE x # o
      BY <2>1 DEF IInv, TypeOK, KindInv, KindAt, Searching, Removing
    <2>2. CASE x = o
      BY <2>2 DEF IInv, TypeOK, KindInv, KindAt, Searching, Removing
    <2> QED
      BY <2>1, <2>2
  <1>9. RowInv'
    BY DEF IInv, RowInv, TypeOK, Row
  <1>10. RemovalInv'
    BY DEF IInv, RemovalInv, RemovalAt, TypeOK, KindInv, KindAt, Row, Removing, Searching
  <1>11. ExclusiveInv'
    BY DEF IInv, ExclusiveInv, TypeOK
  <1>12. KeptInv'
    BY DEF IInv, KeptInv, TypeOK
  <1>13. OnceInv'
    BY DEF IInv, OnceInv, Serving, Engaged, Active, TypeOK, RowInv, Row
  <1>14. ServedMarked'
    BY DEF IInv, ServedMarked, Serving, Engaged, Active, TypeOK, RowInv, Row
  <1> QED
    BY <1>1, <1>2, <1>3, <1>4, <1>5, <1>6, <1>7, <1>8,
       <1>9, <1>10, <1>11, <1>12, <1>13, <1>14 DEF IInv

\* o gives back ports it holds.
LEMMA ReleaseBlockInv ==
  ASSUME IInv, NEW o \in Op, ReleaseBlock(o)
  PROVE  IInv'
  <1> USE DEF Unmark, ReleaseBlock, ReleasePort, Conclude, Goto, MayFail,
              redisVars, dbVars, scanVars, ownVars
  <1>a. \A x \in Op : x # o => rel[o] \cap held[x] = {}
    BY DEF IInv, TypeOK, HoldingInv, HoldingAt, ExclusiveInv
  <1>b. \A r \in rows : Serving(r) => r.port \notin rel[o]
    BY DEF IInv, TypeOK, HoldingInv, HoldingAt, OnceInv
  <1>1. TypeOK'
    <2>1. req' \in [Op -> Request]
      BY NoRequestType DEF IInv, TypeOK
    <2>2. start' \in [Op -> Asked] /\ n' \in [Op -> 0..BlockSize]
      BY DEF IInv, TypeOK, Asked
    <2>3. table' \in [Inst -> {"none", "active", "deleted"}]
      BY DEF IInv, TypeOK, Request
    <2>4. /\ rel' \in [Op -> SUBSET Port] /\ held' \in [Op -> SUBSET Port]
          /\ marked' \subseteq Port
      BY DEF IInv, TypeOK
    <2> QED
      BY <2>1, <2>2, <2>3, <2>4 DEF IInv, TypeOK, Location, Note, Upset, Clash, Leak
  <1>2. MutexInv'
    BY DEF IInv, MutexInv, TypeOK, Critical, Location
  <1>3. DownInv'
    BY DEF IInv, DownInv, TypeOK, Active
  <1>4. BlockInv'
    BY DEF IInv, BlockInv, BlockAt, TypeOK, Port, Size, LastStart
  <1>5. HoldingInv'
    <2> SUFFICES ASSUME NEW x \in Op PROVE HoldingAt(x)'
      BY DEF HoldingInv
    <2>1. CASE x # o
      BY <2>1 DEF IInv, TypeOK, HoldingInv, HoldingAt, Block, Size, Removing
    <2>2. CASE x = o
      BY <2>2 DEF IInv, TypeOK, HoldingInv, HoldingAt, Block, Size, Removing
    <2> QED
      BY <2>1, <2>2
  <1>6. StoredInv'
    <2> SUFFICES ASSUME NEW x \in Op PROVE StoredAt(x)'
      BY DEF StoredInv
    <2>1. CASE x # o
      BY <2>1 DEF IInv, TypeOK, StoredInv, StoredAt, Block, Size
    <2>2. CASE x = o
      BY <2>2 DEF IInv, TypeOK, StoredInv, StoredAt, Block, Size
    <2> QED
      BY <2>1, <2>2
  <1>7. FreshInv'
    BY DEF IInv, FreshInv, TypeOK, Size, MutexInv, Critical, BlockInv, BlockAt, Port, Asked
  <1>8. KindInv'
    <2> SUFFICES ASSUME NEW x \in Op PROVE KindAt(x)'
      BY DEF KindInv
    <2>1. CASE x # o
      <3>1. \A i \in Inst : table[i] # "none" => table'[i] # "none"
        BY DEF IInv, TypeOK, Request
      <3> QED
        BY <2>1, <3>1 DEF IInv, TypeOK, KindInv, KindAt, Request, Removing, Searching
    <2>2. CASE x = o
      BY <2>2 DEF IInv, TypeOK, KindInv, KindAt, Searching, Removing
    <2> QED
      BY <2>1, <2>2
  <1>9. RowInv'
    BY DEF IInv, RowInv, TypeOK, Row
  <1>10. RemovalInv'
    BY DEF IInv, RemovalInv, RemovalAt, TypeOK, KindInv, KindAt, Row, Removing, Searching
  <1>11. ExclusiveInv'
    BY DEF IInv, ExclusiveInv, TypeOK
  <1>12. KeptInv'
    <2> SUFFICES ASSUME NEW x \in Op PROVE held'[x] \subseteq marked'
      BY DEF KeptInv
    <2>1. CASE x # o
      BY <2>1, <1>a DEF IInv, TypeOK, KeptInv
    <2>2. CASE x = o
      BY <2>2 DEF IInv, TypeOK, KeptInv
    <2> QED
      BY <2>1, <2>2
  <1>13. OnceInv'
    <2>0. Active(o)' => req'[o].inst = req[o].inst
      BY DEF IInv, TypeOK, Active
    <2>1. \A r \in rows : Serving(r)' => Serving(r)
      BY <2>0, ServingShrinks DEF IInv, TypeOK, KindInv, KindAt, Searching, Active
    <2> QED
      BY <2>1, <1>b DEF IInv, TypeOK, OnceInv, Row
  <1>14. ServedMarked'
    <2>0. Active(o)' => req'[o].inst = req[o].inst
      BY DEF IInv, TypeOK, Active
    <2>1. \A r \in rows : Serving(r)' => Serving(r)
      BY <2>0, ServingShrinks DEF IInv, TypeOK, KindInv, KindAt, Searching, Active
    <2> QED
      BY <2>1, <1>b DEF IInv, TypeOK, ServedMarked, Row
  <1> QED
    BY <1>1, <1>2, <1>3, <1>4, <1>5, <1>6, <1>7, <1>8,
       <1>9, <1>10, <1>11, <1>12, <1>13, <1>14 DEF IInv

\* o removes the mark of a mapping that was served.
LEMMA UnmarkRowInv ==
  ASSUME IInv, NEW o \in Op, UnmarkRow(o)
  PROVE  IInv'
  <1> USE DEF Unmark, UnmarkRow, Goto, MayFail, redisVars, dbVars, scanVars, ownVars
  <1>a. \A r \in todo[o] : r \in rows /\ Serving(r)
    BY DEF IInv, TypeOK, RemovalInv, RemovalAt, Serving, Engaged, Active
  <1>b. \A r \in todo[o], x \in Op : r.port \notin held[x]
    BY <1>a DEF IInv, TypeOK, OnceInv
  <1>c. req' \in [Op -> Request]
    BY NoRequestType DEF IInv, TypeOK
  <1>d. Active(o)' => req'[o].inst = req[o].inst
    BY DEF IInv, TypeOK, Active
  <1>1. TypeOK'
    <2>u. upset' \subseteq Upset
      BY DEF IInv, TypeOK, Note, Upset, Clash, Leak
    <2>m. marked' \subseteq Port
      BY <1>a DEF IInv, TypeOK
    <2> QED
      BY <2>u, <2>m, <1>a, <1>c DEF IInv, TypeOK, Location
  <1>2. MutexInv'
    BY DEF IInv, MutexInv, TypeOK, Critical, Location
  <1>3. DownInv'
    BY DEF IInv, DownInv, TypeOK, Active
  <1>4. BlockInv'
    BY DEF IInv, BlockInv, BlockAt, TypeOK, Port, Size, LastStart
  <1>5. HoldingInv'
    <2> SUFFICES ASSUME NEW x \in Op PROVE HoldingAt(x)'
      BY DEF HoldingInv
    <2>1. CASE x # o
      BY <2>1 DEF IInv, TypeOK, HoldingInv, HoldingAt, Block, Size, Removing
    <2>2. CASE x = o
      BY <2>2 DEF IInv, TypeOK, HoldingInv, HoldingAt, Block, Size, Removing
    <2> QED
      BY <2>1, <2>2
  <1>6. StoredInv'
    <2> SUFFICES ASSUME NEW x \in Op PROVE StoredAt(x)'
      BY DEF StoredInv
    <2>1. CASE x # o
      BY <2>1 DEF IInv, TypeOK, StoredInv, StoredAt, Block, Size
    <2>2. CASE x = o
      BY <2>2 DEF IInv, TypeOK, StoredInv, StoredAt, Block, Size
    <2> QED
      BY <2>1, <2>2
  <1>7. FreshInv'
    BY DEF IInv, FreshInv, TypeOK, Size, MutexInv, Critical, BlockInv, BlockAt, Port, Asked
  <1>8. KindInv'
    <2> SUFFICES ASSUME NEW x \in Op PROVE KindAt(x)'
      BY DEF KindInv
    <2>1. CASE x # o
      BY <2>1 DEF IInv, TypeOK, KindInv, KindAt, Searching, Removing
    <2>2. CASE x = o
      BY <2>2 DEF IInv, TypeOK, KindInv, KindAt, Searching, Removing
    <2> QED
      BY <2>1, <2>2
  <1>9. RowInv'
    BY DEF IInv, RowInv, TypeOK, Row
  <1>10. RemovalInv'
    BY DEF IInv, RemovalInv, RemovalAt, TypeOK, KindInv, KindAt, Row, Removing, Searching
  <1>11. ExclusiveInv'
    BY DEF IInv, ExclusiveInv, TypeOK
  <1>12. KeptInv'
    BY <1>b DEF IInv, TypeOK, KeptInv
  <1>13. OnceInv'
    <2>1. \A r \in rows : Serving(r)' => Serving(r)
      BY <1>d, ServingShrinks DEF IInv, TypeOK, KindInv, KindAt, Active
    <2> QED
      BY <2>1 DEF IInv, TypeOK, OnceInv
  <1>14. ServedMarked'
    <2>1. \A r \in rows : Serving(r)' => Serving(r)
      BY <1>d, ServingShrinks DEF IInv, TypeOK, KindInv, KindAt, Active
    <2>2. CASE marked' = marked
      BY <2>1, <2>2 DEF IInv, TypeOK, ServedMarked
    <2>3. CASE marked' # marked
      <3>1. PICK r \in todo[o] : /\ marked' = marked \ {r.port}
                               /\ draining' = [draining EXCEPT ![o] = {r}]
        BY <2>3
      <3>2. \A x \in rows : Serving(x)' => x # r
        BY <3>1 DEF IInv, TypeOK, Serving
      <3> QED
        BY <1>a, <2>1, <3>1, <3>2 DEF IInv, TypeOK, OnceInv, ServedMarked
    <2> QED
      BY <2>2, <2>3
  <1> QED
    BY <1>1, <1>2, <1>3, <1>4, <1>5, <1>6, <1>7, <1>8,
       <1>9, <1>10, <1>11, <1>12, <1>13, <1>14 DEF IInv

\* o deletes the row it has unmarked.
LEMMA DeletePortInv ==
  ASSUME IInv, Undisturbed', NEW o \in Op, DeletePort(o)
  PROVE  IInv'
  <1> USE DEF DeletePort, Goto, MayFail, redisVars, dbVars, scanVars, ownVars
  <1>a. rows' = rows \ draining[o]
    BY DEF Note, Undisturbed, Clash
  <1>b. \A r \in rows' : r \in rows /\ (Serving(r)' => Serving(r))
    BY <1>a DEF IInv, TypeOK, Serving, Engaged, Active, Row
  <1>1. TypeOK'
    BY DEF IInv, TypeOK, Location, Note, Upset, Clash, Leak
  <1>2. MutexInv'
    BY DEF IInv, MutexInv, TypeOK, Critical, Location
  <1>3. DownInv'
    BY DEF IInv, DownInv, TypeOK, Active
  <1>4. BlockInv'
    BY DEF IInv, BlockInv, BlockAt, TypeOK, Port, Size, LastStart
  <1>5. HoldingInv'
    <2> SUFFICES ASSUME NEW x \in Op PROVE HoldingAt(x)'
      BY DEF HoldingInv
    <2>1. CASE x # o
      BY <2>1 DEF IInv, TypeOK, HoldingInv, HoldingAt, Block, Size, Removing
    <2>2. CASE x = o
      BY <2>2 DEF IInv, TypeOK, HoldingInv, HoldingAt, Block, Size, Removing
    <2> QED
      BY <2>1, <2>2
  <1>6. StoredInv'
    <2> SUFFICES ASSUME NEW x \in Op PROVE StoredAt(x)'
      BY DEF StoredInv
    <2>1. CASE x = o
      BY <2>1 DEF IInv, TypeOK, StoredAt
    <2>2. CASE x # o
      <3>1. pc'[x] \in {"commit", "cleanup"} =>
              \A r \in rows : r.by = x => r \in rows'
        BY <2>2, <1>a DEF IInv, TypeOK, RemovalInv, RemovalAt
      <3> QED
        BY <2>2, <3>1 DEF IInv, TypeOK, StoredInv, StoredAt, Block, Size
    <2> QED
      BY <2>1, <2>2
  <1>7. FreshInv'
    BY DEF IInv, FreshInv, TypeOK, Size, MutexInv, Critical, BlockInv, BlockAt, Port, Asked
  <1>8. KindInv'
    <2> SUFFICES ASSUME NEW x \in Op PROVE KindAt(x)'
      BY DEF KindInv
    <2>1. CASE x # o
      BY <2>1 DEF IInv, TypeOK, KindInv, KindAt, Searching, Removing
    <2>2. CASE x = o
      BY <2>2 DEF IInv, TypeOK, KindInv, KindAt, Searching, Removing
    <2> QED
      BY <2>1, <2>2
  <1>9. RowInv'
    BY <1>a DEF IInv, RowInv, TypeOK, Row
  <1>10. RemovalInv'
    <2> SUFFICES ASSUME NEW x \in Op PROVE RemovalAt(x)'
      BY DEF RemovalInv
    <2>1. \A y \in Op : /\ todo'[y] = todo[y]
                        /\ draining'[y] \subseteq draining[y]
                        /\ y # o => pc'[y] = pc[y]
                        /\ pc[y] = "done" => pc'[y] = "done"
      BY DEF IInv, TypeOK
    <2>2. (todo[x] \cup draining'[x]) \cap draining[o] = {}
      BY <2>1 DEF IInv, TypeOK, RemovalInv, RemovalAt
    <2> QED
      BY <1>a, <2>1, <2>2 DEF IInv, TypeOK, RemovalInv, RemovalAt, Row
  <1>11. ExclusiveInv'
    BY DEF IInv, ExclusiveInv, TypeOK
  <1>12. KeptInv'
    BY DEF IInv, KeptInv, TypeOK
  <1>13. OnceInv'
    BY <1>b DEF IInv, TypeOK, OnceInv
  <1>14. ServedMarked'
    BY <1>b DEF IInv, TypeOK, ServedMarked
  <1> QED
    BY <1>1, <1>2, <1>3, <1>4, <1>5, <1>6, <1>7, <1>8,
       <1>9, <1>10, <1>11, <1>12, <1>13, <1>14 DEF IInv

\* o soft-deletes the instance.
LEMMA SoftDeleteInstanceInv ==
  ASSUME IInv, NEW o \in Op, SoftDeleteInstance(o)
  PROVE  IInv'
  <1> USE DEF SoftDeleteInstance, Goto, MayFail, redisVars, dbVars, scanVars, ownVars
  <1>1. TypeOK'
    <2>1. req' \in [Op -> Request]
      BY NoRequestType DEF IInv, TypeOK
    <2> QED
      BY <2>1 DEF IInv, TypeOK, Location, Request
  <1>2. MutexInv'
    BY DEF IInv, MutexInv, TypeOK, Critical, Location
  <1>3. DownInv'
    BY DEF IInv, DownInv, TypeOK, Active
  <1>4. BlockInv'
    BY DEF IInv, BlockInv, BlockAt, TypeOK, Port, Size, LastStart
  <1>5. HoldingInv'
    <2> SUFFICES ASSUME NEW x \in Op PROVE HoldingAt(x)'
      BY DEF HoldingInv
    <2>1. CASE x # o
      BY <2>1 DEF IInv, TypeOK, HoldingInv, HoldingAt, Block, Size, Removing
    <2>2. CASE x = o
      BY <2>2 DEF IInv, TypeOK, HoldingInv, HoldingAt, Block, Size, Removing
    <2> QED
      BY <2>1, <2>2
  <1>6. StoredInv'
    <2> SUFFICES ASSUME NEW x \in Op PROVE StoredAt(x)'
      BY DEF StoredInv
    <2>1. CASE x # o
      BY <2>1 DEF IInv, TypeOK, StoredInv, StoredAt, Block, Size
    <2>2. CASE x = o
      BY <2>2 DEF IInv, TypeOK, StoredInv, StoredAt, Block, Size
    <2> QED
      BY <2>1, <2>2
  <1>7. FreshInv'
    BY DEF IInv, FreshInv, TypeOK, Size, MutexInv, Critical, BlockInv, BlockAt, Port, Asked
  <1>8. KindInv'
    <2> SUFFICES ASSUME NEW x \in Op PROVE KindAt(x)'
      BY DEF KindInv
    <2>1. CASE x # o
      BY <2>1 DEF IInv, TypeOK, KindInv, KindAt, Searching, Removing
    <2>2. CASE x = o
      BY <2>2 DEF IInv, TypeOK, KindInv, KindAt, Searching, Removing
    <2> QED
      BY <2>1, <2>2
  <1>9. RowInv'
    BY DEF IInv, RowInv, TypeOK, Row
  <1>10. RemovalInv'
    BY DEF IInv, RemovalInv, RemovalAt, TypeOK, KindInv, KindAt, Row, Removing, Searching
  <1>11. ExclusiveInv'
    BY DEF IInv, ExclusiveInv, TypeOK
  <1>12. KeptInv'
    BY DEF IInv, KeptInv, TypeOK
  <1>13. OnceInv'
    BY DEF IInv, OnceInv, Serving, Engaged, Active, TypeOK, RowInv, Row
  <1>14. ServedMarked'
    BY DEF IInv, ServedMarked, Serving, Engaged, Active, TypeOK, RowInv, Row
  <1> QED
    BY <1>1, <1>2, <1>3, <1>4, <1>5, <1>6, <1>7, <1>8,
       <1>9, <1>10, <1>11, <1>12, <1>13, <1>14 DEF IInv

\* A request for ports begins, on a live instance or on a new one.
LEMMA AskInv ==
  ASSUME IInv,
         NEW o \in Op, NEW kind \in {"provision", "start", "add"}, NEW i \in Inst,
         NEW proto \in Proto, NEW plan \in Plan, NEW p \in Port,
         Ask(o, kind, i, proto, plan, p),
         \/ table[i] = "active" /\ table' = table
         \/ table[i] = "none" /\ table' = [table EXCEPT ![i] = "active"]
  PROVE  IInv'
  <1> USE DEF Ask, Goto, MayFail, redisVars, dbVars, scanVars, ownVars
  <1>a. \A r \in rows : Serving(r)' => Serving(r)
    BY DEF IInv, TypeOK, RowInv, Row, Serving, Engaged, Active
  <1>b. \A j \in Inst : table[j] # "none" => table'[j] # "none"
    BY DEF IInv, TypeOK
  <1>1. TypeOK'
    BY DEF IInv, TypeOK, Location, Request, Kind, Port, Asked
  <1>2. MutexInv'
    BY DEF IInv, MutexInv, TypeOK, Critical, Location
  <1>3. DownInv'
    BY DEF IInv, DownInv, TypeOK, Active
  <1>4. BlockInv'
    BY DEF IInv, BlockInv, BlockAt, TypeOK, Port, Size, LastStart
  <1>5. HoldingInv'
    <2> SUFFICES ASSUME NEW x \in Op PROVE HoldingAt(x)'
      BY DEF HoldingInv
    <2>1. CASE x # o
      BY <2>1 DEF IInv, TypeOK, HoldingInv, HoldingAt, Block, Size, Removing
    <2>2. CASE x = o
      BY <2>2 DEF IInv, TypeOK, HoldingInv, HoldingAt, Block, Size, Removing
    <2> QED
      BY <2>1, <2>2
  <1>6. StoredInv'
    <2> SUFFICES ASSUME NEW x \in Op PROVE StoredAt(x)'
      BY DEF StoredInv
    <2>1. CASE x # o
      BY <2>1 DEF IInv, TypeOK, StoredInv, StoredAt, Block, Size
    <2>2. CASE x = o
      BY <2>2 DEF IInv, TypeOK, StoredInv, StoredAt, Block, Size
    <2> QED
      BY <2>1, <2>2
  <1>7. FreshInv'
    BY DEF IInv, FreshInv, TypeOK, Size, MutexInv, Critical, BlockInv, BlockAt, Port, Asked
  <1>8. KindInv'
    <2> SUFFICES ASSUME NEW x \in Op PROVE KindAt(x)'
      BY DEF KindInv
    <2>1. CASE x # o
      BY <2>1, <1>b DEF IInv, TypeOK, KindInv, KindAt, Searching, Request
    <2>2. CASE x = o
      BY <2>2 DEF IInv, TypeOK, KindInv, KindAt, Searching
    <2> QED
      BY <2>1, <2>2
  <1>9. RowInv'
    BY <1>b DEF IInv, TypeOK, RowInv, Row
  <1>10. RemovalInv'
    BY DEF IInv, RemovalInv, RemovalAt, TypeOK, KindInv, KindAt, Row, Removing, Searching
  <1>11. ExclusiveInv'
    BY DEF IInv, ExclusiveInv, TypeOK
  <1>12. KeptInv'
    BY DEF IInv, KeptInv, TypeOK
  <1>13. OnceInv'
    BY <1>a DEF IInv, TypeOK, OnceInv, Row
  <1>14. ServedMarked'
    BY <1>a DEF IInv, TypeOK, ServedMarked, Row
  <1> QED
    BY <1>1, <1>2, <1>3, <1>4, <1>5, <1>6, <1>7, <1>8,
       <1>9, <1>10, <1>11, <1>12, <1>13, <1>14 DEF IInv

\* The removal of a mapping begins: its rows are served, and its alone.
LEMMA RemovePortMappingInv ==
  ASSUME IInv, Undisturbed', NEW o \in Op, NEW r \in rows, RemovePortMapping(o, r)
  PROVE  IInv'
  <1> USE DEF RemovePortMapping, Goto, MayFail, redisVars, dbVars, scanVars, ownVars
  <1>a. \A s \in rows : Serving(s)' => Serving(s)
    BY DEF IInv, TypeOK, Row, Serving, Engaged, Active, Request
  <1>b. Undisputed({r})
    BY DEF Note, Undisturbed, Clash
  <1>1. TypeOK'
    <2>1. req' \in [Op -> Request]
      BY RemovalRequestType DEF IInv, TypeOK, Kind, Row
    <2> QED
      BY <2>1 DEF IInv, TypeOK, Location, Note, Upset, Clash, Leak
  <1>2. MutexInv'
    BY DEF IInv, MutexInv, TypeOK, Critical, Location
  <1>3. DownInv'
    BY DEF IInv, DownInv, TypeOK, Active
  <1>4. BlockInv'
    BY DEF IInv, BlockInv, BlockAt, TypeOK, Port, Size, LastStart
  <1>5. HoldingInv'
    <2> SUFFICES ASSUME NEW x \in Op PROVE HoldingAt(x)'
      BY DEF HoldingInv
    <2>1. CASE x # o
      BY <2>1 DEF IInv, TypeOK, HoldingInv, HoldingAt, Block, Size, Removing
    <2>2. CASE x = o
      BY <2>2 DEF IInv, TypeOK, HoldingInv, HoldingAt, Block, Size, Removing
    <2> QED
      BY <2>1, <2>2
  <1>6. StoredInv'
    <2> SUFFICES ASSUME NEW x \in Op PROVE StoredAt(x)'
      BY DEF StoredInv
    <2>1. CASE x # o
      BY <2>1 DEF IInv, TypeOK, StoredInv, StoredAt, Block, Size
    <2>2. CASE x = o
      BY <2>2 DEF IInv, TypeOK, StoredInv, StoredAt, Block, Size
    <2> QED
      BY <2>1, <2>2
  <1>7. FreshInv'
    BY DEF IInv, FreshInv, TypeOK, Size, MutexInv, Critical, BlockInv, BlockAt, Port, Asked
  <1>8. KindInv'
    <2> SUFFICES ASSUME NEW x \in Op PROVE KindAt(x)'
      BY DEF KindInv
    <2>1. CASE x # o
      BY <2>1 DEF IInv, TypeOK, KindInv, KindAt, Searching
    <2>2. CASE x = o
      BY <2>2 DEF IInv, TypeOK, KindInv, KindAt, Searching, Row, Request
    <2> QED
      BY <2>1, <2>2
  <1>9. RowInv'
    BY DEF IInv, RowInv, TypeOK, Row
  <1>10. RemovalInv'
    <2> SUFFICES ASSUME NEW x \in Op PROVE RemovalAt(x)'
      BY DEF RemovalInv
    <2>1. \A s \in rows : ~Active(s.by) => pc'[s.by] = "done"
      BY DEF IInv, TypeOK, RowInv, Row, Active
    <2>2. CASE x # o
      BY <1>b, <2>2 DEF IInv, TypeOK, RemovalInv, RemovalAt, Undisputed, Row
    <2>3. CASE x = o
      BY <1>b, <2>1, <2>3 DEF IInv, TypeOK, RemovalInv, RemovalAt, KindInv, KindAt,
                        Undisputed, Row
    <2> QED
      BY <2>2, <2>3
  <1>11. ExclusiveInv'
    BY DEF IInv, ExclusiveInv, TypeOK
  <1>12. KeptInv'
    BY DEF IInv, KeptInv, TypeOK
  <1>13. OnceInv'
    BY <1>a DEF IInv, TypeOK, OnceInv, Row
  <1>14. ServedMarked'
    BY <1>a DEF IInv, TypeOK, ServedMarked, Row
  <1> QED
    BY <1>1, <1>2, <1>3, <1>4, <1>5, <1>6, <1>7, <1>8,
       <1>9, <1>10, <1>11, <1>12, <1>13, <1>14 DEF IInv

\* The removal of the mappings of an instance begins: its rows are served, and its alone.
LEMMA DeleteInstanceInv ==
  ASSUME IInv, Undisturbed', NEW o \in Op, NEW i \in Inst, DeleteInstance(o, i)
  PROVE  IInv'
  <1> USE DEF DeleteInstance, Goto, MayFail, redisVars, dbVars, scanVars, ownVars
  <1>a. \A r \in rows : Serving(r)' => Serving(r)
    BY DEF IInv, TypeOK, Row, Serving, Engaged, Active, Request
  <1>b. Undisputed({r \in rows : r.inst = i})
    BY DEF Note, Undisturbed, Clash
  <1>1. TypeOK'
    <2>1. req' \in [Op -> Request]
      BY RemovalRequestType DEF IInv, TypeOK, Kind, Row
    <2> QED
      BY <2>1 DEF IInv, TypeOK, Location, Note, Upset, Clash, Leak
  <1>2. MutexInv'
    BY DEF IInv, MutexInv, TypeOK, Critical, Location
  <1>3. DownInv'
    BY DEF IInv, DownInv, TypeOK, Active
  <1>4. BlockInv'
    BY DEF IInv, BlockInv, BlockAt, TypeOK, Port, Size, LastStart
  <1>5. HoldingInv'
    <2> SUFFICES ASSUME NEW x \in Op PROVE HoldingAt(x)'
      BY DEF HoldingInv
    <2>1. CASE x # o
      BY <2>1 DEF IInv, TypeOK, HoldingInv, HoldingAt, Block, Size, Removing
    <2>2. CASE x = o
      BY <2>2 DEF IInv, TypeOK, HoldingInv, HoldingAt, Block, Size, Removing
    <2> QED
      BY <2>1, <2>2
  <1>6. StoredInv'
    <2> SUFFICES ASSUME NEW x \in Op PROVE StoredAt(x)'
      BY DEF StoredInv
    <2>1. CASE x # o
      BY <2>1 DEF IInv, TypeOK, StoredInv, StoredAt, Block, Size
    <2>2. CASE x = o
      BY <2>2 DEF IInv, TypeOK, StoredInv, StoredAt, Block, Size
    <2> QED
      BY <2>1, <2>2
  <1>7. FreshInv'
    BY DEF IInv, FreshInv, TypeOK, Size, MutexInv, Critical, BlockInv, BlockAt, Port, Asked
  <1>8. KindInv'
    <2> SUFFICES ASSUME NEW x \in Op PROVE KindAt(x)'
      BY DEF KindInv
    <2>1. CASE x # o
      BY <2>1 DEF IInv, TypeOK, KindInv, KindAt, Searching
    <2>2. CASE x = o
      BY <2>2 DEF IInv, TypeOK, KindInv, KindAt, Searching, Row, Request
    <2> QED
      BY <2>1, <2>2
  <1>9. RowInv'
    BY DEF IInv, RowInv, TypeOK, Row
  <1>10. RemovalInv'
    <2> SUFFICES ASSUME NEW x \in Op PROVE RemovalAt(x)'
      BY DEF RemovalInv
    <2>1. \A r \in rows : ~Active(r.by) => pc'[r.by] = "done"
      BY DEF IInv, TypeOK, RowInv, Row, Active
    <2>2. CASE x # o
      BY <1>b, <2>2 DEF IInv, TypeOK, RemovalInv, RemovalAt, Undisputed, Row
    <2>3. CASE x = o
      BY <1>b, <2>1, <2>3 DEF IInv, TypeOK, RemovalInv, RemovalAt, KindInv, KindAt,
                        Undisputed, Row
    <2> QED
      BY <2>2, <2>3
  <1>11. ExclusiveInv'
    BY DEF IInv, ExclusiveInv, TypeOK
  <1>12. KeptInv'
    BY DEF IInv, KeptInv, TypeOK
  <1>13. OnceInv'
    BY <1>a DEF IInv, TypeOK, OnceInv, Row
  <1>14. ServedMarked'
    BY <1>a DEF IInv, TypeOK, ServedMarked, Row
  <1> QED
    BY <1>1, <1>2, <1>3, <1>4, <1>5, <1>6, <1>7, <1>8,
       <1>9, <1>10, <1>11, <1>12, <1>13, <1>14 DEF IInv

\* The Redis lock expires; the mutex still excludes.
LEMMA LockExpiresInv ==
  ASSUME IInv, LockExpires
  PROVE  IInv'
  <1> USE DEF LockExpires, Goto, MayFail, redisVars, dbVars, scanVars, ownVars
  <1>1. TypeOK'
    BY DEF IInv, TypeOK, Location
  <1>2. MutexInv'
    BY DEF IInv, MutexInv, TypeOK, Critical, Location
  <1>3. DownInv'
    BY DEF IInv, DownInv, TypeOK, Active
  <1>4. BlockInv'
    BY DEF IInv, BlockInv, BlockAt, TypeOK, Port, Size, LastStart
  <1>5. HoldingInv'
    BY DEF IInv, HoldingInv, HoldingAt, Block, Size
  <1>6. StoredInv'
    BY DEF IInv, StoredInv, StoredAt, Block, Size
  <1>7. FreshInv'
    BY DEF IInv, FreshInv, TypeOK, Size, MutexInv, Critical, BlockInv, BlockAt, Port, Asked
  <1>8. KindInv'
    BY DEF IInv, KindInv, KindAt
  <1>9. RowInv'
    BY DEF IInv, RowInv, TypeOK, Row
  <1>10. RemovalInv'
    BY DEF IInv, RemovalInv, RemovalAt
  <1>11. ExclusiveInv'
    BY DEF IInv, ExclusiveInv, TypeOK
  <1>12. KeptInv'
    BY DEF IInv, KeptInv, TypeOK
  <1>13. OnceInv'
    BY DEF IInv, OnceInv, Serving, Engaged, Active, TypeOK, RowInv, Row
  <1>14. ServedMarked'
    BY DEF IInv, ServedMarked, Serving, Engaged, Active, TypeOK, RowInv, Row
  <1> QED
    BY <1>1, <1>2, <1>3, <1>4, <1>5, <1>6, <1>7, <1>8,
       <1>9, <1>10, <1>11, <1>12, <1>13, <1>14 DEF IInv

\* A crash ends every request; the rows stay as they are.
LEMMA CrashInv ==
  ASSUME IInv, Undisturbed', Crash
  PROVE  IInv'
  <1> USE DEF Crash, Goto, MayFail, redisVars, dbVars, scanVars, ownVars
  <1>a. \A o \in Op : pc'[o] \in {"idle", "done"} /\ ~Active(o)'
    BY DEF IInv, TypeOK, Active
  <1>b. \A r \in rows : Serving(r)' => Serving(r)
    BY <1>a DEF IInv, TypeOK, Serving, Engaged, Note, Undisturbed, Clash
  <1>1. TypeOK'
    <2>1. req' \in [Op -> Request]
      BY NoRequestType
    <2>2. start' \in [Op -> Asked] /\ n' \in [Op -> 0..BlockSize]
          /\ crashes' \in 0..MaxCrashes
      BY DEF IInv, TypeOK, Asked
    <2>3. pc' \in [Op -> Location]
      BY DEF IInv, TypeOK, Location
    <2> QED
      BY <2>1, <2>2, <2>3 DEF IInv, TypeOK, Note, Upset, Clash, Leak
  <1>2. MutexInv'
    BY <1>a DEF IInv, TypeOK, MutexInv, Critical
  <1>3. DownInv'
    BY <1>a DEF DownInv
  <1>4. BlockInv'
    BY <1>a DEF BlockInv, BlockAt
  <1>5. HoldingInv'
    BY <1>a DEF IInv, TypeOK, HoldingInv, HoldingAt, Active, Removing
  <1>6. StoredInv'
    BY <1>a DEF IInv, TypeOK, StoredInv, StoredAt, Active
  <1>7. FreshInv'
    BY <1>a DEF FreshInv
  <1>8. KindInv'
    BY <1>a DEF IInv, TypeOK, KindInv, KindAt, Active, Searching
  <1>9. RowInv'
    BY DEF IInv, TypeOK, RowInv, Row, Active
  <1>10. RemovalInv'
    BY <1>a DEF IInv, RemovalInv, RemovalAt
  <1>11. ExclusiveInv'
    BY DEF ExclusiveInv
  <1>12. KeptInv'
    BY DEF KeptInv
  <1>13. OnceInv'
    BY <1>b DEF IInv, OnceInv
  <1>14. ServedMarked'
    BY <1>b DEF IInv, ServedMarked
  <1> QED
    BY <1>1, <1>2, <1>3, <1>4, <1>5, <1>6, <1>7, <1>8,
       <1>9, <1>10, <1>11, <1>12, <1>13, <1>14 DEF IInv

\* The invariant holds initially.
LEMMA InitInv == Init => IInv
  <1> SUFFICES ASSUME Init PROVE IInv
    OBVIOUS
  <1> USE DEF Init
  <1>1. TypeOK
    <2>1. req \in [Op -> Request]
      BY NoRequestType
    <2>2. start \in [Op -> Asked] /\ n \in [Op -> 0..BlockSize]
          /\ crashes \in 0..MaxCrashes
      BY DEF Asked
    <2>3. table \in [Inst -> {"none", "active", "deleted"}]
      OBVIOUS
    <2> QED
      BY <2>1, <2>2, <2>3 DEF TypeOK, Location
  <1>2. MutexInv /\ DownInv /\ BlockInv /\ FreshInv
    BY DEF MutexInv, DownInv, BlockInv, BlockAt, FreshInv, Critical
  <1>3. HoldingInv /\ StoredInv /\ KindInv /\ RemovalInv
    BY DEF HoldingInv, HoldingAt, StoredInv, StoredAt, KindInv, KindAt,
           RemovalInv, RemovalAt, Removing, Searching
  <1>4. RowInv /\ ExclusiveInv /\ KeptInv /\ OnceInv /\ ServedMarked
    BY DEF RowInv, ExclusiveInv, KeptInv, OnceInv, ServedMarked
  <1> QED
    BY <1>1, <1>2, <1>3, <1>4 DEF IInv

\* Every step but a restart preserves it: one case per action.
LEMMA NextInv ==
  ASSUME IInv, Undisturbed', [Next]_vars, ~Restart
  PROVE  IInv'
  <1>1. ASSUME NEW o \in Op, Step(o)
        PROVE  IInv'
    BY <1>1, LockMutexInv, AcquireLockInv, ListUsedHostPortsInv, ScanInv,
       MarkPortAllocatedInv, RollbackInv, UnlockOkInv, UnlockErrInv, AttachInv,
       AddPortInv, CleanupInv, ReleaseBlockInv, UnmarkRowInv, DeletePortInv,
       SoftDeleteInstanceInv DEF Step
  <1>2. ASSUME NEW o \in Op, Begin(o)
        PROVE  IInv'
    <2>1. ASSUME NEW i \in Inst, Provision(o, i)
          PROVE  IInv'
      <3>1. RangeStart \in Port /\ "tcp" \in Proto /\ "scan" \in Plan
        BY DEF Port, Proto, Plan
      <3>2. /\ Ask(o, "provision", i, "tcp", "scan", RangeStart)
            /\ table[i] = "none" /\ table' = [table EXCEPT ![i] = "active"]
        BY <2>1 DEF Provision
      <3> QED
        BY <3>1, <3>2, AskInv
    <2>2. ASSUME NEW i \in Inst, Start(o, i)
          PROVE  IInv'
      <3>1. RangeStart \in Port /\ "tcp" \in Proto /\ "scan" \in Plan
        BY DEF Port, Proto, Plan
      <3>2. /\ Ask(o, "start", i, "tcp", "scan", RangeStart)
            /\ table[i] = "active" /\ table' = table
        BY <2>2 DEF Start
      <3> QED
        BY <3>1, <3>2, AskInv
    <2>3. ASSUME NEW i \in Inst, NEW proto \in Proto, NEW p \in Asked,
                 AddFixed(o, i, proto, p)
          PROVE  IInv'
      BY <2>3, AskInv DEF AddFixed, Plan
    <2>4. ASSUME NEW i \in Inst, NEW proto \in Proto, NEW p \in Asked,
                 AddAny(o, i, proto, p)
          PROVE  IInv'
      BY <2>4, AskInv DEF AddAny, Plan, Port
    <2> QED
      BY <1>2, <2>1, <2>2, <2>3, <2>4, DeleteInstanceInv, RemovePortMappingInv
         DEF Begin
  <1>3. CASE UNCHANGED vars
    <2> USE <1>3 DEF vars, redisVars, dbVars, scanVars, ownVars
    <2>1. TypeOK' /\ MutexInv' /\ DownInv' /\ BlockInv' /\ FreshInv'
      BY DEF IInv, TypeOK, MutexInv, DownInv, BlockInv, BlockAt, FreshInv, Active, Size
    <2>2. HoldingInv' /\ StoredInv' /\ KindInv' /\ RemovalInv' /\ RowInv'
      BY DEF IInv, HoldingInv, HoldingAt, StoredInv, StoredAt, KindInv, KindAt,
             RemovalInv, RemovalAt, RowInv, Block, Size
    <2>3. ExclusiveInv' /\ KeptInv' /\ OnceInv' /\ ServedMarked'
      BY DEF IInv, ExclusiveInv, KeptInv, OnceInv, ServedMarked,
             Serving, Engaged, Active
    <2> QED
      BY <2>1, <2>2, <2>3 DEF IInv
  <1> QED
    BY <1>1, <1>2, <1>3, LockExpiresInv, CrashInv DEF Next

------------------------------------------------------------------------------
(***************************************************************************)
(* The allocator implements the pool of PortPool.                          *)
(***************************************************************************)
\* The ports that carry a mapping, as PortPool sees them.
ServedPorts == {r.port : r \in {x \in rows : Serving(x)}}

\* A step in which one request at most lets go of ports, and no row begins to
\* serve, is GiveBack of the pool.
LEMMA GiveBackStep ==
  ASSUME TypeOK, NEW o \in Op,
         NEW kept \in SUBSET held[o], held' = [held EXCEPT ![o] = kept],
         \A r \in rows' : Serving(r)' => r \in rows /\ Serving(r)
  PROVE  Pool!Change
  <1> DEFINE ps == held[o] \ kept
             qs == ServedPorts \ ServedPorts'
  <1>1. ps \in SUBSET held[o] /\ qs \in SUBSET ServedPorts
    OBVIOUS
  <1>2. held' = [held EXCEPT ![o] = @ \ ps]
    BY DEF TypeOK
  <1>3. ServedPorts' = ServedPorts \ qs
    BY DEF ServedPorts
  <1>4. Pool!GiveBack(o)
    BY <1>1, <1>2, <1>3 DEF Pool!GiveBack, ServedPorts
  <1> QED
    BY <1>4 DEF Pool!Change

\* As GiveBackStep, when no port is let go of.
LEMMA SameHeldStep ==
  ASSUME TypeOK, NEW o \in Op, held' = held,
         \A r \in rows' : Serving(r)' => r \in rows /\ Serving(r)
  PROVE  Pool!Change
  <1>1. held' = [held EXCEPT ![o] = held[o]]
    BY DEF TypeOK
  <1> QED
    BY <1>1, GiveBackStep

\* Marking a port is Reserve of the pool; a failed mark changes nothing there.
LEMMA MarkPortAllocatedRefines ==
  ASSUME IInv, NEW o \in Op, MarkPortAllocated(o)
  PROVE  Pool!Change
  <1> USE DEF MarkPortAllocated, Goto, dbVars
  <1> DEFINE p == start[o] + n[o]
  <1>1. rows' = rows /\ \A r \in rows : Serving(r)' <=> Serving(r)
    BY DEF IInv, TypeOK, Serving, Engaged, Active
  <1>2. CASE held' = held
    BY <1>1, <1>2, SameHeldStep DEF IInv
  <1>3. CASE held' # held
    <2>1. p \in Port /\ p \notin marked
      <3>1. start[o] \in Int /\ n[o] \in Int /\ 0 <= n[o] /\ Size(o) \in Int
            /\ n[o] < Size(o)
        BY DEF IInv, TypeOK, BlockInv, BlockAt, Size, Asked
      <3>2. start[o] \in Port /\ start[o] + Size(o) - 1 \in Port
        BY DEF IInv, BlockInv, BlockAt
      <3>3. p \in (start[o] + n[o])..(start[o] + Size(o) - 1)
        BY <3>1
      <3>4. p \in Port
        BY <3>1, <3>2 DEF Port
      <3> QED
        BY <3>3, <3>4 DEF IInv, FreshInv
    <2>2. held' = [held EXCEPT ![o] = @ \cup {p}]
      BY <1>3
    <2>3. ServedPorts' = ServedPorts
      BY <1>1 DEF ServedPorts
    <2>4. p \notin ServedPorts
      BY <2>1 DEF IInv, ServedMarked, ServedPorts
    <2>5. \A x \in Op : p \notin held[x]
      BY <2>1 DEF IInv, KeptInv
    <2>6. Pool!Reserve(o, p)
      BY <2>2, <2>3, <2>4, <2>5 DEF Pool!Reserve, Pool!Free, ServedPorts
    <2> QED
      BY <2>1, <2>6 DEF Pool!Change
  <1> QED
    BY <1>2, <1>3

\* Storing a row is Commit of the pool; the end of the request and a refused
\* INSERT give nothing away.
LEMMA AddPortRefines ==
  ASSUME IInv, NEW o \in Op, AddPort(o)
  PROVE  Pool!Change
  <1> USE DEF AddPort, Conclude, Goto
  <1> DEFINE row(p) == [port |-> p, proto |-> req[o].proto,
                        inst |-> req[o].inst, by |-> o]
  <1>1. CASE rows' = rows
    <2>1. /\ held' = held \/ held' = [held EXCEPT ![o] = {}]
          /\ Active(o)' => req'[o].inst = req[o].inst
          /\ \A i \in Inst : table'[i] = "active" =>
                               table[i] = "active" \/ i = req[o].inst
      <3>1. CASE Conclude(o, TRUE)
        BY <3>1 DEF IInv, TypeOK, Active
      <3>2. CASE \E p \in held[o] :
                   \/ held' = held /\ UNCHANGED <<table, req>>
                   \/ row(p) \notin rows /\ rows' = rows \cup {row(p)}
        BY <1>1, <3>2 DEF IInv, TypeOK
      <3> QED
        BY <3>1, <3>2
    <2>2. \A r \in rows : Serving(r)' => Serving(r)
      BY <2>1, ServingShrinks DEF IInv, TypeOK, Active
    <2> QED
      BY <1>1, <2>1, <2>2, GiveBackStep, SameHeldStep DEF IInv
  <1>2. CASE rows' # rows
    <2>1. PICK p \in held[o] :
            /\ \A r \in rows : r.port # p \/ r.proto # req[o].proto
            /\ rows' = rows \cup {row(p)}
            /\ held' = [held EXCEPT ![o] = @ \ {p}]
            /\ UNCHANGED <<pc, req, table, draining>>
      BY <1>2
    <2>2. \A r \in rows' : Serving(r)' <=> Serving(r)
      BY <2>1 DEF Serving, Engaged, Active
    <2>3. row(p) \notin rows
      BY <2>1
    <2>4. Serving(row(p))
      BY <2>3 DEF IInv, TypeOK, RemovalInv, RemovalAt, Serving, Engaged, Active
    <2>5. ServedPorts' = ServedPorts \cup {p}
      BY <2>1, <2>2, <2>4 DEF ServedPorts
    <2>6. Pool!Commit(o, p)
      BY <2>1, <2>5 DEF Pool!Commit, ServedPorts
    <2> QED
      BY <2>1, <2>6 DEF Pool!Change, IInv, TypeOK
  <1> QED
    BY <1>1, <1>2

\* The other steps of a request are GiveBack of the pool.
LEMMA StepRefines ==
  ASSUME IInv, Undisturbed', NEW o \in Op, Step(o)
  PROVE  Pool!Change
  <1> USE DEF Goto, redisVars, dbVars, scanVars, ownVars
  <1> DEFINE Calm == /\ rows' \subseteq rows
                     /\ Active(o)
                     /\ Active(o)' => req'[o].inst = req[o].inst
                     /\ \A x \in Op : x # o => /\ pc'[x] = pc[x]
                                              /\ req'[x] = req[x]
                                              /\ draining'[x] = draining[x]
                     /\ \A i \in Inst : table'[i] = "active" =>
                          table[i] = "active" \/ i = req[o].inst
             Kept == /\ rows' = rows
                     /\ draining[o] \subseteq draining'[o]
             Less == \E kept \in SUBSET held[o] :
                        held' = [held EXCEPT ![o] = kept]
  <1>a. ASSUME Calm, Kept, held' = held \/ Less
        PROVE  Pool!Change
    <2>1. \A r \in rows' : Serving(r)' => r \in rows /\ Serving(r)
      BY <1>a, ServingShrinks DEF IInv, TypeOK
    <2> QED
      BY <1>a, <2>1, GiveBackStep, SameHeldStep DEF IInv
  <1> HIDE DEF Calm, Kept, Less
  <1>1. CASE LockMutex(o) \/ ListUsedHostPorts(o) \/ Attach(o) \/ UnlockOk(o) \/ Cleanup(o)
    BY <1>1, <1>a DEF LockMutex, ListUsedHostPorts, Attach, UnlockOk, Cleanup,
                      Calm, Kept, IInv, TypeOK, Active
  <1>2. CASE AcquireLock(o) \/ UnlockErr(o)
    BY <1>2, <1>a DEF AcquireLock, UnlockErr, GiveUp, Calm, Kept, IInv, TypeOK, Active, Request
  <1>3. CASE Scan(o)
    BY <1>3, <1>a DEF Scan, Calm, Kept, IInv, TypeOK, Active
  <1>4. CASE MarkPortAllocated(o)
    BY <1>4, MarkPortAllocatedRefines
  <1>5. CASE Rollback(o)
    BY <1>5, <1>a DEF Rollback, ReleasePort, Calm, Kept, Less, IInv, TypeOK, Active
  <1>6. CASE AddPort(o)
    BY <1>6, AddPortRefines
  <1>7. CASE ReleaseBlock(o)
    BY <1>7, <1>a DEF ReleaseBlock, ReleasePort, Conclude, Calm, Kept, Less, IInv, TypeOK, Active
  <1>8. CASE UnmarkRow(o)
    BY <1>8, <1>a DEF UnmarkRow, Calm, Kept, IInv, TypeOK, Active, KindInv, KindAt
  <1>9. CASE DeletePort(o)
    <2>1. rows' = rows \ draining[o]
      BY <1>9 DEF DeletePort, Note, Undisturbed, Clash
    <2>2. \A r \in rows' : Serving(r)' => r \in rows /\ Serving(r)
      BY <1>9, <2>1 DEF DeletePort, IInv, TypeOK, Serving, Engaged, Active, Row
    <2> QED
      BY <1>9, <2>2, SameHeldStep DEF DeletePort, IInv
  <1>10. CASE SoftDeleteInstance(o)
    BY <1>10, <1>a DEF SoftDeleteInstance, Calm, Kept, IInv, TypeOK, Active
  <1> QED
    BY <1>1, <1>2, <1>3, <1>4, <1>5, <1>6, <1>7, <1>8, <1>9, <1>10 DEF Step

\* Accepting a request neither hands out a port nor makes a row serve.
LEMMA BeginRefines ==
  ASSUME IInv, NEW o \in Op, Begin(o)
  PROVE  Pool!Change
  <1> USE DEF Goto, redisVars, dbVars, scanVars, ownVars
  <1>a. ASSUME NEW kind, NEW i \in Inst, NEW proto, NEW plan, NEW p,
               Ask(o, kind, i, proto, plan, p),
               \/ table[i] = "none" /\ table' = [table EXCEPT ![i] = "active"]
               \/ table[i] = "active" /\ table' = table
        PROVE  Pool!Change
    <2>1. \A r \in rows : Serving(r)' => Serving(r)
      BY <1>a DEF Ask, IInv, TypeOK, RowInv, Row, Serving, Engaged, Active
    <2> QED
      BY <1>a, <2>1, SameHeldStep DEF Ask, IInv
  <1>1. CASE \E i \in Inst : Provision(o, i) \/ Start(o, i)
    BY <1>1, <1>a DEF Provision, Start
  <1>2. CASE \E i \in Inst, proto \in Proto, p \in Asked :
               AddFixed(o, i, proto, p) \/ AddAny(o, i, proto, p)
    BY <1>2, <1>a DEF AddFixed, AddAny
  <1>3. CASE \E i \in Inst : DeleteInstance(o, i)
    <2>1. \A r \in rows : Serving(r)' => Serving(r)
      BY <1>3 DEF DeleteInstance, IInv, TypeOK, Row, Serving, Engaged, Active, Request
    <2> QED
      BY <1>3, <2>1, SameHeldStep DEF DeleteInstance, IInv
  <1>4. CASE \E r \in rows : RemovePortMapping(o, r)
    <2>1. \A r \in rows : Serving(r)' => Serving(r)
      BY <1>4 DEF RemovePortMapping, IInv, TypeOK, Row, Serving, Engaged, Active, Request
    <2> QED
      BY <1>4, <2>1, SameHeldStep DEF RemovePortMapping, IInv
  <1> QED
    BY <1>1, <1>2, <1>3, <1>4 DEF Begin

\* A crash is Reset of the pool.
LEMMA CrashRefines ==
  ASSUME IInv, Undisturbed', Crash
  PROVE  Pool!Change
  <1>1. \A r \in rows : Serving(r)' => Serving(r)
    BY DEF Crash, dbVars, Note, Undisturbed, Clash, IInv, TypeOK, Serving, Engaged, Active
  <1>2. ServedPorts' \subseteq ServedPorts
    BY <1>1 DEF Crash, dbVars, ServedPorts
  <1>3. ServedPorts' = ServedPorts \ (ServedPorts \ ServedPorts')
    BY <1>2
  <1>4. Pool!Reset
    BY <1>3 DEF Crash, Pool!Reset, ServedPorts
  <1> QED
    BY <1>4 DEF Pool!Change

\* A step of a request only adds to the record.
LEMMA StepNotes ==
  ASSUME NEW o \in Op, Step(o)
  PROVE  upset \subseteq upset'
  BY DEF Step, LockMutex, AcquireLock, ListUsedHostPorts, Scan, MarkPortAllocated, Rollback,
         UnlockOk, UnlockErr, Attach, AddPort, Cleanup, ReleaseBlock, ReleasePort, Unmark,
         UnmarkRow, DeletePort, SoftDeleteInstance, Note

\* Accepting a request records at most that a removal races.
LEMMA BeginNotes ==
  ASSUME NEW o \in Op, Begin(o)
  PROVE  upset' = upset \/ upset' = upset \cup {"raced"}
  <1>1. CASE \E i \in Inst : Provision(o, i) \/ Start(o, i)
    BY <1>1 DEF Provision, Start, Ask
  <1>2. CASE \E i \in Inst, proto \in Proto, p \in Asked :
               AddFixed(o, i, proto, p) \/ AddAny(o, i, proto, p)
    BY <1>2 DEF AddFixed, AddAny, Ask
  <1>3. CASE \E i \in Inst : DeleteInstance(o, i)
    BY <1>3 DEF DeleteInstance, Note
  <1>4. CASE \E r \in rows : RemovePortMapping(o, r)
    BY <1>4 DEF RemovePortMapping, Note
  <1> QED
    BY <1>1, <1>2, <1>3, <1>4 DEF Begin

\* What has happened stays recorded until the server restarts.
LEMMA UpsetGrows ==
  ASSUME [Next]_vars, ~Restart
  PROVE  upset \subseteq upset'
  <1>1. CASE \E o \in Op : Begin(o)
    BY <1>1, BeginNotes
  <1>2. CASE \E o \in Op : Step(o)
    BY <1>2, StepNotes
  <1>3. CASE LockExpires \/ Crash \/ UNCHANGED vars
    BY <1>3 DEF LockExpires, Crash, Note, vars
  <1> QED
    BY <1>1, <1>2, <1>3 DEF Next

\* Every step but a restart is a step of the pool, or none, as long as nothing of
\* Clash happens.
LEMMA NextRefines ==
  ASSUME IInv, Undisturbed', [Next]_vars, ~Restart
  PROVE  Pool!Change \/ (held' = held /\ ServedPorts' = ServedPorts)
  <1> USE DEF redisVars, dbVars, scanVars, ownVars
  <1>1. CASE LockExpires \/ UNCHANGED vars
    <2>1. rows' = rows /\ held' = held /\ draining' = draining
          /\ \A i \in Inst : Engaged(i)' <=> Engaged(i)
      BY <1>1 DEF LockExpires, vars, Engaged, Active
    <2>2. \A r \in rows : Serving(r)' <=> Serving(r)
      BY <2>1 DEF Serving, IInv, TypeOK, Row
    <2>3. ServedPorts' = ServedPorts
      BY <2>1, <2>2 DEF ServedPorts
    <2> QED
      BY <2>1, <2>3
  <1> QED
    BY <1>1, StepRefines, BeginRefines, CrashRefines DEF Next

\* The initial states are initial states of the pool.
LEMMA InitRefines == Init => Pool!Init
  <1> SUFFICES ASSUME Init PROVE Pool!Init
    OBVIOUS
  <1>1. Undisturbed
    BY DEF Init, Undisturbed
  <1>2. (~Undisturbed) = FALSE
    BY <1>1
  <1> QED
    BY <1>2 DEF Init, Pool!Init

------------------------------------------------------------------------------
(***************************************************************************)
(* What holds for all clients and all failures, and no mark is leaked.     *)
(***************************************************************************)

\* The block an operation has reserved lies in the range, and what it still
\* holds is part of it.
SpanAt(o) ==
  pc[o] \in {"unlockOk", "attach", "commit", "cleanup"} =>
    Block(o) \subseteq Port /\ held[o] \subseteq Block(o)

\* What an operation holds before and after it has a block.
OwnAt(o) ==
  /\ pc[o] \in {"idle", "lock", "acquire", "list", "scan", "unlockErr", "done"}
               \cup Removing => held[o] = {}
  /\ pc[o] = "mark" => held[o] = start[o]..(start[o] + n[o] - 1)
  /\ pc[o] = "rollback" => rel[o] = held[o]
  /\ pc[o] \notin {"rollback", "release"} => rel[o] = {}

\* An operation does what its client asked for.
AskedAt(o) ==
  /\ pc[o] \in Searching => req[o].kind \in Kinds \cap {"provision", "start", "add"}
  /\ pc[o] \in Removing => Kinds \cap {"remove", "delete"} # {}
  /\ draining[o] # {} => pc[o] = "delRow"
  /\ todo[o] # {} => pc[o] \in {"unmarkRow", "delRow"}

OpInv == \A o \in Op : SpanAt(o) /\ OwnAt(o) /\ AskedAt(o)

\* A port that has become a row is no longer held by the request that stored it.
Stored == {"commit", "cleanup", "release", "done"}

StoredBy(r) ==
  /\ pc[r.by] \in Stored
  /\ r.port \notin held[r.by]

OriginInv ==
  /\ \A r \in rows : StoredBy(r)
  /\ \A o \in Op : \A r \in todo[o] \cup draining[o] : StoredBy(r)

BaseInv == TypeOK /\ DownInv /\ BlockInv /\ OpInv /\ OriginInv

\* The marked ports an operation is still responsible for.
Answerable(o) == IF pc[o] = "release" THEN rel[o] ELSE held[o]

\* Every mark is some request's, or that of a row nobody is removing.
Covered(p) ==
  \/ \E o \in Op : p \in Answerable(o)
  \/ \E r \in rows : r.port = p /\ \A o \in Op : r \notin draining[o]

CoverInv == up /\ Accounted => \A p \in marked : Covered(p)

\* A step of o that stores no row and takes no port after it has stored one.
LEMMA OriginKept ==
  ASSUME TypeOK, OriginInv, NEW o \in Op,
         \A x \in Op : x # o => pc'[x] = pc[x] /\ held'[x] = held[x],
         pc[o] \in Stored => pc'[o] \in Stored /\ held'[o] \subseteq held[o],
         rows' \subseteq rows,
         \A x \in Op : todo'[x] \cup draining'[x] \subseteq
                          rows \cup todo[x] \cup draining[x]
  PROVE  OriginInv'
  <1>1. \A r \in Row : StoredBy(r) => StoredBy(r)'
    BY DEF StoredBy, Row
  <1>2. \A r \in rows' : StoredBy(r)'
    BY <1>1 DEF OriginInv, TypeOK
  <1>3. \A x \in Op : \A r \in todo'[x] \cup draining'[x] : r \in Row /\ StoredBy(r)
    BY DEF OriginInv, TypeOK
  <1> QED
    BY <1>1, <1>2, <1>3 DEF OriginInv

\* o takes the mutex.
LEMMA LockMutexBase ==
  ASSUME BaseInv, NEW o \in Op, LockMutex(o)
  PROVE  BaseInv'
  <1> USE DEF LockMutex, Goto, MayFail, redisVars, dbVars, scanVars, ownVars
  <1>1. TypeOK'
    BY DEF BaseInv, TypeOK, Location, Asked
  <1>2. DownInv'
    BY DEF BaseInv, DownInv, TypeOK, Active
  <1>3. BlockInv'
    BY DEF BaseInv, BlockInv, BlockAt, TypeOK, Port, Size, LastStart
  <1>4. OpInv'
    <2> SUFFICES ASSUME NEW x \in Op PROVE (SpanAt(x) /\ OwnAt(x) /\ AskedAt(x))'
      BY DEF OpInv
    <2>1. CASE x # o
      BY <2>1 DEF BaseInv, TypeOK, OpInv, SpanAt, OwnAt, AskedAt, Block, Size, Searching, Removing
    <2>2. CASE x = o
      BY <2>2 DEF BaseInv, TypeOK, OpInv, SpanAt, OwnAt, AskedAt, Block, Size, Searching, Removing
    <2> QED
      BY <2>1, <2>2
  <1>5. OriginInv'
    BY OriginKept DEF BaseInv, TypeOK, OpInv, OwnAt, Stored
  <1> QED
    BY <1>1, <1>2, <1>3, <1>4, <1>5 DEF BaseInv

\* o takes the Redis lock, or is refused.
LEMMA AcquireLockBase ==
  ASSUME BaseInv, NEW o \in Op, AcquireLock(o)
  PROVE  BaseInv'
  <1> USE DEF AcquireLock, GiveUp, Goto, MayFail, redisVars, dbVars, scanVars, ownVars
  <1>1. TypeOK'
    <2>1. req' \in [Op -> Request]
      BY NoRequestType, PlanRequestType DEF BaseInv, TypeOK
    <2>2. start' \in [Op -> Asked] /\ n' \in [Op -> 0..BlockSize]
      BY DEF BaseInv, TypeOK, Asked
    <2> QED
      BY <2>1, <2>2 DEF BaseInv, TypeOK, Location
  <1>2. DownInv'
    BY DEF BaseInv, DownInv, TypeOK, Active
  <1>3. BlockInv'
    BY DEF BaseInv, BlockInv, BlockAt, TypeOK, Port, Size, LastStart
  <1>4. OpInv'
    <2> SUFFICES ASSUME NEW x \in Op PROVE (SpanAt(x) /\ OwnAt(x) /\ AskedAt(x))'
      BY DEF OpInv
    <2>1. CASE x # o
      BY <2>1 DEF BaseInv, TypeOK, OpInv, SpanAt, OwnAt, AskedAt, Block, Size, Searching, Removing
    <2>2. CASE x = o
      <3>1. \/ pc'[o] = "done"
            \/ pc'[o] \in {"lock", "list"} /\ req'[o].kind = req[o].kind
        BY DEF BaseInv, TypeOK, Request
      <3>2. held' = held /\ rel' = rel /\ draining' = draining
        OBVIOUS
      <3> QED
        BY <2>2, <3>1, <3>2 DEF BaseInv, TypeOK, OpInv, SpanAt, OwnAt, AskedAt, Searching, Removing
    <2> QED
      BY <2>1, <2>2
  <1>5. OriginInv'
    BY OriginKept DEF BaseInv, TypeOK, OpInv, OwnAt, Stored
  <1> QED
    BY <1>1, <1>2, <1>3, <1>4, <1>5 DEF BaseInv

\* o reads the ports in use.
LEMMA ListUsedHostPortsBase ==
  ASSUME BaseInv, NEW o \in Op, ListUsedHostPorts(o)
  PROVE  BaseInv'
  <1> USE DEF ListUsedHostPorts, LastStart, Goto, MayFail, redisVars, dbVars, scanVars, ownVars
  <1>1. TypeOK'
    <2>1. UsedHostPorts \subseteq Port
      BY DEF BaseInv, TypeOK, UsedHostPorts, Row
    <2> QED
      BY <2>1 DEF BaseInv, TypeOK, Location
  <1>2. DownInv'
    BY DEF BaseInv, DownInv, TypeOK, Active
  <1>3. BlockInv'
    BY DEF BaseInv, BlockInv, BlockAt, TypeOK, Port, Size, LastStart
  <1>4. OpInv'
    <2> SUFFICES ASSUME NEW x \in Op PROVE (SpanAt(x) /\ OwnAt(x) /\ AskedAt(x))'
      BY DEF OpInv
    <2>1. CASE x # o
      BY <2>1 DEF BaseInv, TypeOK, OpInv, SpanAt, OwnAt, AskedAt, Block, Size, Searching, Removing
    <2>2. CASE x = o
      BY <2>2 DEF BaseInv, TypeOK, OpInv, SpanAt, OwnAt, AskedAt, Block, Size, Searching, Removing
    <2> QED
      BY <2>1, <2>2
  <1>5. OriginInv'
    BY OriginKept DEF BaseInv, TypeOK, OpInv, OwnAt, Stored
  <1> QED
    BY <1>1, <1>2, <1>3, <1>4, <1>5 DEF BaseInv

\* o looks at one port.
LEMMA ScanBase ==
  ASSUME BaseInv, NEW o \in Op, Scan(o)
  PROVE  BaseInv'
  <1> USE DEF Scan, IsFree, LastStart, Goto, MayFail, redisVars, dbVars, scanVars, ownVars
  <1>1. TypeOK'
    BY DEF BaseInv, TypeOK, Location, BlockInv, BlockAt, Port, Asked, Size
  <1>2. DownInv'
    BY DEF BaseInv, DownInv, TypeOK, Active
  <1>3. BlockInv'
    BY DEF BaseInv, BlockInv, BlockAt, TypeOK, Port, Size, LastStart
  <1>4. OpInv'
    <2> SUFFICES ASSUME NEW x \in Op PROVE (SpanAt(x) /\ OwnAt(x) /\ AskedAt(x))'
      BY DEF OpInv
    <2>1. CASE x # o
      BY <2>1 DEF BaseInv, TypeOK, OpInv, SpanAt, OwnAt, AskedAt, Block, Size, Searching, Removing
    <2>2. CASE x = o
      <3>1. held'[o] = {} /\ draining' = draining /\ req' = req
        BY DEF BaseInv, OpInv, OwnAt
      <3>2. pc'[o] = "mark" => start'[o]..(start'[o] + n'[o] - 1) = {}
        BY IntervalEmpty DEF BaseInv, TypeOK, BlockInv, BlockAt, Port
      <3>3. pc'[o] \in {"scan", "mark", "unlockErr"}
        BY DEF BaseInv, TypeOK
      <3> QED
        BY <2>2, <3>1, <3>2, <3>3 DEF BaseInv, OpInv, SpanAt, OwnAt, AskedAt, Searching, Removing
    <2> QED
      BY <2>1, <2>2
  <1>5. OriginInv'
    BY OriginKept DEF BaseInv, TypeOK, OpInv, OwnAt, Stored
  <1> QED
    BY <1>1, <1>2, <1>3, <1>4, <1>5 DEF BaseInv

\* o marks one port, or fails to.
LEMMA MarkPortAllocatedBase ==
  ASSUME BaseInv, NEW o \in Op, MarkPortAllocated(o)
  PROVE  BaseInv'
  <1> USE DEF MarkPortAllocated, Goto, MayFail, redisVars, dbVars, scanVars, ownVars
  <1>a. /\ start[o] \in Port /\ start[o] \in Int
        /\ start[o] + Size(o) - 1 \in Port
        /\ n[o] < Size(o) /\ n[o] \in Nat /\ Size(o) \in 1..BlockSize
    BY DEF BaseInv, TypeOK, BlockInv, BlockAt, Size, Port
  <1>b. start[o] + n[o] \in Port
    BY <1>a DEF Port
  <1>1. TypeOK'
    <2>1. n' \in [Op -> 0..BlockSize]
      BY <1>a DEF BaseInv, TypeOK
    <2>u. upset' \subseteq Upset
      BY DEF BaseInv, TypeOK, Note, Upset, Clash, Leak
    <2> QED
      BY <2>u, <2>1, <1>b DEF BaseInv, TypeOK, Location
  <1>2. DownInv'
    BY DEF BaseInv, DownInv, TypeOK, Active
  <1>3. BlockInv'
    BY <1>a DEF BaseInv, BlockInv, BlockAt, TypeOK, Size
  <1>4. OpInv'
    <2> SUFFICES ASSUME NEW x \in Op PROVE (SpanAt(x) /\ OwnAt(x) /\ AskedAt(x))'
      BY DEF OpInv
    <2>1. CASE x # o
      BY <2>1 DEF BaseInv, TypeOK, OpInv, SpanAt, OwnAt, AskedAt, Block, Size, Searching, Removing
    <2>2. CASE x = o
      <3>1. (start[o]..(start[o] + n[o] - 1)) \cup {start[o] + n[o]} = start[o]..(start[o] + n[o])
        BY <1>a, IntervalGrows
      <3>0. start[o] + n[o] \notin held[o]
        BY <1>a DEF BaseInv, OpInv, OwnAt
      <3>2. CASE held' = held
        <4>1. pc'[o] = "rollback" /\ rel'[o] = held[o] /\ UNCHANGED <<req, draining>>
          BY <3>0, <3>2 DEF BaseInv, TypeOK
        <4> QED
          BY <2>2, <3>2, <4>1 DEF BaseInv, OpInv, SpanAt, OwnAt, AskedAt, Searching, Removing
      <3>3. CASE held' # held
        <4>1. held'[o] = start[o]..(start[o] + n[o]) /\ n'[o] = n[o] + 1
              /\ draining' = draining /\ req' = req /\ start' = start
              /\ pc'[o] = IF n[o] + 1 = Size(o) THEN "unlockOk" ELSE "mark"
          BY <3>1, <3>3 DEF BaseInv, TypeOK, OpInv, OwnAt
        <4>2. start[o]..(start[o] + n[o]) = start[o]..(start'[o] + n'[o] - 1)
          BY <1>a, <4>1
        <4>3. pc'[o] = "unlockOk" =>
                Block(o)' \subseteq Port /\ held'[o] = Block(o)'
          BY <1>a, <4>1 DEF Block, Size, Port
        <4>4. rel' = rel /\ todo' = todo /\ pc[o] = "mark"
          BY <3>3
        <4>5. SpanAt(o)' /\ AskedAt(o)'
          BY <4>1, <4>2, <4>3, <4>4 DEF BaseInv, OpInv, SpanAt, AskedAt, Searching, Removing
        <4>6. OwnAt(o)'
          BY <4>1, <4>2, <4>4 DEF BaseInv, OpInv, OwnAt, Removing
        <4> QED
          BY <2>2, <4>5, <4>6
      <3> QED
        BY <3>2, <3>3
    <2> QED
      BY <2>1, <2>2
  <1>5. OriginInv'
    BY OriginKept DEF BaseInv, TypeOK, OpInv, OwnAt, Stored
  <1> QED
    BY <1>1, <1>2, <1>3, <1>4, <1>5 DEF BaseInv

\* o gives back what it marked.
LEMMA RollbackBase ==
  ASSUME BaseInv, NEW o \in Op, Rollback(o)
  PROVE  BaseInv'
  <1> USE DEF Unmark, Rollback, ReleasePort, Goto, MayFail, redisVars, dbVars, scanVars, ownVars
  <1>1. TypeOK'
    <2>u. upset' \subseteq Upset
      BY DEF BaseInv, TypeOK, Note, Upset, Clash, Leak
    <2>m. marked' \subseteq Port
      BY DEF BaseInv, TypeOK
    <2> QED
      BY <2>u, <2>m DEF BaseInv, TypeOK, Location, Asked
  <1>2. DownInv'
    BY DEF BaseInv, DownInv, TypeOK, Active
  <1>3. BlockInv'
    BY DEF BaseInv, BlockInv, BlockAt, TypeOK, Port, Size, LastStart
  <1>4. OpInv'
    <2> SUFFICES ASSUME NEW x \in Op PROVE (SpanAt(x) /\ OwnAt(x) /\ AskedAt(x))'
      BY DEF OpInv
    <2>1. CASE x # o
      BY <2>1 DEF BaseInv, TypeOK, OpInv, SpanAt, OwnAt, AskedAt, Block, Size, Searching, Removing
    <2>2. CASE x = o
      <3>1. held'[o] = rel'[o] /\ req' = req /\ draining' = draining
        <4>1. rel[o] = held[o]
          BY DEF BaseInv, OpInv, OwnAt
        <4>2. \/ rel'[o] = rel[o] /\ held'[o] = held[o]
              \/ \E p \in rel[o] : rel'[o] = rel[o] \ {p} /\ held'[o] = held[o] \ {p}
          BY DEF BaseInv, TypeOK
        <4>3. req' = req /\ draining' = draining
          OBVIOUS
        <4> QED
          BY ONLY <4>1, <4>2, <4>3
      <3>2. pc'[o] = "rollback" \/ (pc'[o] = "unlockErr" /\ rel'[o] = {})
        BY DEF BaseInv, TypeOK
      <3> QED
        BY <2>2, <3>1, <3>2 DEF BaseInv, OpInv, SpanAt, OwnAt, AskedAt, Searching, Removing
    <2> QED
      BY <2>1, <2>2
  <1>5. OriginInv'
    BY OriginKept DEF BaseInv, TypeOK, OpInv, OwnAt, Stored
  <1> QED
    BY <1>1, <1>2, <1>3, <1>4, <1>5 DEF BaseInv

\* o leaves the critical section with its block.
LEMMA UnlockOkBase ==
  ASSUME BaseInv, NEW o \in Op, UnlockOk(o)
  PROVE  BaseInv'
  <1> USE DEF UnlockOk, ReleaseLock, Goto, MayFail, redisVars, dbVars, scanVars, ownVars
  <1>1. TypeOK'
    BY DEF BaseInv, TypeOK, Location, Asked
  <1>2. DownInv'
    BY DEF BaseInv, DownInv, TypeOK, Active
  <1>3. BlockInv'
    BY DEF BaseInv, BlockInv, BlockAt, TypeOK, Port, Size, LastStart
  <1>4. OpInv'
    <2> SUFFICES ASSUME NEW x \in Op PROVE (SpanAt(x) /\ OwnAt(x) /\ AskedAt(x))'
      BY DEF OpInv
    <2>1. CASE x # o
      BY <2>1 DEF BaseInv, TypeOK, OpInv, SpanAt, OwnAt, AskedAt, Block, Size, Searching, Removing
    <2>2. CASE x = o
      BY <2>2 DEF BaseInv, TypeOK, OpInv, SpanAt, OwnAt, AskedAt, Block, Size, Searching, Removing
    <2> QED
      BY <2>1, <2>2
  <1>5. OriginInv'
    BY OriginKept DEF BaseInv, TypeOK, OpInv, OwnAt, Stored
  <1> QED
    BY <1>1, <1>2, <1>3, <1>4, <1>5 DEF BaseInv

\* o leaves the critical section with an error.
LEMMA UnlockErrBase ==
  ASSUME BaseInv, NEW o \in Op, UnlockErr(o)
  PROVE  BaseInv'
  <1> USE DEF UnlockErr, ReleaseLock, GiveUp, Goto, MayFail, redisVars, dbVars, scanVars, ownVars
  <1>1. TypeOK'
    <2>1. req' \in [Op -> Request]
      BY NoRequestType, PlanRequestType DEF BaseInv, TypeOK
    <2>2. start' \in [Op -> Asked] /\ n' \in [Op -> 0..BlockSize]
      BY DEF BaseInv, TypeOK, Asked
    <2> QED
      BY <2>1, <2>2 DEF BaseInv, TypeOK, Location
  <1>2. DownInv'
    BY DEF BaseInv, DownInv, TypeOK, Active
  <1>3. BlockInv'
    BY DEF BaseInv, BlockInv, BlockAt, TypeOK, Port, Size, LastStart
  <1>4. OpInv'
    <2> SUFFICES ASSUME NEW x \in Op PROVE (SpanAt(x) /\ OwnAt(x) /\ AskedAt(x))'
      BY DEF OpInv
    <2>1. CASE x # o
      BY <2>1 DEF BaseInv, TypeOK, OpInv, SpanAt, OwnAt, AskedAt, Block, Size, Searching, Removing
    <2>2. CASE x = o
      <3>1. \/ pc'[o] = "done"
            \/ pc'[o] \in {"lock", "list"} /\ req'[o].kind = req[o].kind
        BY DEF BaseInv, TypeOK, Request
      <3>2. held' = held /\ rel' = rel /\ draining' = draining
        OBVIOUS
      <3> QED
        BY <2>2, <3>1, <3>2 DEF BaseInv, TypeOK, OpInv, SpanAt, OwnAt, AskedAt, Searching, Removing
    <2> QED
      BY <2>1, <2>2
  <1>5. OriginInv'
    BY OriginKept DEF BaseInv, TypeOK, OpInv, OwnAt, Stored
  <1> QED
    BY <1>1, <1>2, <1>3, <1>4, <1>5 DEF BaseInv

\* The container is created, or not.
LEMMA AttachBase ==
  ASSUME BaseInv, NEW o \in Op, Attach(o)
  PROVE  BaseInv'
  <1> USE DEF Attach, Goto, MayFail, redisVars, dbVars, scanVars, ownVars
  <1>1. TypeOK'
    <2>1. Have(o) \subseteq Port /\ Block(o) \subseteq Port
      BY DEF BaseInv, TypeOK, Have, Row, OpInv, SpanAt
    <2> QED
      BY <2>1 DEF BaseInv, TypeOK, Location, Asked
  <1>2. DownInv'
    BY DEF BaseInv, DownInv, TypeOK, Active
  <1>3. BlockInv'
    BY DEF BaseInv, BlockInv, BlockAt, TypeOK, Port, Size, LastStart
  <1>4. OpInv'
    <2> SUFFICES ASSUME NEW x \in Op PROVE (SpanAt(x) /\ OwnAt(x) /\ AskedAt(x))'
      BY DEF OpInv
    <2>1. CASE x # o
      BY <2>1 DEF BaseInv, TypeOK, OpInv, SpanAt, OwnAt, AskedAt, Block, Size, Searching, Removing
    <2>2. CASE x = o
      <3>1. /\ pc'[o] \in {"commit", "cleanup", "release"} /\ pc[o] = "attach"
            /\ pc'[o] # "release" => rel'[o] = rel[o]
            /\ UNCHANGED <<held, todo, draining, req, start>>
        BY DEF BaseInv, TypeOK
      <3> QED
        BY <2>2, <3>1 DEF BaseInv, TypeOK, OpInv, SpanAt, OwnAt, AskedAt, Block, Size, Searching, Removing
    <2> QED
      BY <2>1, <2>2
  <1>5. OriginInv'
    BY OriginKept DEF BaseInv, TypeOK, OpInv, OwnAt, Stored
  <1> QED
    BY <1>1, <1>2, <1>3, <1>4, <1>5 DEF BaseInv

\* o stores the next row, ends, or is refused.
LEMMA AddPortBase ==
  ASSUME BaseInv, NEW o \in Op, AddPort(o)
  PROVE  BaseInv'
  <1> USE DEF AddPort, Conclude, Goto, MayFail, redisVars, dbVars, scanVars, ownVars
  <1> DEFINE row(p) == [port |-> p, proto |-> req[o].proto,
                        inst |-> req[o].inst, by |-> o]
  <1>a. \/ held'[o] \subseteq held[o] /\ rows' = rows
        \/ \E p \in held[o] : /\ rows' = rows \cup {row(p)}
                             /\ held' = [held EXCEPT ![o] = @ \ {p}]
                             /\ UNCHANGED pc
    BY DEF BaseInv, TypeOK
  <1>b. \A p \in held[o] : row(p) \in Row
    BY DEF BaseInv, TypeOK, Row, Request
  <1>c. /\ \A x \in Op : x # o => held'[x] = held[x] /\ pc'[x] = pc[x]
        /\ held'[o] \subseteq held[o] /\ pc'[o] \in {"commit", "cleanup", "done"}
        /\ todo' = todo /\ draining' = draining
    BY DEF BaseInv, TypeOK
  <1>1. TypeOK'
    <2>1. req' \in [Op -> Request]
      BY NoRequestType DEF BaseInv, TypeOK
    <2>2. start' \in [Op -> Asked] /\ n' \in [Op -> 0..BlockSize]
      BY DEF BaseInv, TypeOK, Asked
    <2>3. table' \in [Inst -> {"none", "active", "deleted"}]
      BY DEF BaseInv, TypeOK
    <2>4. rows' \subseteq Row
      BY <1>a, <1>b DEF BaseInv, TypeOK
    <2>5. held' \in [Op -> SUBSET Port] /\ snap' \in [Op -> SUBSET Port]
      BY DEF BaseInv, TypeOK
    <2>6. upset' \subseteq Upset
      BY DEF BaseInv, TypeOK, Note, Upset, Clash, Leak
    <2> QED
      BY <2>1, <2>2, <2>3, <2>4, <2>5, <2>6 DEF BaseInv, TypeOK, Location
  <1>2. DownInv'
    BY DEF BaseInv, DownInv, TypeOK, Active
  <1>3. BlockInv'
    BY DEF BaseInv, BlockInv, BlockAt, TypeOK, Port, Size, LastStart
  <1>4. OpInv'
    <2> SUFFICES ASSUME NEW x \in Op PROVE (SpanAt(x) /\ OwnAt(x) /\ AskedAt(x))'
      BY DEF OpInv
    <2>1. CASE x # o
      BY <2>1 DEF BaseInv, TypeOK, OpInv, SpanAt, OwnAt, AskedAt, Block, Size, Searching, Removing
    <2>2. CASE x = o
      <3>1. \/ pc'[o] = "done" /\ held'[o] = {}
            \/ pc'[o] \in {"commit", "cleanup"} /\ start' = start /\ req' = req
        BY DEF BaseInv, TypeOK
      <3>2. Block(o) \subseteq Port /\ held[o] \subseteq Block(o) /\ draining[o] = {}
        BY DEF BaseInv, OpInv, SpanAt, AskedAt
      <3>5. rel'[o] = {} /\ todo[o] = {}
        BY DEF BaseInv, OpInv, OwnAt, AskedAt
      <3>3. req[o].kind \in Kinds \cap {"provision", "start", "add"}
        BY DEF BaseInv, OpInv, AskedAt, Searching
      <3> HIDE DEF AddPort
      <3>4. SpanAt(o)'
        BY <1>c, <3>1, <3>2 DEF SpanAt, Block, Size
      <3>6. OwnAt(o)' /\ AskedAt(o)'
        BY <1>c, <3>1, <3>2, <3>3, <3>5 DEF OwnAt, AskedAt, Removing, Searching
      <3> QED
        BY <2>2, <3>4, <3>6
    <2> QED
      BY <2>1, <2>2
  <1>5. OriginInv'
    <2>1. \A r \in Row : StoredBy(r) => StoredBy(r)'
      BY <1>c DEF StoredBy, Stored, Row
    <2>2. \A x \in Op : \A r \in todo'[x] \cup draining'[x] : StoredBy(r)'
      BY <1>c, <2>1 DEF BaseInv, TypeOK, OriginInv
    <2>3. \A r \in rows' : StoredBy(r)'
      <3>1. CASE rows' = rows
        BY <2>1, <3>1 DEF BaseInv, TypeOK, OriginInv
      <3>2. CASE rows' # rows
        <4>1. PICK p \in held[o] : /\ rows' = rows \cup {row(p)}
                                  /\ held' = [held EXCEPT ![o] = @ \ {p}]
          BY <1>a, <3>2
        <4>2. StoredBy(row(p))'
          BY <1>c, <4>1 DEF StoredBy, Stored, BaseInv, TypeOK
        <4> QED
          BY <2>1, <4>1, <4>2 DEF BaseInv, TypeOK, OriginInv
      <3> QED
        BY <3>1, <3>2
    <2> QED
      BY <2>2, <2>3 DEF OriginInv
  <1> QED
    BY <1>1, <1>2, <1>3, <1>4, <1>5 DEF BaseInv

\* o decides which ports to give back.
LEMMA CleanupBase ==
  ASSUME BaseInv, NEW o \in Op, Cleanup(o)
  PROVE  BaseInv'
  <1> USE DEF Cleanup, Goto, MayFail, redisVars, dbVars, scanVars, ownVars
  <1>a. Block(o) \subseteq Port
    BY DEF BaseInv, OpInv, SpanAt
  <1>b. \A ports \in Unused(o) : ports \subseteq Port
    BY <1>a DEF Unused, BaseInv, TypeOK
  <1>c. PICK ports \in SUBSET Port : rel' = [rel EXCEPT ![o] = ports]
    BY <1>b
  <1>1. TypeOK'
    <2>1. rel' \in [Op -> SUBSET Port]
      BY <1>c DEF BaseInv, TypeOK
    <2> QED
      BY <2>1 DEF BaseInv, TypeOK, Location, Note, Upset, Clash, Leak
  <1>2. DownInv'
    BY DEF BaseInv, DownInv, TypeOK, Active
  <1>3. BlockInv'
    BY DEF BaseInv, BlockInv, BlockAt, TypeOK, Port, Size, LastStart
  <1>4. OpInv'
    <2> SUFFICES ASSUME NEW x \in Op PROVE (SpanAt(x) /\ OwnAt(x) /\ AskedAt(x))'
      BY DEF OpInv
    <2>1. CASE x # o
      BY <2>1 DEF BaseInv, TypeOK, OpInv, SpanAt, OwnAt, AskedAt, Block, Size, Searching, Removing
    <2>2. CASE x = o
      BY <2>2 DEF BaseInv, TypeOK, OpInv, SpanAt, OwnAt, AskedAt, Block, Size, Searching, Removing
    <2> QED
      BY <2>1, <2>2
  <1>5. OriginInv'
    BY OriginKept DEF BaseInv, TypeOK, OpInv, OwnAt, Stored
  <1> QED
    BY <1>1, <1>2, <1>3, <1>4, <1>5 DEF BaseInv

\* o gives a port back, or ends.
LEMMA ReleaseBlockBase ==
  ASSUME BaseInv, NEW o \in Op, ReleaseBlock(o)
  PROVE  BaseInv'
  <1> USE DEF Unmark, ReleaseBlock, ReleasePort, Conclude, Goto, MayFail,
              redisVars, dbVars, scanVars, ownVars
  <1>1. TypeOK'
    <2>1. req' \in [Op -> Request]
      BY NoRequestType DEF BaseInv, TypeOK
    <2>2. start' \in [Op -> Asked] /\ n' \in [Op -> 0..BlockSize]
      BY DEF BaseInv, TypeOK, Asked
    <2>3. table' \in [Inst -> {"none", "active", "deleted"}]
      BY DEF BaseInv, TypeOK
    <2>u. upset' \subseteq Upset
      BY DEF BaseInv, TypeOK, Note, Upset, Clash, Leak
    <2> QED
      BY <2>u, <2>1, <2>2, <2>3 DEF BaseInv, TypeOK, Location
  <1>2. DownInv'
    BY DEF BaseInv, DownInv, TypeOK, Active
  <1>3. BlockInv'
    BY DEF BaseInv, BlockInv, BlockAt, TypeOK, Port, Size, LastStart
  <1>4. OpInv'
    <2> SUFFICES ASSUME NEW x \in Op PROVE (SpanAt(x) /\ OwnAt(x) /\ AskedAt(x))'
      BY DEF OpInv
    <2>1. CASE x # o
      BY <2>1 DEF BaseInv, TypeOK, OpInv, SpanAt, OwnAt, AskedAt, Block, Size, Searching, Removing
    <2>2. CASE x = o
      BY <2>2 DEF BaseInv, TypeOK, OpInv, SpanAt, OwnAt, AskedAt, Block, Size, Searching, Removing
    <2> QED
      BY <2>1, <2>2
  <1>5. OriginInv'
    <2>1. /\ \A x \in Op : x # o => pc'[x] = pc[x] /\ held'[x] = held[x]
          /\ pc'[o] \in Stored /\ held'[o] \subseteq held[o]
          /\ rows' = rows /\ todo' = todo /\ draining' = draining
      BY DEF BaseInv, TypeOK, Stored
    <2> QED
      BY <2>1, OriginKept DEF BaseInv
  <1> QED
    BY <1>1, <1>2, <1>3, <1>4, <1>5 DEF BaseInv

\* o removes the mark of a mapping.
LEMMA UnmarkRowBase ==
  ASSUME BaseInv, NEW o \in Op, UnmarkRow(o)
  PROVE  BaseInv'
  <1> USE DEF Unmark, UnmarkRow, Goto, MayFail, redisVars, dbVars, scanVars, ownVars
  <1>1. TypeOK'
    <2>1. req' \in [Op -> Request]
      BY NoRequestType DEF BaseInv, TypeOK
    <2>u. upset' \subseteq Upset
      BY DEF BaseInv, TypeOK, Note, Upset, Clash, Leak
    <2> QED
      BY <2>u, <2>1 DEF BaseInv, TypeOK, Location
  <1>2. DownInv'
    BY DEF BaseInv, DownInv, TypeOK, Active
  <1>3. BlockInv'
    BY DEF BaseInv, BlockInv, BlockAt, TypeOK, Port, Size, LastStart
  <1>4. OpInv'
    <2> SUFFICES ASSUME NEW x \in Op PROVE (SpanAt(x) /\ OwnAt(x) /\ AskedAt(x))'
      BY DEF OpInv
    <2>1. CASE x # o
      BY <2>1 DEF BaseInv, TypeOK, OpInv, SpanAt, OwnAt, AskedAt, Block, Size, Searching, Removing
    <2>2. CASE x = o
      BY <2>2 DEF BaseInv, TypeOK, OpInv, SpanAt, OwnAt, AskedAt, Block, Size, Searching, Removing
    <2> QED
      BY <2>1, <2>2
  <1>5. OriginInv'
    <2>1. \A x \in Op : todo'[x] \cup draining'[x] \subseteq todo[x] \cup draining[x]
      BY DEF BaseInv, TypeOK
    <2> QED
      BY <2>1, OriginKept DEF BaseInv, TypeOK, OpInv, OwnAt, Stored
  <1> QED
    BY <1>1, <1>2, <1>3, <1>4, <1>5 DEF BaseInv

\* o deletes the row it has unmarked.
LEMMA DeletePortBase ==
  ASSUME BaseInv, NEW o \in Op, DeletePort(o)
  PROVE  BaseInv'
  <1> USE DEF DeletePort, Goto, MayFail, redisVars, dbVars, scanVars, ownVars
  <1>1. TypeOK'
    BY DEF BaseInv, TypeOK, Location, Asked, Note, Upset, Clash, Leak
  <1>2. DownInv'
    BY DEF BaseInv, DownInv, TypeOK, Active
  <1>3. BlockInv'
    BY DEF BaseInv, BlockInv, BlockAt, TypeOK, Port, Size, LastStart
  <1>4. OpInv'
    <2> SUFFICES ASSUME NEW x \in Op PROVE (SpanAt(x) /\ OwnAt(x) /\ AskedAt(x))'
      BY DEF OpInv
    <2>1. CASE x # o
      BY <2>1 DEF BaseInv, TypeOK, OpInv, SpanAt, OwnAt, AskedAt, Block, Size, Searching, Removing
    <2>2. CASE x = o
      BY <2>2 DEF BaseInv, TypeOK, OpInv, SpanAt, OwnAt, AskedAt, Block, Size, Searching, Removing
    <2> QED
      BY <2>1, <2>2
  <1>5. OriginInv'
    BY OriginKept DEF BaseInv, TypeOK, OpInv, OwnAt, Stored
  <1> QED
    BY <1>1, <1>2, <1>3, <1>4, <1>5 DEF BaseInv

\* The instance is marked deleted.
LEMMA SoftDeleteInstanceBase ==
  ASSUME BaseInv, NEW o \in Op, SoftDeleteInstance(o)
  PROVE  BaseInv'
  <1> USE DEF SoftDeleteInstance, Goto, MayFail, redisVars, dbVars, scanVars, ownVars
  <1>1. TypeOK'
    <2>1. req' \in [Op -> Request]
      BY NoRequestType DEF BaseInv, TypeOK
    <2>2. table' \in [Inst -> {"none", "active", "deleted"}]
      BY DEF BaseInv, TypeOK
    <2> QED
      BY <2>1, <2>2 DEF BaseInv, TypeOK, Location
  <1>2. DownInv'
    BY DEF BaseInv, DownInv, TypeOK, Active
  <1>3. BlockInv'
    BY DEF BaseInv, BlockInv, BlockAt, TypeOK, Port, Size, LastStart
  <1>4. OpInv'
    <2> SUFFICES ASSUME NEW x \in Op PROVE (SpanAt(x) /\ OwnAt(x) /\ AskedAt(x))'
      BY DEF OpInv
    <2>1. CASE x # o
      BY <2>1 DEF BaseInv, TypeOK, OpInv, SpanAt, OwnAt, AskedAt, Block, Size, Searching, Removing
    <2>2. CASE x = o
      BY <2>2 DEF BaseInv, TypeOK, OpInv, SpanAt, OwnAt, AskedAt, Block, Size, Searching, Removing
    <2> QED
      BY <2>1, <2>2
  <1>5. OriginInv'
    BY OriginKept DEF BaseInv, TypeOK, OpInv, OwnAt, Stored
  <1> QED
    BY <1>1, <1>2, <1>3, <1>4, <1>5 DEF BaseInv

\* A request for ports is accepted.
LEMMA AskBase ==
  ASSUME BaseInv, NEW o \in Op,
         NEW kind \in {"provision", "start", "add"}, NEW i \in Inst,
         NEW proto \in Proto, NEW plan \in Plan, NEW p \in Port,
         Ask(o, kind, i, proto, plan, p),
         table' \in {table, [table EXCEPT ![i] = "active"]}
  PROVE  BaseInv'
  <1> USE DEF Ask, Goto, MayFail, redisVars, dbVars, scanVars, ownVars
  <1>1. TypeOK'
    <2>1. [kind |-> kind, inst |-> i, proto |-> proto, plan |-> plan] \in Request
      BY DEF Request, Kind
    <2>2. start' \in [Op -> Asked]
      BY DEF BaseInv, TypeOK, Asked, Port
    <2>3. table' \in [Inst -> {"none", "active", "deleted"}]
      BY DEF BaseInv, TypeOK
    <2> QED
      BY <2>1, <2>2, <2>3 DEF BaseInv, TypeOK, Location
  <1>2. DownInv'
    BY DEF BaseInv, DownInv, TypeOK, Active
  <1>3. BlockInv'
    BY DEF BaseInv, BlockInv, BlockAt, TypeOK, Port, Size, LastStart
  <1>4. OpInv'
    <2> SUFFICES ASSUME NEW x \in Op PROVE (SpanAt(x) /\ OwnAt(x) /\ AskedAt(x))'
      BY DEF OpInv
    <2>1. CASE x # o
      BY <2>1 DEF BaseInv, TypeOK, OpInv, SpanAt, OwnAt, AskedAt, Block, Size, Searching, Removing
    <2>2. CASE x = o
      BY <2>2 DEF BaseInv, TypeOK, OpInv, SpanAt, OwnAt, AskedAt, Block, Size, Searching, Removing
    <2> QED
      BY <2>1, <2>2
  <1>5. OriginInv'
    BY OriginKept DEF BaseInv, TypeOK, OpInv, OwnAt, Stored
  <1> QED
    BY <1>1, <1>2, <1>3, <1>4, <1>5 DEF BaseInv

\* The removal of a mapping begins.
LEMMA RemovePortMappingBase ==
  ASSUME BaseInv, NEW o \in Op, NEW r \in rows, RemovePortMapping(o, r)
  PROVE  BaseInv'
  <1> USE DEF RemovePortMapping, Goto, MayFail, redisVars, dbVars, scanVars, ownVars
  <1>1. TypeOK'
    <2>1. req' \in [Op -> Request]
      BY RemovalRequestType DEF BaseInv, TypeOK, Kind, Row
    <2>2. todo' \in [Op -> SUBSET Row]
      BY DEF BaseInv, TypeOK
    <2> QED
      BY <2>1, <2>2 DEF BaseInv, TypeOK, Location, Note, Upset, Clash, Leak
  <1>2. DownInv'
    BY DEF BaseInv, DownInv, TypeOK, Active
  <1>3. BlockInv'
    BY DEF BaseInv, BlockInv, BlockAt, TypeOK, Port, Size, LastStart
  <1>4. OpInv'
    <2> SUFFICES ASSUME NEW x \in Op PROVE (SpanAt(x) /\ OwnAt(x) /\ AskedAt(x))'
      BY DEF OpInv
    <2>1. CASE x # o
      BY <2>1 DEF BaseInv, TypeOK, OpInv, SpanAt, OwnAt, AskedAt, Block, Size, Searching, Removing
    <2>2. CASE x = o
      BY <2>2 DEF BaseInv, TypeOK, OpInv, SpanAt, OwnAt, AskedAt, Block, Size, Searching, Removing
    <2> QED
      BY <2>1, <2>2
  <1>5. OriginInv'
    BY OriginKept DEF BaseInv, TypeOK, OpInv, OwnAt, Stored
  <1> QED
    BY <1>1, <1>2, <1>3, <1>4, <1>5 DEF BaseInv

\* The removal of the mappings of an instance begins.
LEMMA DeleteInstanceBase ==
  ASSUME BaseInv, NEW o \in Op, NEW i \in Inst, DeleteInstance(o, i)
  PROVE  BaseInv'
  <1> USE DEF DeleteInstance, Goto, MayFail, redisVars, dbVars, scanVars, ownVars
  <1>1. TypeOK'
    <2>1. req' \in [Op -> Request]
      BY RemovalRequestType DEF BaseInv, TypeOK, Kind, Row
    <2>2. todo' \in [Op -> SUBSET Row]
      BY DEF BaseInv, TypeOK
    <2> QED
      BY <2>1, <2>2 DEF BaseInv, TypeOK, Location, Note, Upset, Clash, Leak
  <1>2. DownInv'
    BY DEF BaseInv, DownInv, TypeOK, Active
  <1>3. BlockInv'
    BY DEF BaseInv, BlockInv, BlockAt, TypeOK, Port, Size, LastStart
  <1>4. OpInv'
    <2> SUFFICES ASSUME NEW x \in Op PROVE (SpanAt(x) /\ OwnAt(x) /\ AskedAt(x))'
      BY DEF OpInv
    <2>1. CASE x # o
      BY <2>1 DEF BaseInv, TypeOK, OpInv, SpanAt, OwnAt, AskedAt, Block, Size, Searching, Removing
    <2>2. CASE x = o
      BY <2>2 DEF BaseInv, TypeOK, OpInv, SpanAt, OwnAt, AskedAt, Block, Size, Searching, Removing
    <2> QED
      BY <2>1, <2>2
  <1>5. OriginInv'
    BY OriginKept DEF BaseInv, TypeOK, OpInv, OwnAt, Stored
  <1> QED
    BY <1>1, <1>2, <1>3, <1>4, <1>5 DEF BaseInv

\* The Redis lock expires.
LEMMA LockExpiresBase ==
  ASSUME BaseInv, LockExpires
  PROVE  BaseInv'
  <1> USE DEF LockExpires, Goto, MayFail, redisVars, dbVars, scanVars, ownVars
  <1>1. TypeOK'
    BY DEF BaseInv, TypeOK, Location, Asked
  <1>2. DownInv'
    BY DEF BaseInv, DownInv, TypeOK, Active
  <1>3. BlockInv'
    BY DEF BaseInv, BlockInv, BlockAt, TypeOK, Port, Size, LastStart
  <1>4. OpInv'
    BY DEF BaseInv, TypeOK, OpInv, SpanAt, OwnAt, AskedAt, Block, Size, Searching, Removing, Active
  <1>5. OriginInv'
    BY DEF BaseInv, OriginInv, StoredBy, TypeOK, Row
  <1> QED
    BY <1>1, <1>2, <1>3, <1>4, <1>5 DEF BaseInv

\* A crash ends every request.
LEMMA CrashBase ==
  ASSUME BaseInv, Crash
  PROVE  BaseInv'
  <1> USE DEF Crash, Goto, MayFail, redisVars, dbVars, scanVars, ownVars
  <1>a. \A o \in Op : /\ pc'[o] \in {"idle", "done"} /\ ~Active(o)'
                      /\ pc[o] \in Stored => pc'[o] = "done"
    BY DEF BaseInv, TypeOK, Active, Stored
  <1>1. TypeOK'
    <2>1. req' \in [Op -> Request]
      BY NoRequestType
    <2>2. start' \in [Op -> Asked] /\ n' \in [Op -> 0..BlockSize]
          /\ crashes' \in 0..MaxCrashes
      BY DEF BaseInv, TypeOK, Asked
    <2>3. pc' \in [Op -> Location]
      BY DEF BaseInv, TypeOK, Location
    <2> QED
      BY <2>1, <2>2, <2>3 DEF BaseInv, TypeOK, Note, Upset, Clash, Leak
  <1>2. DownInv'
    BY <1>a DEF DownInv
  <1>3. BlockInv'
    BY <1>a DEF BlockInv, BlockAt
  <1>4. OpInv'
    BY <1>a DEF OpInv, SpanAt, OwnAt, AskedAt, Searching, Removing
  <1>5. OriginInv'
    BY <1>a DEF BaseInv, OriginInv, StoredBy, Stored, TypeOK, Row
  <1> QED
    BY <1>1, <1>2, <1>3, <1>4, <1>5 DEF BaseInv

\* Sync replaces the marks.
LEMMA RestartBase ==
  ASSUME BaseInv, Restart
  PROVE  BaseInv'
  <1> USE DEF Restart, Goto, MayFail, redisVars, dbVars, scanVars, ownVars
  <1>1. TypeOK'
    <2>1. UsedHostPorts \subseteq Port
      BY DEF BaseInv, TypeOK, UsedHostPorts, Row
    <2> QED
      BY <2>1 DEF BaseInv, TypeOK
  <1>2. DownInv'
    BY DEF BaseInv, DownInv, Active
  <1>3. BlockInv'
    BY DEF BaseInv, BlockInv, BlockAt, TypeOK, Port, Size, LastStart
  <1>4. OpInv'
    BY DEF BaseInv, TypeOK, OpInv, SpanAt, OwnAt, AskedAt, Block, Size, Searching, Removing, Active
  <1>5. OriginInv'
    BY DEF BaseInv, OriginInv, StoredBy, TypeOK, Row
  <1> QED
    BY <1>1, <1>2, <1>3, <1>4, <1>5 DEF BaseInv

\* The initial states satisfy it.
LEMMA InitBase == Init => BaseInv
  <1> SUFFICES ASSUME Init PROVE BaseInv
    OBVIOUS
  <1> USE DEF Init
  <1>1. TypeOK
    <2>1. req \in [Op -> Request]
      BY NoRequestType
    <2>2. start \in [Op -> Asked] /\ n \in [Op -> 0..BlockSize]
          /\ crashes \in 0..MaxCrashes
      BY DEF Asked
    <2>3. table \in [Inst -> {"none", "active", "deleted"}]
      OBVIOUS
    <2> QED
      BY <2>1, <2>2, <2>3 DEF TypeOK, Location
  <1>2. DownInv /\ BlockInv /\ OpInv
    BY DEF DownInv, BlockInv, BlockAt, OpInv, SpanAt, OwnAt, AskedAt, Removing, Searching
  <1>3. OriginInv
    BY DEF OriginInv
  <1> QED
    BY <1>1, <1>2, <1>3 DEF BaseInv

\* Every step preserves it: one case per action.
LEMMA NextBase ==
  ASSUME BaseInv, [Next]_vars
  PROVE  BaseInv'
  <1>1. ASSUME NEW o \in Op, Step(o)
        PROVE  BaseInv'
    BY <1>1, LockMutexBase, AcquireLockBase, ListUsedHostPortsBase, ScanBase,
       MarkPortAllocatedBase, RollbackBase, UnlockOkBase, UnlockErrBase, AttachBase,
       AddPortBase, CleanupBase, ReleaseBlockBase, UnmarkRowBase, DeletePortBase,
       SoftDeleteInstanceBase DEF Step
  <1>2. ASSUME NEW o \in Op, Begin(o)
        PROVE  BaseInv'
    <2>0. RangeStart \in Port /\ {"tcp", "udp"} = Proto /\ "scan" \in Plan
      BY DEF Port, Proto, Plan
    <2>1. ASSUME NEW i \in Inst, Provision(o, i) \/ Start(o, i)
          PROVE  BaseInv'
      BY <2>0, <2>1, AskBase DEF Provision, Start
    <2>2. ASSUME NEW i \in Inst, NEW proto \in Proto, NEW p \in Asked,
                 AddFixed(o, i, proto, p) \/ AddAny(o, i, proto, p)
          PROVE  BaseInv'
      BY <2>0, <2>2, AskBase DEF AddFixed, AddAny, Plan
    <2> QED
      BY <1>2, <2>1, <2>2, DeleteInstanceBase, RemovePortMappingBase DEF Begin
  <1>3. CASE UNCHANGED vars
    <2> USE <1>3 DEF vars, redisVars, dbVars, scanVars, ownVars
    <2>1. TypeOK' /\ DownInv' /\ BlockInv'
      BY DEF BaseInv, TypeOK, DownInv, BlockInv, BlockAt, Active, Size
    <2>2. OpInv' /\ OriginInv'
      BY DEF BaseInv, OpInv, SpanAt, OwnAt, AskedAt, OriginInv, StoredBy, Block, Size
    <2> QED
      BY <2>1, <2>2 DEF BaseInv
  <1> QED
    BY <1>1, <1>2, <1>3, LockExpiresBase, CrashBase, RestartBase DEF Next

\* A step of o after which every mark is an old one o still answers for, if it
\* did, and no row was deleted or began to be removed.
LEMMA CoverKept ==
  ASSUME CoverInv, Accounted, Accounted', NEW o \in Op, up' = up,
         \A x \in Op : x # o => Answerable(x)' = Answerable(x),
         \A p \in marked' : \/ p \in marked /\ (p \in Answerable(o) => p \in Answerable(o)')
                            \/ p \in Answerable(o)',
         rows' = rows,
         \A x \in Op : draining'[x] \subseteq draining[x]
  PROVE  CoverInv'
  <1> SUFFICES ASSUME up, NEW p \in marked' PROVE Covered(p)'
    BY DEF CoverInv
  <1>1. CASE p \in Answerable(o)'
    BY <1>1 DEF Covered
  <1>2. CASE p \notin Answerable(o)'
    BY <1>2 DEF CoverInv, Covered
  <1> QED
    BY <1>1, <1>2

\* o stores a row: the mark passes from the request to the row.
LEMMA AddPortCover ==
  ASSUME BaseInv, CoverInv, Accounted, Accounted', NEW o \in Op, AddPort(o)
  PROVE  CoverInv'
  <1> USE DEF AddPort, Conclude, Goto, MayFail, redisVars
  <1> DEFINE row(p) == [port |-> p, proto |-> req[o].proto,
                        inst |-> req[o].inst, by |-> o]
  <1>1. \A x \in Op : x # o => Answerable(x)' = Answerable(x)
    BY DEF BaseInv, TypeOK, Answerable
  <1>2. CASE rows' = rows
    <2>1. /\ held[o] # {} => held' = held
          /\ pc'[o] \in {"commit", "cleanup", "done"}
      <3>1. CASE Conclude(o, TRUE)
        BY <3>1 DEF BaseInv, TypeOK, Note, Accounted, Leak
      <3>2. CASE ~Conclude(o, TRUE)
        <4>1. \A p \in held[o] : row(p).port = p /\ row(p).proto = req[o].proto
          OBVIOUS
        <4> QED
          BY <1>2, <3>2, <4>1 DEF BaseInv, TypeOK
      <3> QED
        BY <3>1, <3>2
    <2>2. Answerable(o) \subseteq Answerable(o)'
      BY <2>1 DEF Answerable
    <2> QED
      BY <1>1, <1>2, <2>2, CoverKept
  <1>3. CASE rows' # rows
    <2>1. PICK q \in held[o] : /\ rows' = rows \cup {row(q)}
                              /\ held' = [held EXCEPT ![o] = @ \ {q}]
                              /\ UNCHANGED pc
      BY <1>3
    <2>2. \A x \in Op : row(q) \notin draining[x]
      BY <2>1 DEF BaseInv, TypeOK, OriginInv, StoredBy
    <2>3. SUFFICES ASSUME up, NEW p \in marked PROVE Covered(p)'
      BY DEF CoverInv
    <2>4. CASE p = q
      BY <2>1, <2>2, <2>4 DEF Covered
    <2>5. CASE p # q
      <3>1. \A x \in Op : p \in Answerable(x) => p \in Answerable(x)'
        BY <1>1, <2>1, <2>5 DEF Answerable, BaseInv, TypeOK
      <3> QED
        BY <2>1, <2>3, <3>1 DEF CoverInv, Covered
    <2> QED
      BY <2>4, <2>5
  <1> QED
    BY <1>2, <1>3

\* A failed request gives back everything it holds, unless it spares a port.
LEMMA CleanupCover ==
  ASSUME BaseInv, CoverInv, Accounted, Accounted', NEW o \in Op, Cleanup(o)
  PROVE  CoverInv'
  <1> USE DEF Cleanup, Goto, redisVars, dbVars, scanVars, ownVars
  <1>1. \A x \in Op : x # o => Answerable(x)' = Answerable(x)
    BY DEF BaseInv, TypeOK, Answerable
  <1>2. Answerable(o) = held[o] /\ Answerable(o)' = rel'[o]
    BY DEF BaseInv, TypeOK, Answerable
  <1>3. held[o] \subseteq rel'[o]
    <2>1. PICK ports \in Unused(o) :
            /\ rel' = [rel EXCEPT ![o] = ports]
            /\ \A r \in rows : r.port \notin held[o] \ ports
      BY DEF Accounted, Leak
    <2>2. held[o] \subseteq Block(o)
      BY DEF BaseInv, OpInv, SpanAt
    <2>3. held[o] \subseteq ports
      BY <2>1, <2>2 DEF Unused
    <2> QED
      BY <2>1, <2>3 DEF BaseInv, TypeOK
  <1> QED
    BY <1>1, <1>2, <1>3, CoverKept

\* o removes the mark of a mapping before the mapping.
LEMMA UnmarkRowCover ==
  ASSUME BaseInv, CoverInv, Accounted, Accounted', NEW o \in Op, UnmarkRow(o)
  PROVE  CoverInv'
  <1> USE DEF Unmark, UnmarkRow, Goto, MayFail, redisVars, dbVars, scanVars, ownVars
  <1>1. \A x \in Op : Answerable(x)' = Answerable(x)
    BY DEF BaseInv, TypeOK, Answerable
  <1>2. CASE todo[o] = {}
    BY <1>1, <1>2, CoverKept
  <1>3. CASE todo[o] # {}
    <2>1. PICK r \in todo[o] : /\ marked' = marked \ {r.port}
                              /\ draining' = [draining EXCEPT ![o] = {r}]
      BY <1>3 DEF Note, Accounted, Leak
    <2>2. SUFFICES ASSUME up, NEW p \in marked' PROVE Covered(p)'
      BY DEF CoverInv
    <2>3. Covered(p) /\ p # r.port
      BY <2>1, <2>2 DEF CoverInv
    <2> QED
      BY <1>1, <2>1, <2>3 DEF Covered, BaseInv, TypeOK
  <1> QED
    BY <1>2, <1>3

\* The steps of a request leave no mark behind.
LEMMA StepCover ==
  ASSUME BaseInv, CoverInv, Accounted, Accounted', NEW o \in Op, Step(o)
  PROVE  CoverInv'
  <1> USE DEF Goto, MayFail, redisVars, dbVars, scanVars, ownVars
  <1>1. CASE LockMutex(o) \/ ListUsedHostPorts(o) \/ Scan(o) \/ UnlockOk(o)
    <2>1. \A x \in Op : Answerable(x)' = Answerable(x)
      BY <1>1 DEF LockMutex, ListUsedHostPorts, Scan, UnlockOk, BaseInv,
                  TypeOK, Answerable
    <2> QED
      BY <1>1, <2>1, CoverKept DEF LockMutex, ListUsedHostPorts, Scan, UnlockOk
  <1>2. CASE AcquireLock(o) \/ UnlockErr(o) \/ SoftDeleteInstance(o)
    <2>1. \A x \in Op : Answerable(x)' = Answerable(x)
      BY <1>2 DEF AcquireLock, UnlockErr, SoftDeleteInstance, GiveUp, BaseInv,
                  TypeOK, Answerable
    <2> QED
      BY <1>2, <2>1, CoverKept DEF AcquireLock, UnlockErr, SoftDeleteInstance
  <1>3. CASE MarkPortAllocated(o)
    <2>1. /\ \A x \in Op : x # o => Answerable(x)' = Answerable(x)
          /\ Answerable(o) \subseteq Answerable(o)'
      BY <1>3 DEF MarkPortAllocated, BaseInv, TypeOK, Answerable
    <2>2. \A p \in marked' : p \in marked \/ p \in Answerable(o)'
      BY <1>3 DEF MarkPortAllocated, BaseInv, TypeOK, Answerable, Note, Accounted, Leak
    <2> QED
      BY <1>3, <2>1, <2>2, CoverKept DEF MarkPortAllocated
  <1>4. CASE Rollback(o) \/ ReleaseBlock(o)
    <2>1. \A x \in Op : x # o => Answerable(x)' = Answerable(x)
      BY <1>4 DEF Rollback, ReleaseBlock, ReleasePort, Conclude, BaseInv, TypeOK, Answerable
    <2>2. \A p \in marked' : p \in marked /\ (p \in Answerable(o) => p \in Answerable(o)')
      <3>1. CASE ReleasePort(o)
        <4>1. PICK p \in rel[o] : /\ Unmark(p)
                                  /\ rel' = [rel EXCEPT ![o] = @ \ {p}]
                                  /\ held' = [held EXCEPT ![o] = @ \ {p}]
          BY <3>1 DEF ReleasePort
        <4>2. marked' = marked \ {p}
          BY <4>1 DEF Unmark, Note, Accounted, Leak
        <4>3. Answerable(o) \ {p} \subseteq Answerable(o)'
          <5>1. CASE Rollback(o)
            BY <4>1, <5>1 DEF Rollback, BaseInv, TypeOK, Answerable
          <5>2. CASE ReleaseBlock(o)
            BY <4>1, <5>2 DEF ReleaseBlock, BaseInv, TypeOK, Answerable
          <5> QED
            BY <1>4, <5>1, <5>2
        <4> QED
          BY <4>2, <4>3
      <3>2. CASE ~ReleasePort(o)
        BY <1>4, <3>2 DEF Rollback, ReleaseBlock, Conclude, BaseInv, TypeOK,
                          OpInv, OwnAt, Answerable
      <3> QED
        BY <3>1, <3>2
    <2> QED
      BY <1>4, <2>1, <2>2, CoverKept DEF Rollback, ReleaseBlock
  <1>5. CASE AddPort(o)
    BY <1>5, AddPortCover
  <1>6. CASE Cleanup(o)
    BY <1>6, CleanupCover
  <1>7. CASE UnmarkRow(o)
    BY <1>7, UnmarkRowCover
  <1>8. CASE DeletePort(o)
    <2>1. \A x \in Op : Answerable(x)' = Answerable(x) /\ draining'[x] \subseteq draining[x]
      BY <1>8 DEF DeletePort, BaseInv, TypeOK, Answerable
    <2>2. \A r \in rows : r \in rows' \/ r \in draining[o]
      BY <1>8 DEF DeletePort
    <2> QED
      BY <1>8, <2>1, <2>2 DEF DeletePort, CoverInv, Covered
  <1>9. CASE Attach(o)
    <2>1. \A x \in Op : x # o => Answerable(x)' = Answerable(x)
      BY <1>9 DEF Attach, BaseInv, TypeOK, Answerable
    <2>2. held[o] \subseteq Block(o)
      BY <1>9 DEF Attach, BaseInv, OpInv, SpanAt
    <2>3. Answerable(o) \subseteq Answerable(o)'
      BY <1>9, <2>2 DEF Attach, BaseInv, TypeOK, Answerable
    <2> QED
      BY <1>9, <2>1, <2>3, CoverKept DEF Attach
  <1> QED
    BY <1>1, <1>2, <1>3, <1>4, <1>5, <1>6, <1>7, <1>8, <1>9 DEF Step

\* No step leaves a mark behind.
LEMMA NextCover ==
  ASSUME BaseInv, CoverInv, [Next]_vars
  PROVE  CoverInv'
  <1> USE DEF redisVars, dbVars, scanVars, ownVars
  <1>1. CASE ~Accounted'
    BY <1>1 DEF CoverInv
  <1>2. CASE Restart
    <2>1. \A x \in Op : draining[x] = {}
      BY <1>2 DEF Restart, BaseInv, DownInv, OpInv, AskedAt, Active
    <2>2. rows' = rows /\ draining' = draining /\ marked' \subseteq {r.port : r \in rows}
      BY <1>2 DEF Restart, UsedHostPorts
    <2> QED
      BY <2>1, <2>2 DEF CoverInv, Covered
  <1>3. CASE Accounted' /\ ~Restart
    <2>a. Accounted
      BY <1>3, UpsetGrows DEF Accounted
    <2>1. ASSUME NEW o \in Op, Begin(o)
          PROVE  CoverInv'
      <3>1. /\ UNCHANGED <<up, marked, rows, held, rel, draining>>
            /\ pc[o] = "idle" /\ \E l \in {"lock", "unmarkRow"} : pc' = [pc EXCEPT ![o] = l]
        BY <2>1 DEF Begin, Provision, Start, AddFixed, AddAny, Ask, DeleteInstance,
                    RemovePortMapping, Goto
      <3>2. \A x \in Op : Answerable(x)' = Answerable(x)
        BY <3>1 DEF Answerable, BaseInv, TypeOK
      <3> QED
        BY <1>3, <2>a, <3>1, <3>2, CoverKept
    <2>2. CASE LockExpires \/ UNCHANGED vars
      BY <2>a, <2>2 DEF LockExpires, vars, CoverInv, Covered, Answerable
    <2>3. CASE Crash
      BY <2>3 DEF Crash, CoverInv
    <2> QED
      BY <1>3, <2>a, <2>1, <2>2, <2>3, StepCover DEF Next
  <1> QED
    BY <1>1, <1>2, <1>3

------------------------------------------------------------------------------
(***************************************************************************)
(* A restart: it re-establishes the invariant, unless a port is mapped     *)
(* twice, and is the pool's Recover.                                       *)
(***************************************************************************)

\* Requests and rows are about instances that exist.
KnownInv ==
  /\ \A o \in Op : Active(o) => table[req[o].inst] # "none"
  /\ \A r \in rows : table[r.inst] # "none"

\* A step of o that takes no instance away and stores rows of its own instance.
LEMMA KnownKept ==
  ASSUME TypeOK, KnownInv, NEW o \in Op, Active(o),
         \A x \in Op : x # o => pc'[x] = pc[x] /\ req'[x] = req[x],
         Active(o)' => req'[o].inst = req[o].inst,
         \A i \in Inst : table[i] # "none" => table'[i] # "none",
         \A r \in rows' : r \in rows \/ r.inst = req[o].inst
  PROVE  KnownInv'
  <1>1. \A x \in Op : req[x].inst \in Inst
    BY DEF TypeOK, Request
  <1>2. \A r \in rows : r.inst \in Inst
    BY DEF TypeOK, Row
  <1>3. ASSUME NEW x \in Op, Active(x)' PROVE table'[req'[x].inst] # "none"
    BY <1>1, <1>3 DEF KnownInv, Active
  <1>4. ASSUME NEW r \in rows' PROVE table'[r.inst] # "none"
    BY <1>1, <1>2, <1>4 DEF KnownInv
  <1> QED
    BY <1>3, <1>4 DEF KnownInv

\* So are all steps of a request.
LEMMA StepKnown ==
  ASSUME BaseInv, KnownInv, NEW o \in Op, Step(o)
  PROVE  KnownInv'
  <1> USE DEF Goto, redisVars, dbVars, scanVars, ownVars
  <1> DEFINE Kept == /\ Active(o)
                     /\ \A x \in Op : x # o => pc'[x] = pc[x] /\ req'[x] = req[x]
                     /\ Active(o)' => req'[o].inst = req[o].inst
                     /\ \A i \in Inst : table[i] # "none" => table'[i] # "none"
                     /\ \A r \in rows' : r \in rows \/ r.inst = req[o].inst
  <1>a. ASSUME Kept PROVE KnownInv'
    BY <1>a, KnownKept DEF BaseInv
  <1> HIDE DEF Kept
  <1>1. CASE LockMutex(o) \/ ListUsedHostPorts(o) \/ Attach(o) \/ UnlockOk(o) \/ Cleanup(o)
    BY <1>1, <1>a DEF LockMutex, ListUsedHostPorts, Attach, UnlockOk, Cleanup,
                      Kept, BaseInv, TypeOK, Active
  <1>2. CASE AcquireLock(o) \/ UnlockErr(o)
    BY <1>2, <1>a DEF AcquireLock, UnlockErr, GiveUp, Kept, BaseInv, TypeOK, Active, Request
  <1>3. CASE Scan(o) \/ MarkPortAllocated(o) \/ Rollback(o)
    BY <1>3, <1>a DEF Scan, MarkPortAllocated, Rollback, Kept, BaseInv, TypeOK, Active
  <1>4. CASE AddPort(o)
    <2>1. /\ Active(o) /\ \A x \in Op : x # o => pc'[x] = pc[x] /\ req'[x] = req[x]
          /\ Active(o)' => req'[o].inst = req[o].inst
      BY <1>4 DEF AddPort, Conclude, BaseInv, TypeOK, Active
    <2>2. \A i \in Inst : table[i] # "none" => table'[i] # "none"
      BY <1>4 DEF AddPort, Conclude, BaseInv, TypeOK
    <2>3. \A r \in rows' : r \in rows \/ r.inst = req[o].inst
      BY <1>4 DEF AddPort, Conclude
    <2> QED
      BY <2>1, <2>2, <2>3, <1>a DEF Kept
  <1>5. CASE ReleaseBlock(o)
    BY <1>5, <1>a DEF ReleaseBlock, Conclude, Kept, BaseInv, TypeOK, Active
  <1>6. CASE UnmarkRow(o) \/ DeletePort(o) \/ SoftDeleteInstance(o)
    BY <1>6, <1>a DEF UnmarkRow, DeletePort, SoftDeleteInstance, Kept, BaseInv, TypeOK, Active
  <1> QED
    BY <1>1, <1>2, <1>3, <1>4, <1>5, <1>6 DEF Step

\* Every step keeps it.
LEMMA NextKnown ==
  ASSUME BaseInv, KnownInv, [Next]_vars
  PROVE  KnownInv'
  <1> USE DEF Goto, redisVars, dbVars, scanVars, ownVars
  <1>1. ASSUME NEW o \in Op, Begin(o)
        PROVE  KnownInv'
    <2>a. ASSUME NEW i \in Inst, rows' = rows, table'[i] # "none",
                 \A j \in Inst : table[j] # "none" => table'[j] # "none",
                 \A x \in Op : x # o => pc'[x] = pc[x] /\ req'[x] = req[x],
                 req'[o].inst = i
          PROVE  KnownInv'
      BY <2>a DEF KnownInv, BaseInv, TypeOK, Active, Request, Row
    <2>1. ASSUME NEW i \in Inst, Provision(o, i)
          PROVE  KnownInv'
      BY <2>1, <2>a DEF Provision, Ask, BaseInv, TypeOK
    <2>2. ASSUME NEW i \in Inst, Start(o, i)
          PROVE  KnownInv'
      BY <2>2, <2>a DEF Start, Ask, BaseInv, TypeOK
    <2>3. ASSUME NEW i \in Inst, NEW proto \in Proto, NEW p \in Asked,
                 AddFixed(o, i, proto, p) \/ AddAny(o, i, proto, p)
          PROVE  KnownInv'
      BY <2>3, <2>a DEF AddFixed, AddAny, Ask, BaseInv, TypeOK
    <2>4. ASSUME NEW i \in Inst, DeleteInstance(o, i)
          PROVE  KnownInv'
      <3>1. req'[o].inst = i
        BY <2>4, NoRequestType DEF DeleteInstance, BaseInv, TypeOK, NoRequest
      <3> QED
        BY <2>4, <2>a, <3>1 DEF DeleteInstance, BaseInv, TypeOK
    <2>5. ASSUME NEW r \in rows, RemovePortMapping(o, r)
          PROVE  KnownInv'
      <3>1. r.inst \in Inst
        BY DEF BaseInv, TypeOK, Row
      <3>2. req'[o].inst = r.inst
        BY <2>5, <3>1, RemovalRequestType DEF RemovePortMapping, BaseInv, TypeOK, Kind
      <3> QED
        BY <2>5, <2>a, <3>1, <3>2 DEF RemovePortMapping, BaseInv, TypeOK
    <2> QED
      BY <1>1, <2>1, <2>2, <2>3, <2>4, <2>5 DEF Begin
  <1>2. CASE LockExpires \/ Restart \/ UNCHANGED vars
    BY <1>2 DEF LockExpires, Restart, vars, KnownInv, Active
  <1>3. CASE Crash
    BY <1>3 DEF Crash, KnownInv, BaseInv, TypeOK, Active
  <1> QED
    BY <1>1, <1>2, <1>3, StepKnown DEF Next

\* Sync marks the ports of the live instances, which are the served ones.
LEMMA RestartInv ==
  ASSUME BaseInv, KnownInv, Undisturbed => IInv, Undisturbed', Restart
  PROVE  IInv'
  <1> USE DEF redisVars, dbVars, scanVars, ownVars
  <1>0. /\ crashes' = crashes /\ mu' = mu /\ lock' = lock /\ rows' = rows /\ table' = table
        /\ pc' = pc /\ req' = req /\ start' = start /\ n' = n /\ snap' = snap
        /\ held' = held /\ rel' = rel /\ todo' = todo /\ draining' = draining
        /\ up' = TRUE /\ marked' = UsedHostPorts /\ mu = NoOp
        /\ upset' = IF MappedOnce THEN {} ELSE upset \ Leak
    BY DEF Restart, BaseInv, DownInv
  <1>a. \A o \in Op : /\ pc[o] \in {"idle", "done"}
                      /\ pc[o] = "idle" => n[o] = 0
                      /\ held[o] = {} /\ rel[o] = {} /\ todo[o] = {} /\ draining[o] = {}
    BY DEF Restart, BaseInv, DownInv, Active, BlockInv, BlockAt, OpInv, OwnAt, AskedAt
  <1>b. \A r \in rows : /\ Serving(r)' <=> table[r.inst] = "active"
                        /\ Serving(r) <=> table[r.inst] = "active"
    <2>1. \A o \in Op : ~Active(o) /\ ~Active(o)'
      BY <1>0, <1>a DEF Active
    <2> QED
      BY <1>0, <1>a, <2>1 DEF Serving, Engaged
  <1>c. MappedOnce
    <2>1. CASE Undisturbed
      BY <1>b, <2>1 DEF IInv, OnceInv, MappedOnce
    <2>2. CASE ~Undisturbed
      BY <1>0, <2>2 DEF Undisturbed, Clash, Leak
    <2> QED
      BY <2>1, <2>2
  <1>1. TypeOK'
    <2>1. UsedHostPorts \subseteq Port
      BY DEF BaseInv, TypeOK, UsedHostPorts, Row
    <2> QED
      BY <1>0, <1>c, <2>1 DEF BaseInv, TypeOK
  <1>2. MutexInv' /\ DownInv'
    BY <1>0, <1>a DEF BaseInv, TypeOK, DownInv, MutexInv, Critical, Active
  <1>3. BlockInv' /\ HoldingInv' /\ StoredInv' /\ FreshInv'
    BY <1>0, <1>a DEF BlockInv, BlockAt, HoldingInv, HoldingAt, StoredInv, StoredAt, FreshInv, Removing
  <1>4. KindInv' /\ RemovalInv'
    BY <1>0, <1>a DEF KindInv, KindAt, RemovalInv, RemovalAt, Searching
  <1>5. RowInv'
    BY <1>0, <1>a DEF KnownInv, RowInv, BaseInv, OriginInv, StoredBy, Stored
  <1>6. ExclusiveInv' /\ KeptInv'
    BY <1>0, <1>a DEF ExclusiveInv, KeptInv
  <1>7. OnceInv'
    BY <1>0, <1>a, <1>b, <1>c DEF OnceInv, MappedOnce
  <1>8. ServedMarked'
    BY <1>0, <1>b DEF ServedMarked, UsedHostPorts
  <1> QED
    BY <1>1, <1>2, <1>3, <1>4, <1>5, <1>6, <1>7, <1>8 DEF IInv

\* Nothing is reserved when the server comes up, and the mappings are still there.
LEMMA RestartRefines ==
  ASSUME BaseInv, Undisturbed', Restart
  PROVE  Pool!Recover
  <1> USE DEF Restart, redisVars, dbVars, scanVars, ownVars
  <1>1. \A o \in Op : held[o] = {}
    BY DEF BaseInv, DownInv, Active, OpInv, OwnAt
  <1>2. ServedPorts' = ServedPorts /\ held' = held
    BY DEF ServedPorts, Serving, Engaged, Active
  <1>3. (~Undisturbed)' = FALSE
    OBVIOUS
  <1> QED
    BY <1>1, <1>2, <1>3 DEF Pool!Recover, ServedPorts

\* A step in which something of Clash happens is the pool's misuse, a restart puts
\* it in order again.
LEMMA StepImplements ==
  ASSUME BaseInv, Undisturbed => IInv, [Next]_vars
  PROVE  [Pool!Next]_(Pool!poolVars)
  <1>1. CASE Undisturbed' /\ ~Restart
    <2>1. Undisturbed /\ IInv
      BY <1>1, UpsetGrows DEF Undisturbed
    <2>2. (~Undisturbed)' = ~Undisturbed
      BY <1>1, <2>1
    <2>3. Pool!Change \/ (held' = held /\ ServedPorts' = ServedPorts)
      BY <1>1, <2>1, NextRefines
    <2> QED
      BY <2>1, <2>2, <2>3 DEF Pool!Next, Pool!poolVars, ServedPorts
  <1>2. CASE Undisturbed' /\ Restart
    BY <1>2, RestartRefines DEF Pool!Next
  <1>3. CASE ~Undisturbed'
    <2>1. (~Undisturbed)' = TRUE
      BY <1>3
    <2> QED
      BY <2>1 DEF Pool!Next
  <1> QED
    BY <1>1, <1>2, <1>3

------------------------------------------------------------------------------
(***************************************************************************)
(* Theorems.                                                               *)
(***************************************************************************)

\* Whatever the clients send and whatever fails, the operations keep to what
\* they were asked for and to blocks that lie in the range.
THEOREM BaseInvariance == Spec => []BaseInv
  <1>1. BaseInv /\ [Next]_vars => BaseInv'
    BY NextBase
  <1> QED
    BY <1>1, InitBase, PTL DEF Spec

\* Requests and rows are about instances that exist.
LEMMA KnownInvariance == Spec => []KnownInv
  <1>1. Init => KnownInv
    BY DEF Init, KnownInv, Active
  <1>2. BaseInv /\ KnownInv /\ [Next]_vars => KnownInv'
    BY NextKnown
  <1> QED
    BY <1>1, <1>2, BaseInvariance, PTL DEF Spec

\* The inductive invariant holds until something of Clash happens, and again after
\* a restart that finds no port mapped twice.
THEOREM Invariance == Spec => [](Undisturbed => IInv)
  <1>1. Init => (Undisturbed => IInv)
    BY InitInv
  <1>2. BaseInv /\ KnownInv /\ (Undisturbed => IInv) /\ [Next]_vars
          => (Undisturbed => IInv)'
    <2> SUFFICES ASSUME BaseInv, KnownInv, Undisturbed => IInv, [Next]_vars, Undisturbed'
                 PROVE  IInv'
      OBVIOUS
    <2>1. CASE Restart
      BY <2>1, RestartInv
    <2>2. CASE ~Restart
      BY <2>2, UpsetGrows, NextInv DEF Undisturbed
    <2> QED
      BY <2>1, <2>2
  <1> QED
    BY <1>1, <1>2, BaseInvariance, KnownInvariance, PTL DEF Spec

\* Two requests never hold the same host port.
THEOREM Exclusion == Spec => []HeldExclusive
  <1>1. (Undisturbed => IInv) => HeldExclusive
    BY DEF IInv, ExclusiveInv, HeldExclusive
  <1> QED
    BY <1>1, Invariance, PTL

\* The mark of a reservation survives until its owner stores the mapping or
\* gives the port back.
THEOREM MarksKept == Spec => []ReservationKept
  <1>1. (Undisturbed => IInv) => ReservationKept
    BY DEF IInv, KeptInv, ReservationKept
  <1> QED
    BY <1>1, Invariance, PTL

\* A host port serves one mapping at a time and is not reserved meanwhile.
THEOREM OneMapping == Spec => []ServedOnce
  <1>1. (Undisturbed => IInv) => ServedOnce
    BY DEF IInv, OnceInv, ServedOnce
  <1> QED
    BY <1>1, Invariance, PTL

\* Every step of the allocator and of its callers is a step of the pool: a port
\* is handed out only when it is free, and never changes hands directly.
THEOREM Refinement == Spec => PoolSpec
  <1>1. BaseInv /\ (Undisturbed => IInv) /\ [Next]_vars => [Pool!Next]_(Pool!poolVars)
    BY StepImplements
  <1> QED
    BY <1>1, BaseInvariance, Invariance, InitRefines, PTL DEF Spec, PoolSpec, Pool!Spec

\* Every variable of the allocator keeps its type: only ports of the configured
\* range are ever marked, stored or handed out.
THEOREM TypeCorrect == Spec => []TypeOK
  BY BaseInvariance, PTL DEF BaseInv

\* No reservation outlives its request: every mark belongs to a request under
\* way or to a row.
THEOREM NoLeak == Spec => []NoLeakedMark
  <1>1. Init => CoverInv
    BY DEF Init, CoverInv
  <1>2. BaseInv /\ CoverInv /\ [Next]_vars => CoverInv'
    BY NextCover
  <1>3. CoverInv => NoLeakedMark
    BY DEF CoverInv, NoLeakedMark, Covered, Answerable
  <1> QED
    BY <1>1, <1>2, <1>3, BaseInvariance, PTL DEF Spec

==============================================================================
