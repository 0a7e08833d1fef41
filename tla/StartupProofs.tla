----------------------------- MODULE StartupProofs -----------------------------
(***************************************************************************)
(* How the server comes up, for every list of pools and networks, every    *)
(* number of releases, concurrent creations, failures and crashes: each    *)
(* migration is executed once and in order, and the containers live on     *)
(* disks of their own and together.                                        *)
(***************************************************************************)
EXTENDS Startup, SequenceTheorems, TLAPS

------------------------------------------------------------------------------
(***************************************************************************)
(* The inductive invariant.                                                *)
(***************************************************************************)

\* Where runServe and the creations can be; a container is created while the server
\* serves, and a pool is made that is the next to be tried.
PathInv ==
  /\ pc[Server] \notin {"idle", "done", "address", "create"}
  /\ \A r \in Request :
       /\ pc[r] \in {"idle", "done", "pool", "install", "try", "make", "network", "others",
                     "makeNet", "harden", "profile", "address", "create"}
       /\ pc[r] \notin {"idle", "done"} => Serving
  /\ \A a \in Actor : pc[a] = "make" => todo[a] # <<>>

\* What schema_migrations lists is what the schema has seen, and a transaction that
\* is about to commit has executed the next file.
MigrationInv ==
  /\ \A i \in DOMAIN applied : applied[i] = i
  /\ recorded = 1..Len(applied) /\ Len(applied) <= release
  /\ pc[Server] = "commit" => tx = <<Len(applied) + 1>> /\ Len(applied) < release
  /\ pc[Server] \notin {"down", "migrate", "commit"} => Len(applied) = release

\* Past EnsureStoragePool the client's pool isolates.
Placed == {"network", "others", "makeNet", "harden", "profile", "save", "write", "sync",
           "serving"}

PlacedInv == DiskIsolated /\ (pc[Server] \in Placed => pools[pool] = "isolating")

\* The network that EnsureNetwork finds whenever it looks: the configured one if there
\* is one, else the first.
IsHome(n) ==
  /\ Exists(n)
  /\ n # Configured => ~Exists(Configured) /\ \A m \in Net : Exists(m) => Preferred(n, m)

\* The pool stays the one in the file: only runServe looks for another, and only while
\* there is no container.
PoolHome ==
  /\ \A r \in Request : pc[r] \notin {"install", "try", "make"}
  /\ pc[Server] \in {"install", "try", "make"} => pools[pool] # "isolating"
  /\ pc[Server] \in {"sync", "serving"} => file = pool
  /\ \A g \in guests : g.pool = pool /\ file = pool

\* The network is home, or will be again.
NetHome ==
  /\ \A r \in Request : /\ pc[r] \notin {"others", "makeNet"}
                        /\ pc[r] \in {"harden", "create"} => want[r] = net
  /\ net = Configured \/ IsHome(net)
  /\ pc[Server] = "others" => want[Server] = Configured /\ ~Exists(Configured)
  /\ pc[Server] = "makeNet" => want[Server] = Configured /\ \A n \in Net : ~Exists(n)
  /\ pc[Server] = "harden" => IsHome(want[Server])
  /\ pc[Server] \in {"profile", "save", "write", "sync", "serving"} => IsHome(net)
  /\ \A g \in guests : IsHome(g.net) /\ g.addr = g.net

HomeInv == ~misled => PoolHome /\ NetHome

IInv == TypeOK /\ PathInv /\ MigrationInv /\ PlacedInv /\ HomeInv


------------------------------------------------------------------------------
(***************************************************************************)
(* Lemmas.                                                                 *)
(***************************************************************************)
\* What a list is with one more element: the migration that is committed.
LEMMA Added ==
  ASSUME NEW S, NEW s \in Seq(S), NEW v \in S
  PROVE  /\ s \o <<v>> \in Seq(S)
         /\ Len(s \o <<v>>) = Len(s) + 1
         /\ \A i \in 1..Len(s) : (s \o <<v>>)[i] = s[i]
         /\ (s \o <<v>>)[Len(s) + 1] = v
  <1> DEFINE t == <<v>>
  <1>1. t \in Seq(S) /\ Len(t) = 1 /\ t[1] = v
    OBVIOUS
  <1> HIDE DEF t
  <1>2. /\ s \o t \in Seq(S)
        /\ Len(s \o t) = Len(s) + Len(t)
        /\ \A i \in 1..Len(s) + Len(t) :
             (s \o t)[i] = IF i <= Len(s) THEN s[i] ELSE t[i - Len(s)]
    BY <1>1, ConcatProperties, Zenon
  <1>3. Len(s) \in Nat
    BY LenProperties
  <1>4. \A i \in 1..Len(s) : (s \o t)[i] = s[i]
    <2>1. \A i \in 1..Len(s) : i \in 1..Len(s) + Len(t) /\ i <= Len(s)
      BY <1>1, <1>3
    <2> QED
      BY <1>2, <2>1
  <1>5. (s \o t)[Len(s) + 1] = v
    <2>1. Len(s) + 1 \in 1..Len(s) + Len(t) /\ ~(Len(s) + 1 <= Len(s)) /\ (Len(s) + 1) - Len(s) = 1
      BY <1>1, <1>3
    <2> QED
      BY <1>1, <1>2, <2>1
  <1> QED
    BY <1>1, <1>2, <1>4, <1>5 DEF t

USE StartupAssumption

\* Names yields pool names that goincus may create.
LEMMA NamesType ==
  ASSUME NEW w \in Pool
  PROVE  Names(w) \in Seq(Elements(Fallback))
  <1> DEFINE E == Elements(Fallback)
             i == CHOOSE i \in DOMAIN Fallback : Fallback[i] = w
  <1>1. CASE w = Default
    BY <1>1 DEF Names
  <1>2. CASE w # Default
    <2>1. w \in E
      BY <1>2 DEF Pool
    <2>2. i \in DOMAIN Fallback
      BY <2>1 DEF Elements
    <2>3. i \in 1..Len(Fallback) /\ Len(Fallback) \in Nat
      BY <2>2, LenProperties
    <2>4. \A j \in 1..Len(Fallback) : Fallback[j] \in E
      BY LenProperties DEF Elements
    <2> HIDE DEF i, E
    <2>5. SubSeq(Fallback, 1, i - 1) \in Seq(E)
      <3>1. \A j \in 1..(i - 1) : Fallback[j] \in E
        BY <2>3, <2>4
      <3> QED
        BY <2>3, <3>1, SubSeqProperties
    <2>6. SubSeq(Fallback, i + 1, Len(Fallback)) \in Seq(E)
      <3>1. \A j \in (i + 1)..Len(Fallback) : Fallback[j] \in E
        BY <2>3, <2>4
      <3> QED
        BY <2>3, <3>1, SubSeqProperties
    <2>7. <<w>> \in Seq(E)
      BY <2>1
    <2>8. (<<w>> \o SubSeq(Fallback, 1, i - 1)) \o SubSeq(Fallback, i + 1, Len(Fallback))
            \in Seq(E)
      BY <2>5, <2>6, <2>7, ConcatProperties
    <2> QED
      BY <1>2, <2>8 DEF Names, i, E
  <1> QED
    BY <1>1, <1>2

\* The first of a list of names is a pool, and the others are a list of names.
LEMMA NextType ==
  ASSUME TypeOK, NEW a \in Actor, todo[a] # <<>>
  PROVE  Head(todo[a]) \in Pool /\ Tail(todo[a]) \in Seq(Elements(Fallback))
  BY HeadTailProperties DEF TypeOK, Pool

\* A goroutine's list of names is replaced.
LEMMA NamesLeft ==
  ASSUME TypeOK, NEW a \in Actor, NEW s \in Seq(Elements(Fallback)),
         todo' = [todo EXCEPT ![a] = s]
  PROVE  todo' \in [Actor -> Seq(Elements(Fallback))]
  BY DEF TypeOK

\* Where a creation can be.
RequestPlace == {"idle", "done", "pool", "install", "try", "make", "network", "others",
                 "makeNet", "harden", "profile", "address", "create"}

\* A goroutine that moves, the others stay.
LEMMA Moves ==
  ASSUME TypeOK, NEW a \in Actor, NEW l \in Location, Goto(a, l)
  PROVE  pc' \in [Actor -> Location] /\ pc'[a] = l /\ \A b \in Actor \ {a} : pc'[b] = pc[b]
  BY DEF TypeOK, Goto

\* While runServe is not serving no creation is under way, so its steps keep PathInv.
LEMMA ServerMoves ==
  ASSUME TypeOK, PathInv, ~Serving,
         NEW l \in Location \ {"idle", "done", "address", "create"}, Goto(Server, l),
         l = "make" => todo'[Server] # <<>>, \A r \in Request : todo'[r] = todo[r]
  PROVE  /\ PathInv'
         /\ pc' \in [Actor -> Location]
         /\ pc'[Server] = l
         /\ \A r \in Request : pc'[r] = pc[r] /\ pc[r] \in {"idle", "done"}
  <1>1. Server \in Actor /\ Request \subseteq Actor /\ \A r \in Request : r # Server
    BY DEF Actor
  <1>2. pc' \in [Actor -> Location] /\ pc'[Server] = l /\ \A r \in Request : pc'[r] = pc[r]
    BY <1>1, Moves
  <1>3. \A r \in Request : pc[r] \in {"idle", "done"}
    BY DEF PathInv
  <1> QED
    BY <1>1, <1>2, <1>3 DEF PathInv, Actor

\* A creation moves only while the server serves.
LEMMA RequestMoves ==
  ASSUME TypeOK, PathInv, Serving, NEW r \in Request, NEW l \in RequestPlace, Goto(r, l),
         l = "make" => todo'[r] # <<>>, \A b \in Actor \ {r} : todo'[b] = todo[b]
  PROVE  /\ PathInv'
         /\ pc' \in [Actor -> Location]
         /\ pc'[r] = l /\ pc'[Server] = "serving"
         /\ \A q \in Request : q # r => pc'[q] = pc[q]
  <1>1. Server \in Actor /\ Request \subseteq Actor /\ r # Server
    BY DEF Actor
  <1>2. pc' \in [Actor -> Location] /\ pc'[r] = l /\ \A b \in Actor \ {r} : pc'[b] = pc[b]
    BY <1>1, Moves DEF RequestPlace, Location
  <1>3. pc'[Server] = "serving"
    BY <1>1, <1>2 DEF Serving
  <1> QED
    BY <1>1, <1>2, <1>3 DEF PathInv, RequestPlace, Serving

\* The schema stays as it is while runServe is past the migrations or ends.
LEMMA SchemaStays ==
  ASSUME MigrationInv, UNCHANGED dbVars,
         \/ pc'[Server] \in {pc[Server], "down"}
         \/ /\ pc[Server] \notin {"down", "migrate", "commit"}
            /\ pc'[Server] \notin {"down", "migrate", "commit"}
  PROVE  MigrationInv'
  BY DEF MigrationInv, dbVars

\* The failures that are counted stay in their bound.
LEMMA Counted ==
  ASSUME TypeOK, Ok \/ \E f \in Failure : Fault(f)
  PROVE  faults' \in 0..MaxFaults
  BY DEF TypeOK, Ok, Fault

\* A step of runServe that only moves it, along the path or back to the beginning.
LEMMA ServerGoes ==
  ASSUME IInv, ~Serving,
         NEW f \in Failure, NEW l \in {"isolate", "unprivileged", "pool", "serving"},
         <<pc[Server], l>> \in {<<"connect", "isolate">>, <<"isolate", "unprivileged">>,
                                <<"unprivileged", "pool">>, <<"sync", "serving">>},
         Attempt(Server, f, l), UNCHANGED <<cfgVars, hostVars, dbVars, goVars>>
  PROVE  IInv'
  <1> USE DEF IInv
  <1>1. PICK k \in {l, "down"} : Goto(Server, k) /\ misled' = misled
    BY DEF Attempt, GiveUp, Ok
  <1>2. k \in Location \ {"idle", "done", "address", "create"} /\ k # "make"
    BY <1>1 DEF Location
  <1>3. /\ PathInv'
        /\ pc' \in [Actor -> Location]
        /\ pc'[Server] = k
        /\ \A r \in Request : pc'[r] = pc[r] /\ pc[r] \in {"idle", "done"}
    BY <1>1, <1>2, ServerMoves DEF goVars
  <1>4. faults' \in 0..MaxFaults
    BY Counted DEF Attempt
  <1>5. TypeOK'
    BY <1>1, <1>3, <1>4 DEF TypeOK, cfgVars, hostVars, dbVars, goVars
  <1>6. MigrationInv'
    BY <1>1, <1>3, SchemaStays
  <1>7. PlacedInv'
    BY <1>1, <1>3 DEF PlacedInv, DiskIsolated, Placed, cfgVars, hostVars
  <1>8. PoolHome => PoolHome'
    BY <1>1, <1>3 DEF PoolHome, cfgVars, hostVars
  <1>9. NetHome => NetHome'
    BY <1>1, <1>3 DEF NetHome, IsHome, Exists, cfgVars, hostVars, goVars
  <1> QED
    BY <1>1, <1>3, <1>5, <1>6, <1>7, <1>8, <1>9 DEF HomeInv

\* config.Load: the server starts, from the file.
LEMMA LoadStep ==
  ASSUME IInv, Load
  PROVE  IInv'
  <1> USE DEF IInv
  <1>1. ~Serving /\ Goto(Server, "migrate") /\ misled' = misled
    BY DEF Load, Serving, Ok
  <1>2. /\ PathInv'
        /\ pc' \in [Actor -> Location]
        /\ pc'[Server] = "migrate"
        /\ \A r \in Request : pc'[r] = pc[r] /\ pc[r] \in {"idle", "done"}
    BY <1>1, ServerMoves DEF Load, Location, goVars
  <1>3. TypeOK'
    BY <1>2 DEF TypeOK, Load, Ok, hostVars, dbVars, goVars
  <1>4. MigrationInv' /\ PlacedInv'
    BY <1>2 DEF MigrationInv, PlacedInv, DiskIsolated, Placed, Load, hostVars, dbVars
  <1>5. PoolHome => PoolHome'
    BY <1>2 DEF PoolHome, Load, hostVars
  <1>6. NetHome => NetHome'
    BY <1>2 DEF NetHome, IsHome, Exists, Load, hostVars, goVars
  <1> QED
    BY <1>1, <1>2, <1>3, <1>4, <1>5, <1>6 DEF HomeInv

\* A newer release has more files.
LEMMA UpgradeStep ==
  ASSUME IInv, Upgrade
  PROVE  IInv'
  <1> USE DEF IInv
  <1>1. misled' = misled /\ pc' = pc /\ todo' = todo
    BY DEF Upgrade, Ok, goVars
  <1>2. TypeOK'
    BY DEF TypeOK, Upgrade, Ok, cfgVars, hostVars, goVars
  <1>3. PathInv'
    BY <1>1 DEF PathInv, Serving
  <1>4. MigrationInv'
    <2>1. Len(applied) \in Nat /\ release \in Nat
      BY DEF TypeOK
    <2> QED
      BY <2>1 DEF MigrationInv, Upgrade
  <1>5. PlacedInv'
    BY DEF PlacedInv, DiskIsolated, Upgrade, cfgVars, hostVars
  <1>6. HomeInv'
    BY <1>1 DEF HomeInv, PoolHome, NetHome, IsHome, Exists, Upgrade, cfgVars, hostVars, goVars
  <1> QED
    BY <1>2, <1>3, <1>4, <1>5, <1>6

\* Migrate looks for the next file and executes it, and is done when there is none.
LEMMA ApplyMigrationStep ==
  ASSUME IInv, ApplyMigration
  PROVE  IInv'
  <1> USE DEF IInv
  <1>1. PICK l \in {"commit", "connect", "down"} : Goto(Server, l)
    BY DEF ApplyMigration, GiveUp
  <1>2. ~Serving /\ misled' = misled
    BY DEF ApplyMigration, Serving, Ok
  <1>3. /\ PathInv'
        /\ pc' \in [Actor -> Location]
        /\ pc'[Server] = l
        /\ \A r \in Request : pc'[r] = pc[r] /\ pc[r] \in {"idle", "done"}
    BY <1>1, <1>2, ServerMoves DEF ApplyMigration, Location, goVars
  <1>4. faults' \in 0..MaxFaults
    BY Counted DEF ApplyMigration, Failure
  <1>5. tx' \in Seq(1..Versions)
    <2>1. \A v \in 1..release : <<v>> \in Seq(1..Versions)
      BY DEF TypeOK
    <2> QED
      BY <2>1 DEF ApplyMigration, TypeOK
  <1>6. TypeOK'
    BY <1>2, <1>3, <1>4, <1>5 DEF TypeOK, ApplyMigration, cfgVars, hostVars, goVars
  <1>7. MigrationInv'
    <2>1. Len(applied) \in Nat /\ release \in Nat
      BY DEF TypeOK
    <2>2. ASSUME NEW v \in 1..release, Pending(v)
          PROVE  v = Len(applied) + 1 /\ Len(applied) < release
      <3>1. (1..release) \ recorded = (Len(applied) + 1)..release
        BY <2>1 DEF MigrationInv
      <3> QED
        BY <2>1, <2>2, <3>1 DEF Pending
    <2>3. CASE \E v \in 1..release : Pending(v) /\ tx' = <<v>> /\ Goto(Server, "commit")
      <3>1. pc'[Server] = "commit"
        BY <2>3, Moves DEF Actor, Location
      <3> QED
        BY <2>2, <2>3, <3>1 DEF MigrationInv, ApplyMigration
    <2>4. CASE recorded = 1..release /\ Goto(Server, "connect")
      <3>1. pc'[Server] = "connect"
        BY <2>4, Moves DEF Actor, Location
      <3>2. Len(applied) = release
        BY <2>1, <2>4 DEF MigrationInv
      <3> QED
        BY <3>1, <3>2 DEF MigrationInv, ApplyMigration
    <2>5. CASE GiveUp(Server)
      <3>1. pc'[Server] = "down"
        BY <2>5, Moves DEF Actor, Location, GiveUp
      <3> QED
        BY <3>1 DEF MigrationInv, ApplyMigration
    <2> QED
      BY <2>3, <2>4, <2>5 DEF ApplyMigration
  <1>8. PlacedInv'
    BY <1>3 DEF PlacedInv, DiskIsolated, Placed, ApplyMigration, cfgVars, hostVars
  <1>9. PoolHome => PoolHome'
    BY <1>3 DEF PoolHome, ApplyMigration, cfgVars, hostVars
  <1>10. NetHome => NetHome'
    BY <1>3 DEF NetHome, IsHome, Exists, ApplyMigration, cfgVars, hostVars, goVars
  <1> QED
    BY <1>2, <1>3, <1>6, <1>7, <1>8, <1>9, <1>10 DEF HomeInv

\* The file's effects and its row are committed together.
LEMMA CommitMigrationStep ==
  ASSUME IInv, CommitMigration
  PROVE  IInv'
  <1> USE DEF IInv
  <1>1. PICK l \in {"migrate", "down"} : Goto(Server, l)
    BY DEF CommitMigration, GiveUp
  <1>2. ~Serving /\ misled' = misled
    BY DEF CommitMigration, Serving, Ok
  <1>3. /\ PathInv'
        /\ pc' \in [Actor -> Location]
        /\ pc'[Server] = l
        /\ \A r \in Request : pc'[r] = pc[r] /\ pc[r] \in {"idle", "done"}
    BY <1>1, <1>2, ServerMoves DEF CommitMigration, Location, goVars
  <1>4. faults' \in 0..MaxFaults
    BY Counted DEF CommitMigration, Failure
  <1>5. /\ Len(applied) \in Nat /\ release \in Nat /\ release <= Versions
        /\ tx = <<Len(applied) + 1>> /\ Len(applied) < release
    BY DEF TypeOK, MigrationInv, CommitMigration
  <1>6. /\ applied' \in Seq(1..Versions)
        /\ recorded' \subseteq 1..Versions
        /\ MigrationInv'
    <2>1. CASE UNCHANGED <<applied, recorded>>
      BY <1>3, <2>1 DEF TypeOK, MigrationInv, CommitMigration
    <2>2. CASE /\ \E v \in 1..release : Pending(v) /\ recorded' = recorded \cup {v}
               /\ applied' = applied \o tx
      <3>1. PICK v \in 1..release : Pending(v) /\ recorded' = recorded \cup {v}
        BY <2>2
      <3>2. v = Len(applied) + 1
        <4>1. (1..release) \ recorded = (Len(applied) + 1)..release
          BY <1>5 DEF MigrationInv
        <4> QED
          BY <1>5, <3>1, <4>1 DEF Pending
      <3>3. applied' = applied \o <<v>> /\ applied \in Seq(1..Versions) /\ v \in 1..Versions
        BY <1>5, <2>2, <3>2 DEF TypeOK
      <3>4. /\ applied' \in Seq(1..Versions)
            /\ Len(applied') = Len(applied) + 1
            /\ \A i \in 1..Len(applied) : applied'[i] = applied[i]
            /\ applied'[Len(applied) + 1] = v
        BY <3>3, Added
      <3>5. \A i \in DOMAIN applied' : applied'[i] = i
        <4>1. DOMAIN applied' = 1..Len(applied) + 1 /\ DOMAIN applied = 1..Len(applied)
          BY <3>3, <3>4, LenProperties
        <4>2. \A i \in 1..Len(applied) + 1 : i \in 1..Len(applied) \/ i = Len(applied) + 1
          BY <1>5
        <4>3. \A i \in 1..Len(applied) : applied[i] = i
          BY <4>1 DEF MigrationInv
        <4> QED
          BY <3>2, <3>4, <4>1, <4>2, <4>3
      <3>6. recorded' = 1..Len(applied') /\ recorded' \subseteq 1..Versions
        BY <1>5, <3>1, <3>2, <3>4 DEF MigrationInv
      <3> QED
        BY <1>3, <1>5, <3>4, <3>5, <3>6 DEF MigrationInv, CommitMigration
    <2> QED
      BY <2>1, <2>2 DEF CommitMigration
  <1>7. tx' \in Seq(1..Versions)
    BY DEF CommitMigration
  <1>8. TypeOK'
    BY <1>2, <1>3, <1>4, <1>6, <1>7 DEF TypeOK, CommitMigration, cfgVars, hostVars, goVars
  <1>9. PlacedInv'
    BY <1>3 DEF PlacedInv, DiskIsolated, Placed, CommitMigration, cfgVars, hostVars
  <1>10. PoolHome => PoolHome'
    BY <1>3 DEF PoolHome, CommitMigration, cfgVars, hostVars
  <1>11. NetHome => NetHome'
    BY <1>3 DEF NetHome, IsHome, Exists, CommitMigration, cfgVars, hostVars, goVars
  <1> QED
    BY <1>2, <1>3, <1>6, <1>8, <1>9, <1>10, <1>11 DEF HomeInv

\* The pool that was chosen goes to the file, unless the file names it.
LEMMA SaveConfigStep ==
  ASSUME IInv, SaveConfig \/ WriteConfig
  PROVE  IInv'
  <1> USE DEF IInv
  <1>1. PICK l \in {"sync", "write"} :
          /\ Goto(Server, l)
          /\ l = "sync" /\ ~misled' => file' = pool
          /\ l = "write" => pool # file
    BY DEF SaveConfig, WriteConfig, SaveFails
  <1>2. ~Serving /\ (~misled' => ~misled) /\ pc[Server] \in {"save", "write"}
    BY DEF SaveConfig, WriteConfig, SaveFails, Serving, Ok
  <1>3. /\ PathInv'
        /\ pc' \in [Actor -> Location]
        /\ pc'[Server] = l
        /\ \A r \in Request : pc'[r] = pc[r] /\ pc[r] \in {"idle", "done"}
    BY <1>1, <1>2, ServerMoves DEF SaveConfig, WriteConfig, Location, goVars
  <1>4. faults' \in 0..MaxFaults
    BY Counted DEF SaveConfig, WriteConfig, SaveFails, Failure
  <1>5. TypeOK'
    BY <1>3, <1>4 DEF TypeOK, SaveConfig, WriteConfig, SaveFails, Ok, hostVars, dbVars, goVars
  <1>6. MigrationInv'
    BY <1>2, <1>3, SchemaStays DEF SaveConfig, WriteConfig
  <1>7. PlacedInv'
    BY <1>2, <1>3 DEF PlacedInv, DiskIsolated, Placed, SaveConfig, WriteConfig, hostVars
  <1>8. PoolHome /\ ~misled' => PoolHome'
    BY <1>1, <1>2, <1>3 DEF PoolHome, SaveConfig, WriteConfig, hostVars
  <1>9. NetHome => NetHome'
    BY <1>2, <1>3 DEF NetHome, IsHome, Exists, SaveConfig, WriteConfig, hostVars, goVars
  <1> QED
    BY <1>2, <1>3, <1>5, <1>6, <1>7, <1>8, <1>9 DEF HomeInv

\* A creation begins.
LEMMA ReceiveStep ==
  ASSUME IInv, NEW r \in Request, Receive(r)
  PROVE  IInv'
  <1> USE DEF IInv
  <1>1. Serving /\ Goto(r, "pool") /\ misled' = misled
    BY DEF Receive, Serving, Ok
  <1>2. /\ PathInv'
        /\ pc' \in [Actor -> Location]
        /\ pc'[r] = "pool" /\ pc'[Server] = "serving"
        /\ \A q \in Request : q # r => pc'[q] = pc[q]
    BY <1>1, RequestMoves DEF Receive, RequestPlace, goVars
  <1>3. TypeOK'
    BY <1>2 DEF TypeOK, Receive, Ok, cfgVars, hostVars, dbVars, goVars
  <1>4. MigrationInv'
    BY <1>1, <1>2, SchemaStays DEF Receive, Serving
  <1>5. PlacedInv'
    BY <1>1, <1>2 DEF PlacedInv, DiskIsolated, Placed, Receive, Serving, cfgVars, hostVars
  <1>6. PoolHome => PoolHome'
    BY <1>1, <1>2 DEF PoolHome, Receive, Serving, cfgVars, hostVars
  <1>7. NetHome => NetHome'
    BY <1>1, <1>2 DEF NetHome, IsHome, Exists, Receive, Serving, cfgVars, hostVars, goVars
  <1> QED
    BY <1>1, <1>2, <1>3, <1>4, <1>5, <1>6, <1>7 DEF HomeInv

\* A container gets an address, which is the client's network's.
LEMMA AllocateContainerIPv4Step ==
  ASSUME IInv, NEW r \in Request, AllocateContainerIPv4(r)
  PROVE  IInv'
  <1> USE DEF IInv
  <1>1. /\ Serving /\ (~misled' => ~misled)
        /\ \A q \in Actor \ {r} : want'[q] = want[q]
        /\ \A n \in Net : Exists(n)' = Exists(n)
    BY DEF AllocateContainerIPv4, PathInv, Ok, TypeOK, Exists
  <1>2. PICK l \in {"create", "done"} : Goto(r, l) /\ (l = "create" => want'[r] = net)
    <2>1. r \in Actor /\ r # Server /\ DOMAIN want = Actor
      BY DEF Actor, TypeOK
    <2> QED
      BY <2>1 DEF AllocateContainerIPv4, GiveUp
  <1>3. /\ PathInv'
        /\ pc' \in [Actor -> Location]
        /\ pc'[r] = l /\ pc'[Server] = "serving"
        /\ \A q \in Request : q # r => pc'[q] = pc[q]
    BY <1>1, <1>2, RequestMoves DEF AllocateContainerIPv4, RequestPlace
  <1>4. faults' \in 0..MaxFaults
    BY Counted DEF AllocateContainerIPv4, Failure
  <1>5. TypeOK'
    <2>1. /\ misled' \in BOOLEAN
          /\ nets' \in [Net -> {"none", "bare", "nat"}]
          /\ want' \in [Actor -> Net]
      BY DEF AllocateContainerIPv4, Ok, TypeOK
    <2> QED
      BY <1>3, <1>4, <2>1 DEF TypeOK, AllocateContainerIPv4, cfgVars, dbVars
  <1>6. MigrationInv'
    BY <1>1, <1>3, SchemaStays DEF AllocateContainerIPv4, Serving
  <1>7. PlacedInv'
    BY <1>1, <1>3 DEF PlacedInv, DiskIsolated, Placed, AllocateContainerIPv4, Serving, cfgVars
  <1>8. PoolHome => PoolHome'
    BY <1>1, <1>2, <1>3 DEF PoolHome, AllocateContainerIPv4, Serving, cfgVars
  <1>9. NetHome => NetHome'
    <2>1. \A n \in Net : IsHome(n)' = IsHome(n)
      BY <1>1 DEF IsHome
    <2>2. net' = net /\ guests' = guests /\ net \in Net /\ \A g \in guests : g.net \in Net
      BY DEF AllocateContainerIPv4, cfgVars, TypeOK, Guest
    <2> QED
      BY <1>1, <1>2, <1>3, <2>1, <2>2 DEF NetHome, Serving, Actor
  <1> QED
    BY <1>1, <1>3, <1>5, <1>6, <1>7, <1>8, <1>9 DEF HomeInv

\* The container is created on the client's pool and network.
LEMMA CreateContainerStep ==
  ASSUME IInv, NEW r \in Request, CreateContainer(r)
  PROVE  IInv'
  <1> USE DEF IInv
  <1>1. Serving /\ Goto(r, "done") /\ misled' = misled
    BY DEF CreateContainer, PathInv, Ok
  <1>2. /\ PathInv'
        /\ pc' \in [Actor -> Location]
        /\ pc'[r] = "done" /\ pc'[Server] = "serving"
        /\ \A q \in Request : q # r => pc'[q] = pc[q]
    BY <1>1, RequestMoves DEF CreateContainer, RequestPlace, goVars
  <1>3. faults' \in 0..MaxFaults
    BY Counted DEF CreateContainer, Failure
  <1> DEFINE h == [pool |-> pool, net |-> net, addr |-> want[r]]
  <1>4. h \in Guest /\ guests' \subseteq guests \cup {h}
    BY DEF CreateContainer, TypeOK, Guest, Actor
  <1>5. TypeOK'
    BY <1>1, <1>2, <1>3, <1>4 DEF TypeOK, CreateContainer, cfgVars, dbVars, goVars
  <1>6. MigrationInv'
    BY <1>1, <1>2, SchemaStays DEF CreateContainer, Serving
  <1>7. PlacedInv'
    BY <1>1, <1>2, <1>4 DEF PlacedInv, DiskIsolated, Placed, CreateContainer, Serving, cfgVars
  <1>8. PoolHome => PoolHome'
    BY <1>1, <1>2, <1>4 DEF PoolHome, CreateContainer, Serving, cfgVars
  <1>9. NetHome => NetHome'
    <2>1. \A n \in Net : IsHome(n)' = IsHome(n)
      BY DEF IsHome, Exists, CreateContainer
    <2>2. NetHome => IsHome(net) /\ h.addr = h.net /\ h.net = net
      BY <1>1 DEF NetHome, CreateContainer, Serving
    <2>3. net' = net /\ want' = want /\ net \in Net /\ \A g \in guests : g.net \in Net
      BY DEF CreateContainer, cfgVars, goVars, TypeOK, Guest
    <2> HIDE DEF h
    <2> QED
      BY <1>1, <1>2, <1>4, <2>1, <2>2, <2>3 DEF NetHome, Serving
  <1> QED
    BY <1>1, <1>2, <1>5, <1>6, <1>7, <1>8, <1>9 DEF HomeInv

\* The process ends, whether it dies or returns, and whatever it was doing.
LEMMA EndStep ==
  ASSUME IInv, Crash \/ ListenFails
  PROVE  IInv'
  <1> USE DEF IInv
  <1>1. PICK l \in {"down", "ended"} : End(l) /\ (l = "ended" => pc[Server] = "serving")
    BY DEF Crash, ListenFails
  <1>2. /\ misled' = misled
        /\ pc' \in [Actor -> Location] /\ pc'[Server] = l
        /\ \A r \in Request : pc'[r] \in {"idle", "done"}
    BY <1>1 DEF End, Actor, Location
  <1>3. faults' \in 0..MaxFaults
    BY Counted DEF Crash, ListenFails, Failure
  <1>4. TypeOK'
    <2>1. todo' \in [Actor -> Seq(Elements(Fallback))] /\ tx' \in Seq(1..Versions)
      BY <1>1 DEF End
    <2> QED
      BY <1>1, <1>2, <1>3, <2>1 DEF TypeOK, End, cfgVars, hostVars
  <1>5. PathInv'
    BY <1>2 DEF PathInv, Actor
  <1>6. MigrationInv'
    BY <1>1, <1>2 DEF MigrationInv, End
  <1>7. PlacedInv'
    BY <1>1, <1>2 DEF PlacedInv, DiskIsolated, Placed, End, cfgVars, hostVars
  <1>8. PoolHome => PoolHome'
    BY <1>1, <1>2 DEF PoolHome, End, cfgVars, hostVars
  <1>9. NetHome => NetHome'
    BY <1>1, <1>2 DEF NetHome, IsHome, Exists, End, cfgVars, hostVars
  <1> QED
    BY <1>2, <1>4, <1>5, <1>6, <1>7, <1>8, <1>9 DEF HomeInv

\* The operator starts the server again.
LEMMA RestartStep ==
  ASSUME IInv, Restart
  PROVE  IInv'
  <1> USE DEF IInv
  <1>1. ~Serving /\ Goto(Server, "down") /\ misled' = misled
    BY DEF Restart, Serving, Ok
  <1>2. /\ PathInv'
        /\ pc' \in [Actor -> Location]
        /\ pc'[Server] = "down"
        /\ \A r \in Request : pc'[r] = pc[r] /\ pc[r] \in {"idle", "done"}
    BY <1>1, ServerMoves DEF Restart, Location, goVars
  <1>3. TypeOK'
    BY <1>2 DEF TypeOK, Restart, Ok, cfgVars, hostVars, dbVars, goVars
  <1>4. MigrationInv' /\ PlacedInv'
    BY <1>2 DEF MigrationInv, PlacedInv, DiskIsolated, Placed, Restart, cfgVars, hostVars, dbVars
  <1>5. PoolHome => PoolHome'
    BY <1>2 DEF PoolHome, Restart, cfgVars, hostVars
  <1>6. NetHome => NetHome'
    BY <1>2 DEF NetHome, IsHome, Exists, Restart, cfgVars, hostVars, goVars
  <1> QED
    BY <1>1, <1>2, <1>3, <1>4, <1>5, <1>6 DEF HomeInv

\* The steps of EnsureInfrastructure that every goroutine takes, server or request.
InfraPlace == {"pool", "install", "try", "make", "network", "others", "makeNet", "harden",
               "profile"}

\* A step of EnsureInfrastructure moves its goroutine, and keeps the paths and the schema.
LEMMA InfraMoves ==
  ASSUME IInv, NEW a \in Actor, pc[a] \in InfraPlace,
         NEW l \in InfraPlace \cup {"save", "address", "down", "done"}, Goto(a, l),
         l = "save" \/ l = "down" => a = Server,
         l = "address" \/ l = "done" => a # Server,
         l = "make" => todo'[a] # <<>>, \A b \in Actor \ {a} : todo'[b] = todo[b],
         UNCHANGED dbVars
  PROVE  /\ PathInv' /\ MigrationInv'
         /\ pc' \in [Actor -> Location]
         /\ pc'[a] = l
         /\ \A b \in Actor \ {a} : pc'[b] = pc[b]
         /\ a # Server => /\ a \in Request
                          /\ Serving /\ pc'[Server] = "serving"
         /\ a = Server => /\ pc'[Server] = l /\ ~Serving
                          /\ \A r \in Request : pc'[r] = pc[r] /\ pc[r] \in {"idle", "done"}
  <1> USE DEF IInv
  <1>1. \A r \in Request : r # Server /\ r \in Actor
    BY DEF Actor
  <1>2. l \in Location
    BY DEF InfraPlace, Location
  <1>3. pc' \in [Actor -> Location] /\ pc'[a] = l /\ \A b \in Actor \ {a} : pc'[b] = pc[b]
    BY <1>2, Moves
  <1>4. CASE a = Server
    <2>1. ~Serving
      BY <1>4 DEF InfraPlace, Serving
    <2>2. /\ PathInv'
          /\ pc'[Server] = l
          /\ \A r \in Request : pc'[r] = pc[r] /\ pc[r] \in {"idle", "done"}
      <3>1. l \in Location \ {"idle", "done", "address", "create"}
        BY <1>2, <1>4 DEF InfraPlace
      <3> QED
        BY <1>1, <1>4, <2>1, <3>1, ServerMoves
    <2>3. MigrationInv'
      BY <1>4, <2>2, SchemaStays DEF InfraPlace
    <2> QED
      BY <1>3, <1>4, <2>1, <2>2, <2>3
  <1>5. CASE a # Server
    <2>1. a \in Request /\ Serving
      BY <1>1, <1>5 DEF Actor, PathInv, InfraPlace
    <2>2. PathInv' /\ pc'[Server] = "serving"
      <3>1. l \in RequestPlace
        BY <1>5 DEF InfraPlace, RequestPlace
      <3> QED
        BY <2>1, <3>1, RequestMoves
    <2>3. MigrationInv'
      BY <2>1, <2>2, SchemaStays DEF Serving
    <2> QED
      BY <1>3, <1>5, <2>1, <2>2, <2>3
  <1> QED
    BY <1>4, <1>5

\* The client's pool is taken if it isolates; else every name will be tried.
LEMMA FindPoolStep ==
  ASSUME IInv, NEW a \in Actor, FindPool(a)
  PROVE  IInv'
  <1> USE DEF IInv
  <1>1. PICK l \in {"network", "install"} :
          /\ Goto(a, l)
          /\ l = "network" => pools[pool] = "isolating"
          /\ l = "install" /\ ~misled' => pools[pool] # "isolating"
    BY DEF FindPool, LookupFails
  <1>2. /\ ~misled' => ~misled
        /\ \A b \in Actor \ {a} : todo'[b] = todo[b]
        /\ UNCHANGED <<cfgVars, hostVars, dbVars, want>>
    BY DEF FindPool, LookupFails, Ok, TypeOK
  <1>3. /\ PathInv' /\ MigrationInv'
        /\ pc' \in [Actor -> Location]
        /\ pc'[a] = l
        /\ \A b \in Actor \ {a} : pc'[b] = pc[b]
        /\ a # Server => /\ a \in Request
                         /\ Serving /\ pc'[Server] = "serving"
        /\ a = Server => /\ pc'[Server] = l /\ ~Serving
                         /\ \A r \in Request : pc'[r] = pc[r] /\ pc[r] \in {"idle", "done"}
    <2>1. pc[a] \in InfraPlace
      BY DEF FindPool, InfraPlace
    <2> QED
      BY <1>1, <1>2, <2>1, InfraMoves DEF InfraPlace
  <1>4. TypeOK'
    <2>1. faults' \in 0..MaxFaults /\ misled' \in BOOLEAN
      BY Counted DEF FindPool, LookupFails, Failure, Ok, TypeOK
    <2>2. todo' \in [Actor -> Seq(Elements(Fallback))]
      BY NamesType DEF FindPool, TypeOK
    <2> QED
      BY <1>2, <1>3, <2>1, <2>2 DEF TypeOK, cfgVars, hostVars, dbVars
  <1>5. PlacedInv'
    BY <1>1, <1>2, <1>3 DEF PlacedInv, DiskIsolated, Placed, Serving, cfgVars, hostVars
  <1>6. PoolHome /\ ~misled' => PoolHome'
    BY <1>1, <1>2, <1>3 DEF PoolHome, PlacedInv, Placed, Serving, Actor, cfgVars, hostVars
  <1>7. NetHome => NetHome'
    BY <1>1, <1>2, <1>3 DEF NetHome, IsHome, Exists, Serving, Actor, cfgVars, hostVars
  <1> QED
    BY <1>2, <1>3, <1>4, <1>5, <1>6, <1>7 DEF HomeInv

\* Packages of the host.
LEMMA EnsureStorageHostPackagesStep ==
  ASSUME IInv, NEW a \in Actor, EnsureStorageHostPackages(a)
  PROVE  IInv'
  <1> USE DEF IInv
  <1>1. /\ misled' = misled /\ pc[a] = "install" /\ Goto(a, "try")
        /\ UNCHANGED <<cfgVars, pools, nets, profile, guests, dbVars, goVars>>
    BY DEF EnsureStorageHostPackages, Ok
  <1>2. /\ PathInv' /\ MigrationInv'
        /\ pc' \in [Actor -> Location]
        /\ pc'[a] = "try"
        /\ \A b \in Actor \ {a} : pc'[b] = pc[b]
        /\ a # Server => /\ a \in Request
                         /\ Serving /\ pc'[Server] = "serving"
        /\ a = Server => /\ pc'[Server] = "try" /\ ~Serving
                         /\ \A r \in Request : pc'[r] = pc[r] /\ pc[r] \in {"idle", "done"}
    BY <1>1, InfraMoves DEF InfraPlace, goVars
  <1>3. TypeOK'
    <2>1. faults' \in 0..MaxFaults /\ tools' \in BOOLEAN
      BY Counted DEF EnsureStorageHostPackages, Failure, TypeOK
    <2> QED
      BY <1>1, <1>2, <2>1 DEF TypeOK, cfgVars, dbVars, goVars
  <1>4. PlacedInv'
    BY <1>1, <1>2 DEF PlacedInv, DiskIsolated, Placed, Serving, cfgVars
  <1>5. PoolHome => PoolHome'
    BY <1>1, <1>2 DEF PoolHome, cfgVars, Actor
  <1>6. NetHome => NetHome'
    BY <1>1, <1>2 DEF NetHome, IsHome, Exists, cfgVars, goVars, Actor, Serving
  <1> QED
    BY <1>1, <1>2, <1>3, <1>4, <1>5, <1>6 DEF HomeInv

\* The next name is taken when it isolates, skipped when it does not, and made when there
\* seems to be none; with no name left the goroutine gives up.
LEMMA EnsureQuotaCapablePoolStep ==
  ASSUME IInv, NEW a \in Actor, EnsureQuotaCapablePool(a)
  PROVE  IInv'
  <1> USE DEF IInv
  <1> DEFINE p == Head(todo[a])
  <1>1. PICK l \in {"network", "try", "make", "down", "done"} :
          /\ Goto(a, l) \/ (l = "try" /\ pc' = pc)
          /\ l = "network" => pools[p] = "isolating" /\ pool' = p /\ todo[a] # <<>>
          /\ l # "network" => pool' = pool
          /\ l = "make" => todo[a] # <<>> /\ todo' = todo
          /\ l = "down" => a = Server
          /\ l = "done" => a # Server
    BY DEF EnsureQuotaCapablePool, GiveUp
  <1>2. /\ ~misled' => ~misled
        /\ pc[a] = "try"
        /\ \A b \in Actor \ {a} : todo'[b] = todo[b]
        /\ UNCHANGED <<file, net, hostVars, dbVars, want>>
    BY DEF EnsureQuotaCapablePool, LookupFails, Ok, TypeOK, NextName
  <1>3. Goto(a, l)
    BY <1>1, <1>2 DEF Goto, TypeOK
  <1>4. /\ PathInv' /\ MigrationInv'
        /\ pc' \in [Actor -> Location]
        /\ pc'[a] = l
        /\ \A b \in Actor \ {a} : pc'[b] = pc[b]
        /\ a # Server => /\ a \in Request
                         /\ Serving /\ pc'[Server] = "serving"
        /\ a = Server => /\ pc'[Server] = l /\ ~Serving
                         /\ \A r \in Request : pc'[r] = pc[r] /\ pc[r] \in {"idle", "done"}
    BY <1>1, <1>2, <1>3, InfraMoves DEF InfraPlace
  <1>5. pool' \in Pool
    BY <1>1, NextType DEF TypeOK
  <1>6. TypeOK'
    <2>1. faults' \in 0..MaxFaults /\ misled' \in BOOLEAN
      BY Counted DEF EnsureQuotaCapablePool, LookupFails, Failure, Ok, TypeOK
    <2>2. todo' \in [Actor -> Seq(Elements(Fallback))]
      <3>1. \/ todo' = todo \/ todo' = [todo EXCEPT ![a] = <<>>]
            \/ todo[a] # <<>> /\ todo' = [todo EXCEPT ![a] = Tail(todo[a])]
        BY DEF EnsureQuotaCapablePool, NextName
      <3>2. <<>> \in Seq(Elements(Fallback))
        OBVIOUS
      <3>3. todo \in [Actor -> Seq(Elements(Fallback))]
        BY DEF TypeOK
      <3> QED
        BY <3>1, <3>2, <3>3, NextType, NamesLeft
    <2> QED
      BY <1>2, <1>4, <1>5, <2>1, <2>2 DEF TypeOK, hostVars, dbVars
  <1> HIDE DEF p
  <1>7. PlacedInv'
    BY <1>1, <1>2, <1>4 DEF PlacedInv, DiskIsolated, Placed, Serving, hostVars
  <1>8. PoolHome => PoolHome'
    <2>1. ASSUME a # Server  PROVE ~PoolHome
      BY <1>2, <1>4, <2>1 DEF PoolHome
    <2>2. CASE a = Server
      <3>1. PoolHome => guests = {}
        BY <1>2, <2>2 DEF PoolHome, PlacedInv, DiskIsolated
      <3> QED
        BY <1>1, <1>2, <1>4, <2>2, <3>1 DEF PoolHome, hostVars
    <2> QED
      BY <2>1, <2>2
  <1>9. NetHome => NetHome'
    BY <1>1, <1>2, <1>4 DEF NetHome, IsHome, Exists, Serving, Actor, hostVars
  <1> QED
    BY <1>2, <1>4, <1>6, <1>7, <1>8, <1>9 DEF HomeInv

\* A pool is created and taken, or the next name is tried.
LEMMA CreateQuotaStoragePoolStep ==
  ASSUME IInv, NEW a \in Actor, CreateQuotaStoragePool(a)
  PROVE  IInv'
  <1> USE DEF IInv
  <1> DEFINE p == Head(todo[a])
  <1>1. pc[a] = "make" /\ p \in Pool /\ Tail(todo[a]) \in Seq(Elements(Fallback))
    BY NextType DEF CreateQuotaStoragePool, PathInv
  <1>2. PICK l \in {"network", "try"} :
          /\ Goto(a, l)
          /\ l = "network" => /\ pools[p] = "none" /\ pool' = p
                              /\ pools' = [pools EXCEPT ![p] = "isolating"]
          /\ l = "try" => pool' = pool /\ pools' = pools
    BY DEF CreateQuotaStoragePool
  <1>3. /\ misled' = misled
        /\ \A b \in Actor \ {a} : todo'[b] = todo[b]
        /\ UNCHANGED <<file, net, nets, profile, guests, tools, dbVars, want>>
    BY DEF CreateQuotaStoragePool, Ok, TypeOK, NextName
  <1>4. /\ PathInv' /\ MigrationInv'
        /\ pc' \in [Actor -> Location]
        /\ pc'[a] = l
        /\ \A b \in Actor \ {a} : pc'[b] = pc[b]
        /\ a # Server => /\ a \in Request
                         /\ Serving /\ pc'[Server] = "serving"
        /\ a = Server => /\ pc'[Server] = l /\ ~Serving
                         /\ \A r \in Request : pc'[r] = pc[r] /\ pc[r] \in {"idle", "done"}
    BY <1>1, <1>2, <1>3, InfraMoves DEF InfraPlace
  <1> HIDE DEF p
  <1>5. /\ pool' \in Pool /\ pools' \in [Pool -> Driver]
        /\ \A q \in Pool : pools[q] = "isolating" => pools'[q] = "isolating"
        /\ l = "network" => pools'[pool'] = "isolating"
    BY <1>1, <1>2 DEF TypeOK, Driver
  <1>6. TypeOK'
    <2>1. faults' \in 0..MaxFaults
      BY Counted DEF CreateQuotaStoragePool, Failure
    <2>2. todo' \in [Actor -> Seq(Elements(Fallback))]
      <3>1. todo' = [todo EXCEPT ![a] = <<>>] \/ todo' = [todo EXCEPT ![a] = Tail(todo[a])]
        BY DEF CreateQuotaStoragePool, NextName
      <3>2. <<>> \in Seq(Elements(Fallback))
        OBVIOUS
      <3> QED
        BY <1>1, <3>1, <3>2, NamesLeft
    <2> QED
      BY <1>3, <1>4, <1>5, <2>1, <2>2 DEF TypeOK, dbVars
  <1>7. PlacedInv'
    <2>1. pool \in Pool /\ \A g \in guests : g.pool \in Pool
      BY DEF TypeOK, Guest
    <2> QED
      BY <1>2, <1>3, <1>4, <1>5, <2>1 DEF PlacedInv, DiskIsolated, Placed, Serving
  <1>8. PoolHome => PoolHome'
    <2>1. ASSUME a # Server  PROVE ~PoolHome
      BY <1>1, <1>4, <2>1 DEF PoolHome
    <2>2. CASE a = Server
      <3>1. PoolHome => guests = {}
        BY <1>1, <2>2 DEF PoolHome, PlacedInv, DiskIsolated
      <3> QED
        BY <1>1, <1>2, <1>3, <1>4, <2>2, <3>1 DEF PoolHome
    <2> QED
      BY <2>1, <2>2
  <1>9. NetHome => NetHome'
    BY <1>1, <1>2, <1>3, <1>4 DEF NetHome, IsHome, Exists, Serving, Actor
  <1> QED
    BY <1>3, <1>4, <1>6, <1>7, <1>8, <1>9 DEF HomeInv

\* The network the client has in mind.
LEMMA GetNetworkStep ==
  ASSUME IInv, NEW a \in Actor, GetNetwork(a)
  PROVE  IInv'
  <1> USE DEF IInv
  <1>1. PICK l \in {"harden", "others"} :
          /\ Goto(a, l)
          /\ l = "harden" => Exists(net)
          /\ l = "others" /\ ~misled' => ~Exists(net)
    BY DEF GetNetwork, LookupFails
  <1>2. /\ ~misled' => ~misled
        /\ pc[a] = "network"
        /\ want' = [want EXCEPT ![a] = net]
        /\ UNCHANGED <<cfgVars, hostVars, dbVars, todo>>
    BY DEF GetNetwork, LookupFails, Ok, TypeOK
  <1>3. /\ PathInv' /\ MigrationInv'
        /\ pc' \in [Actor -> Location]
        /\ pc'[a] = l
        /\ \A b \in Actor \ {a} : pc'[b] = pc[b]
        /\ a # Server => /\ a \in Request
                         /\ Serving /\ pc'[Server] = "serving"
        /\ a = Server => /\ pc'[Server] = l /\ ~Serving
                         /\ \A r \in Request : pc'[r] = pc[r] /\ pc[r] \in {"idle", "done"}
    BY <1>1, <1>2, InfraMoves DEF InfraPlace
  <1>4. TypeOK'
    <2>1. faults' \in 0..MaxFaults /\ misled' \in BOOLEAN
      BY Counted DEF GetNetwork, LookupFails, Failure, Ok, TypeOK
    <2> QED
      BY <1>2, <1>3, <2>1 DEF TypeOK, cfgVars, hostVars, dbVars
  <1>5. PlacedInv'
    BY <1>1, <1>2, <1>3 DEF PlacedInv, DiskIsolated, Placed, Serving, cfgVars, hostVars
  <1>6. PoolHome => PoolHome'
    BY <1>1, <1>2, <1>3 DEF PoolHome, Serving, Actor, cfgVars, hostVars
  <1>7. NetHome /\ ~misled' => NetHome'
    <2>1. /\ want'[a] = net /\ \A b \in Actor \ {a} : want'[b] = want[b]
          /\ net' = net /\ nets' = nets /\ guests' = guests
      BY <1>2 DEF TypeOK, cfgVars, hostVars
    <2>2. NetHome /\ ~misled' => /\ l = "harden" => IsHome(net)
                                 /\ l = "others" => net = Configured /\ ~Exists(Configured)
                                                    /\ a = Server
      BY <1>1, <1>2, <1>3 DEF NetHome, IsHome, Serving
    <2> QED
      BY <1>1, <1>2, <1>3, <2>1, <2>2 DEF NetHome, IsHome, Exists, Serving, Actor
  <1> QED
    BY <1>2, <1>3, <1>4, <1>5, <1>6, <1>7 DEF HomeInv

\* The first network there is, or none.
LEMMA GetNetworksStep ==
  ASSUME IInv, NEW a \in Actor, GetNetworks(a)
  PROVE  IInv'
  <1> USE DEF IInv
  <1>1. PICK l \in {"harden", "makeNet"} :
          /\ Goto(a, l)
          /\ l = "harden" => \E n \in Net : /\ Exists(n)
                                            /\ \A m \in Net : Exists(m) => Preferred(n, m)
                                            /\ want' = [want EXCEPT ![a] = n]
          /\ l = "makeNet" => want' = want
          /\ l = "makeNet" /\ ~misled' => \A n \in Net : ~Exists(n)
    BY DEF GetNetworks, LookupFails
  <1>2. /\ ~misled' => ~misled
        /\ pc[a] = "others"
        /\ UNCHANGED <<cfgVars, hostVars, dbVars, todo>>
    BY DEF GetNetworks, LookupFails, Ok, TypeOK
  <1>3. /\ PathInv' /\ MigrationInv'
        /\ pc' \in [Actor -> Location]
        /\ pc'[a] = l
        /\ \A b \in Actor \ {a} : pc'[b] = pc[b]
        /\ a # Server => /\ a \in Request
                         /\ Serving /\ pc'[Server] = "serving"
        /\ a = Server => /\ pc'[Server] = l /\ ~Serving
                         /\ \A r \in Request : pc'[r] = pc[r] /\ pc[r] \in {"idle", "done"}
    BY <1>1, <1>2, InfraMoves DEF InfraPlace
  <1>4. TypeOK'
    <2>1. faults' \in 0..MaxFaults /\ misled' \in BOOLEAN
      BY Counted DEF GetNetworks, LookupFails, Failure, Ok, TypeOK
    <2>2. want' \in [Actor -> Net]
      BY <1>1 DEF TypeOK
    <2> QED
      BY <1>2, <1>3, <2>1, <2>2 DEF TypeOK, cfgVars, hostVars, dbVars
  <1>5. PlacedInv'
    BY <1>1, <1>2, <1>3 DEF PlacedInv, DiskIsolated, Placed, Serving, cfgVars, hostVars
  <1>6. PoolHome => PoolHome'
    BY <1>1, <1>2, <1>3 DEF PoolHome, Serving, Actor, cfgVars, hostVars
  <1>7. NetHome /\ ~misled' => NetHome'
    <2>1. /\ \A b \in Actor \ {a} : want'[b] = want[b]
          /\ l = "makeNet" => want'[a] = want[a]
          /\ net' = net /\ nets' = nets /\ guests' = guests
      BY <1>1, <1>2 DEF TypeOK, cfgVars, hostVars
    <2>2. NetHome => a = Server /\ want[a] = Configured /\ ~Exists(Configured)
      BY <1>2, <1>3 DEF NetHome
    <2>3. NetHome /\ l = "harden" => IsHome(want'[a])
      <3>1. l = "harden" => /\ Exists(want'[a])
                            /\ \A m \in Net : Exists(m) => Preferred(want'[a], m)
        BY <1>1 DEF TypeOK
      <3> QED
        BY <2>2, <3>1 DEF IsHome
    <2> QED
      BY <1>1, <1>2, <1>3, <2>1, <2>2, <2>3 DEF NetHome, IsHome, Exists, Serving, Actor
  <1> QED
    BY <1>2, <1>3, <1>4, <1>5, <1>6, <1>7 DEF HomeInv

\* A network is created where there is none.
LEMMA CreateNetworkStep ==
  ASSUME IInv, NEW a \in Actor, CreateNetwork(a)
  PROVE  IInv'
  <1> USE DEF IInv
  <1>1. PICK l \in {"harden", "down", "done"} :
          /\ Goto(a, l)
          /\ l = "harden" => /\ ~Exists(want[a])
                             /\ nets' = [nets EXCEPT ![want[a]] = "nat"]
          /\ l # "harden" => nets' = nets
          /\ l = "down" => a = Server
          /\ l = "done" => a # Server
    BY DEF CreateNetwork, GiveUp
  <1>2. /\ misled' = misled
        /\ pc[a] = "makeNet"
        /\ UNCHANGED <<cfgVars, pools, profile, guests, tools, dbVars, goVars>>
    BY DEF CreateNetwork, Ok
  <1>3. /\ PathInv' /\ MigrationInv'
        /\ pc' \in [Actor -> Location]
        /\ pc'[a] = l
        /\ \A b \in Actor \ {a} : pc'[b] = pc[b]
        /\ a # Server => /\ a \in Request
                         /\ Serving /\ pc'[Server] = "serving"
        /\ a = Server => /\ pc'[Server] = l /\ ~Serving
                         /\ \A r \in Request : pc'[r] = pc[r] /\ pc[r] \in {"idle", "done"}
    BY <1>1, <1>2, InfraMoves DEF InfraPlace, goVars
  <1>4. TypeOK'
    <2>1. faults' \in 0..MaxFaults
      BY Counted DEF CreateNetwork, Failure
    <2>2. nets' \in [Net -> {"none", "bare", "nat"}]
      BY <1>1 DEF TypeOK
    <2> QED
      BY <1>2, <1>3, <2>1, <2>2 DEF TypeOK, cfgVars, dbVars, goVars
  <1>5. PlacedInv'
    BY <1>1, <1>2, <1>3 DEF PlacedInv, DiskIsolated, Placed, Serving, cfgVars
  <1>6. PoolHome => PoolHome'
    BY <1>1, <1>2, <1>3 DEF PoolHome, Serving, Actor, cfgVars
  <1>7. NetHome => NetHome'
    <2> SUFFICES ASSUME NetHome PROVE NetHome'
      OBVIOUS
    <2>1. a = Server /\ want[a] = Configured /\ \A n \in Net : ~Exists(n)
      BY <1>2, <1>3 DEF NetHome
    <2>2. /\ want' = want /\ net' = net /\ guests' = guests
          /\ net \in Net /\ \A g \in guests : g.net \in Net
      BY <1>2 DEF TypeOK, Guest, cfgVars, goVars
    <2>3. guests = {}
      BY <2>1, <2>2 DEF NetHome, IsHome
    <2>4. net = Configured
      BY <2>1, <2>2 DEF NetHome, IsHome
    <2>5. l = "harden" => IsHome(want[a])'
      BY <1>1, <2>1, <2>2 DEF TypeOK, IsHome, Exists
    <2> QED
      BY <1>1, <1>3, <2>1, <2>2, <2>3, <2>4, <2>5 DEF NetHome
  <1> QED
    BY <1>2, <1>3, <1>4, <1>5, <1>6, <1>7 DEF HomeInv

\* The network is hardened and becomes the client's.
LEMMA HardenNetworkStep ==
  ASSUME IInv, NEW a \in Actor, HardenNetwork(a)
  PROVE  IInv'
  <1> USE DEF IInv
  <1>1. /\ Goto(a, "profile") /\ pc[a] = "harden"
        /\ net' = want[a]
        /\ nets' = [nets EXCEPT ![want[a]] = "nat"] \/ nets' = nets
        /\ misled' = misled
        /\ UNCHANGED <<file, pool, pools, profile, guests, tools, dbVars, goVars>>
    BY DEF HardenNetwork, Ok
  <1>2. /\ PathInv' /\ MigrationInv'
        /\ pc' \in [Actor -> Location]
        /\ pc'[a] = "profile"
        /\ \A b \in Actor \ {a} : pc'[b] = pc[b]
        /\ a # Server => /\ a \in Request
                         /\ Serving /\ pc'[Server] = "serving"
        /\ a = Server => /\ pc'[Server] = "profile" /\ ~Serving
                         /\ \A r \in Request : pc'[r] = pc[r] /\ pc[r] \in {"idle", "done"}
    BY <1>1, InfraMoves DEF InfraPlace, goVars
  <1>3. TypeOK'
    <2>1. faults' \in 0..MaxFaults /\ misled' \in BOOLEAN
      BY <1>1, Counted DEF HardenNetwork, Failure, TypeOK
    <2>2. net' \in Net /\ nets' \in [Net -> {"none", "bare", "nat"}]
      BY <1>1 DEF TypeOK
    <2> QED
      BY <1>1, <1>2, <2>1, <2>2 DEF TypeOK, dbVars, goVars
  <1>4. PlacedInv'
    BY <1>1, <1>2 DEF PlacedInv, DiskIsolated, Placed, Serving
  <1>5. PoolHome => PoolHome'
    BY <1>1, <1>2 DEF PoolHome, Serving, Actor
  <1>6. NetHome => NetHome'
    <2> SUFFICES ASSUME NetHome PROVE NetHome'
      OBVIOUS
    <2>1. IsHome(want[a]) /\ (a # Server => want[a] = net)
      BY <1>1, <1>2 DEF NetHome, Serving
    <2>2. \A n \in Net : Exists(n)' <=> Exists(n)
      BY <1>1, <2>1 DEF TypeOK, IsHome, Exists
    <2>3. /\ want' = want /\ guests' = guests /\ want[a] \in Net
          /\ Configured \in Net /\ \A g \in guests : g.net \in Net
      BY <1>1 DEF TypeOK, Guest, goVars
    <2>4. \A n \in Net : IsHome(n)' <=> IsHome(n)
      BY <2>2 DEF IsHome
    <2>5. IsHome(net)' /\ net' = want[a]
      BY <1>1, <2>1, <2>3, <2>4
    <2> QED
      BY <1>1, <1>2, <2>1, <2>3, <2>4, <2>5 DEF NetHome, Serving, Actor
  <1> QED
    BY <1>1, <1>2, <1>3, <1>4, <1>5, <1>6 DEF HomeInv

\* The default profile is pointed at the network.
LEMMA AlignDefaultProfileStep ==
  ASSUME IInv, NEW a \in Actor, AlignDefaultProfile(a)
  PROVE  IInv'
  <1> USE DEF IInv
  <1>1. PICK l \in {"save", "address", "down", "done"} :
          /\ Goto(a, l)
          /\ l \in {"save", "down"} => a = Server
          /\ l \in {"address", "done"} => a # Server
    BY DEF AlignDefaultProfile, GiveUp
  <1>2. /\ misled' = misled
        /\ pc[a] = "profile"
        /\ UNCHANGED <<cfgVars, pools, nets, guests, tools, dbVars, goVars>>
    BY DEF AlignDefaultProfile, Ok
  <1>3. /\ PathInv' /\ MigrationInv'
        /\ pc' \in [Actor -> Location]
        /\ pc'[a] = l
        /\ \A b \in Actor \ {a} : pc'[b] = pc[b]
        /\ a # Server => /\ a \in Request
                         /\ Serving /\ pc'[Server] = "serving"
        /\ a = Server => /\ pc'[Server] = l /\ ~Serving
                         /\ \A r \in Request : pc'[r] = pc[r] /\ pc[r] \in {"idle", "done"}
    BY <1>1, <1>2, InfraMoves DEF InfraPlace, goVars
  <1>4. TypeOK'
    <2>1. faults' \in 0..MaxFaults /\ profile' \in Net
      BY Counted DEF AlignDefaultProfile, Failure, TypeOK
    <2> QED
      BY <1>2, <1>3, <2>1 DEF TypeOK, cfgVars, dbVars, goVars
  <1>5. PlacedInv'
    BY <1>1, <1>2, <1>3 DEF PlacedInv, DiskIsolated, Placed, Serving, cfgVars
  <1>6. PoolHome => PoolHome'
    BY <1>1, <1>2, <1>3 DEF PoolHome, Serving, Actor, cfgVars
  <1>7. NetHome => NetHome'
    BY <1>1, <1>2, <1>3 DEF NetHome, IsHome, Exists, Serving, Actor, cfgVars, goVars
  <1> QED
    BY <1>2, <1>3, <1>4, <1>5, <1>6, <1>7 DEF HomeInv

------------------------------------------------------------------------------
(***************************************************************************)
(* The invariant holds.                                                    *)
(***************************************************************************)

\* It holds before the server is started for the first time.
LEMMA InitInv == Init => IInv
  <1> SUFFICES ASSUME Init PROVE IInv
    OBVIOUS
  <1>1. TypeOK
    <2>1. applied \in Seq(1..Versions) /\ tx \in Seq(1..Versions)
      BY DEF Init
    <2>2. todo \in [Actor -> Seq(Elements(Fallback))] /\ pc \in [Actor -> Location]
      BY DEF Init, Location
    <2>3. nets \in [Net -> {"none", "bare", "nat"}] /\ want \in [Actor -> Net]
      BY DEF Init
    <2>4. guests \subseteq Guest /\ recorded \subseteq 1..Versions /\ faults \in 0..MaxFaults
      BY DEF Init
    <2>5. file \in Pool /\ pool \in Pool /\ net \in Net /\ pools \in [Pool -> Driver]
          /\ profile \in Net /\ tools \in BOOLEAN /\ release \in 1..Versions
          /\ misled \in BOOLEAN
      BY DEF Init
    <2> QED
      BY <2>1, <2>2, <2>3, <2>4, <2>5 DEF TypeOK
  <1>2. PathInv
    BY DEF Init, PathInv, Actor
  <1>3. MigrationInv
    <2>1. applied = <<>> /\ recorded = {} /\ release \in 1..Versions /\ pc[Server] = "down"
      BY DEF Init, Actor
    <2>2. Len(applied) = 0 /\ DOMAIN applied = {}
      BY <2>1
    <2> QED
      BY <2>1, <2>2 DEF MigrationInv
  <1>4. PlacedInv /\ HomeInv
    BY DEF Init, PlacedInv, DiskIsolated, Placed, HomeInv, PoolHome, NetHome, Actor
  <1> QED
    BY <1>1, <1>2, <1>3, <1>4 DEF IInv

\* Every step keeps it.
LEMMA NextInv == IInv /\ [Next]_vars => IInv'
  <1> SUFFICES ASSUME IInv, [Next]_vars PROVE IInv'
    OBVIOUS
  <1>1. Server \in Actor /\ Request \subseteq Actor
    BY DEF Actor
  <1>2. ASSUME NEW a \in Actor, EnsureInfrastructure(a)  PROVE IInv'
    BY <1>2, FindPoolStep, EnsureStorageHostPackagesStep, EnsureQuotaCapablePoolStep,
       CreateQuotaStoragePoolStep, GetNetworkStep, GetNetworksStep, CreateNetworkStep,
       HardenNetworkStep, AlignDefaultProfileStep DEF EnsureInfrastructure
  <1>3. CASE ConnectServices
    BY <1>3, ServerGoes DEF ConnectServices, Serving, Failure
  <1>4. CASE EnsureHostIsolation
    BY <1>4, ServerGoes DEF EnsureHostIsolation, Serving, Failure
  <1>5. CASE EnsureUnprivilegedProfile
    BY <1>5, ServerGoes DEF EnsureUnprivilegedProfile, Serving, Failure
  <1>6. CASE Serve
    BY <1>6, ServerGoes DEF Serve, Serving, Failure
  <1>7. CASE RunServe
    BY <1>1, <1>2, <1>3, <1>4, <1>5, <1>6, <1>7, LoadStep, ApplyMigrationStep,
       CommitMigrationStep, SaveConfigStep DEF RunServe
  <1>8. CASE \E r \in Request : Provision(r)
    BY <1>1, <1>2, <1>8, ReceiveStep, AllocateContainerIPv4Step, CreateContainerStep
       DEF Provision
  <1>9. CASE Upgrade \/ ListenFails \/ Crash \/ Restart
    BY <1>9, UpgradeStep, EndStep, RestartStep
  <1>10. CASE UNCHANGED vars
    <2>1. TypeOK' /\ PathInv'
      BY <1>10 DEF IInv, TypeOK, PathInv, Serving, vars, cfgVars, hostVars, dbVars, goVars
    <2>2. MigrationInv' /\ PlacedInv'
      BY <1>10 DEF IInv, MigrationInv, PlacedInv, DiskIsolated, vars, cfgVars, hostVars, dbVars
    <2>3. HomeInv'
      BY <1>10 DEF IInv, HomeInv, PoolHome, NetHome, IsHome, Exists, vars, cfgVars, hostVars,
                   goVars
    <2> QED
      BY <2>1, <2>2, <2>3 DEF IInv
  <1> QED
    BY <1>7, <1>8, <1>9, <1>10 DEF Next

\* The inductive invariant, of every start, creation, failure and crash.
THEOREM Invariance == Spec => []IInv
  BY InitInv, NextInv, PTL DEF Spec

\* Every variable has its type: the server never runs with a configuration file that was
\* cut short, and every name it tries is one it may create.
THEOREM TypeCorrect == Spec => []TypeOK
  BY Invariance, PTL DEF IInv

\* Every migration file of Store.Migrate is executed once and in order, whenever the server
\* dies or fails, and all of them before a request is served.
THEOREM Migrated == Spec => []MigratedInOrder
  <1>1. IInv => MigratedInOrder
    BY DEF IInv, MigrationInv, MigratedInOrder, Serving
  <1> QED
    BY <1>1, Invariance, PTL

\* EnsureInfrastructure puts every container on a pool that isolates it, and all of them on
\* one pool and one network, across restarts and however creations race.
THEOREM Placement == Spec => []WellPlaced
  <1>1. IInv => WellPlaced
    <2> SUFFICES ASSUME IInv PROVE WellPlaced
      OBVIOUS
    <2>1. DiskIsolated
      BY DEF IInv, PlacedInv
    <2>2. ASSUME ~misled, NEW g \in guests, NEW h \in guests
          PROVE  g.addr = g.net /\ g.pool = h.pool /\ g.net = h.net
      <3>1. g.addr = g.net /\ g.pool = h.pool /\ IsHome(g.net) /\ IsHome(h.net)
        BY <2>2 DEF IInv, HomeInv, PoolHome, NetHome
      <3>2. g.net \in Net /\ h.net \in Net /\ Net \subseteq Nat
        BY DEF IInv, TypeOK, Guest
      <3>3. \A m, n \in Net : IsHome(m) /\ IsHome(n) => m = n
        <4>1. \A m, n \in Net : Preferred(m, n) /\ Preferred(n, m) => m = n
          BY <3>2 DEF Preferred
        <4> QED
          BY <4>1 DEF IsHome
      <3> QED
        BY <3>1, <3>2, <3>3
    <2>3. OneHome
      BY <2>2 DEF OneHome
    <2> QED
      BY <2>1, <2>3 DEF WellPlaced
  <1> QED
    BY <1>1, Invariance, PTL
================================================================================
