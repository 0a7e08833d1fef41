--------------------------- MODULE HostSetupProofs ---------------------------
(***************************************************************************)
(* goincus init, for every list of pool names and every host it may find:  *)
(* however often it fails, is interrupted and is run again, a              *)
(* configuration it has saved works.                                       *)
(***************************************************************************)
EXTENDS HostSetup, WellFoundedInduction, TLAPS

------------------------------------------------------------------------------
(***************************************************************************)
(* The inductive invariant.                                                *)
(***************************************************************************)

\* A Redis with files runs with the password that they say, and it is a program of the
\* host; one without is not the host's.  Past the installation there is a program to be
\* configured.
RedisInv ==
  /\ redis.conf # Absent => redis.binary /\ redis.up \in {redis.conf, Down}
  /\ redis.binary /\ redis.conf = Absent => redis.up = Down
  /\ proc.at \notin {"idle", "install"} /\ ~Reused => redis.binary

\* The password that the run will save for the role is the role's.
RoleInv ==
  /\ proc.at \in {"database", "redis", "preseed", "pool", "bridge", "idmap", "save", "write"} =>
       pg.role = proc.cfg.db
  /\ proc.at \in {"redis", "preseed", "pool", "bridge", "idmap", "save", "write"} => pg.db

\* And the one for Redis is in its files, unless it was found by its port alone or would
\* not let init in.
SourceInv ==
  /\ proc.at # "idle" /\ proc.source \in {"running", "config"} => redis.conf = proc.cfg.redis
  /\ proc.at \in {"preseed", "pool", "bridge", "idmap", "save", "write"} /\ ~Reused =>
       redis.conf = proc.cfg.redis

\* The pool it will save isolates.
PoolInv ==
  proc.at \in {"bridge", "idmap", "save", "write"} => incus.pools[proc.cfg.pool] = "lvm"

\* What has been saved works, and a forced run will not configure the Redis anew.
FileInv ==
  file \in Config =>
    /\ "force" \notin upset => file.db = pg.role /\ pg.db
    /\ "auth" \notin upset =>
         /\ redis.conf = file.redis
         /\ proc.at \in {"install", "incus", "role", "database", "redis"} => Reused
    /\ incus.pools[file.pool] = "lvm"

IInv == TypeOK /\ RedisInv /\ RoleInv /\ SourceInv /\ PoolInv /\ FileInv

------------------------------------------------------------------------------
(***************************************************************************)
(* Lemmas.                                                                 *)
(***************************************************************************)

\* A set of natural numbers has a least element.
LEMMA MinIn ==
  ASSUME NEW S \in SUBSET Nat, S # {}
  PROVE  Min(S) \in S
  <1> DEFINE R == OpToRel(<, Nat)
  <1>1. \A x, y \in Nat : x < y => <<x, y>> \in R
    BY DEF OpToRel
  <1>2. IsWellFoundedOn(R, Nat)
    BY NatLessThanWellFounded
  <1> HIDE DEF R
  <1>3. PICK x \in S : \A y \in S : ~(<<y, x>> \in R)
    BY <1>2, WFMin
  <1>4. \A y \in S : x <= y
    <2> TAKE y \in S
    <2>1. x \in Nat /\ y \in Nat
      OBVIOUS
    <2>2. ~(y < x)
      BY <1>1, <1>3, <2>1, Zenon
    <2> QED
      BY <2>1, <2>2
  <1> QED
    BY <1>4 DEF Min

USE SetupAssumption

\* The six numbers that Fresh chooses from are not all taken.
LEMMA FreshType ==
  Fresh \in Nat
  <1> DEFINE F == {n \in 1..6 : n \notin {pg.role, redis.conf, redis.up}
                       /\ (file \in {Absent, Torn} \/ n \notin {file.db, file.redis})}
  <1>1. PICK n \in 1..6 : n \notin {pg.role, redis.conf, redis.up, file.db, file.redis}
    <2>1. ASSUME NEW a, NEW b, NEW c, NEW d, NEW e
          PROVE  \E n \in 1..6 : n # a /\ n # b /\ n # c /\ n # d /\ n # e
      OBVIOUS
    <2>2. \E n \in 1..6 : n # pg.role /\ n # redis.conf /\ n # redis.up /\ n # file.db
                          /\ n # file.redis
      BY <2>1
    <2> QED
      BY <2>2
  <1>2. n \in F
    BY <1>1
  <1>3. F \in SUBSET Nat
    OBVIOUS
  <1> HIDE DEF F
  <1>4. Min(F) \in F
    BY <1>2, <1>3, MinIn
  <1>5. Fresh = Min(F)
    BY DEF Fresh, F
  <1> QED
    BY <1>3, <1>4, <1>5

\* The first name whose pool has a driver is one of them.
LEMMA FirstType ==
  ASSUME NEW d, WithDriver(d) # {}
  PROVE  First(d) \in Names /\ incus.pools[First(d)] = d
  <1>1. WithDriver(d) \in SUBSET Nat
    <2>1. DOMAIN Candidate \subseteq Nat
      OBVIOUS
    <2> QED
      BY <2>1 DEF WithDriver
  <1>2. Min(WithDriver(d)) \in WithDriver(d)
    BY <1>1, MinIn
  <1> QED
    BY <1>2 DEF First, WithDriver, Names

\* The records that TypeOK speaks of.
Process ==
  [at : Location, force : BOOLEAN, skip : BOOLEAN, cfg : Config, source : Source,
   completed : BOOLEAN]

Server ==
  [binary : BOOLEAN, conf : Password \cup {Absent}, up : Password \cup {Down}]

Daemon ==
  [installed : BOOLEAN, ready : BOOLEAN, pools : [Names -> Driver],
   bridges : SUBSET {"incusbr0", "other"}]

\* A Redis that is found running, or in its files alone, is found with the password in its
\* files; and one that has files is found.
LEMMA Detected ==
  ASSUME TypeOK, RedisInv
  PROVE  /\ \A ep \in DetectExistingRedis :
              /\ ep.password \in Password /\ ep.source \in Source \ {"new"}
              /\ ep.source \in {"running", "config"} => redis.conf = ep.password
         /\ redis.conf # Absent => DetectExistingRedis # {}
  <1>1. /\ redis.binary \in BOOLEAN /\ redis.conf \in Password \cup {Absent}
        /\ redis.up \in Password \cup {Down}
    BY DEF TypeOK
  <1>2. NoPass \in Password /\ Absent \notin Password /\ Down \notin Password
    BY DEF Password
  <1>3. \A p \in Password : \A ep \in ProbeRedis(p) :
          /\ ep.password \in Password /\ ep.source \in Source \ {"new"}
          /\ ep.source \in {"running", "config"} => redis.conf = ep.password
    <2> TAKE p \in Password
    <2> TAKE ep \in ProbeRedis(p)
    <2>1. PICK s \in {"listening", "running", "running-needs-auth"} :
            /\ ep = [password |-> p, source |-> s]
            /\ s = "running" => redis.binary /\ redis.up = p
      BY DEF ProbeRedis
    <2>2. s = "running" => redis.conf = p
      BY <1>1, <1>2, <2>1 DEF RedisInv
    <2> QED
      BY <2>1, <2>2 DEF Source
  <1>4. \A ep \in RedisFromConfigFiles :
          /\ ep.password \in Password /\ ep.source \in Source \ {"new"}
          /\ redis.conf = ep.password
    BY <1>1 DEF RedisFromConfigFiles, Source
  <1>5. RedisPasswords \subseteq Password
    BY <1>4 DEF RedisPasswords
  <1>6. \A ep \in DetectExistingRedis :
          \/ \E p \in Password : ep \in ProbeRedis(p)
          \/ ep \in RedisFromConfigFiles
    <2>1. CASE ProbeRedis(NoPass) # {}
      BY <1>2, <2>1 DEF DetectExistingRedis
    <2>2. CASE ProbeRedis(NoPass) = {} /\ (UNION {ProbeRedis(p) : p \in RedisPasswords}) # {}
      BY <1>5, <2>2 DEF DetectExistingRedis
    <2>3. CASE ProbeRedis(NoPass) = {} /\ (UNION {ProbeRedis(p) : p \in RedisPasswords}) = {}
      BY <2>3 DEF DetectExistingRedis
    <2> QED
      BY <2>1, <2>2, <2>3
  <1>7. redis.conf # Absent => DetectExistingRedis # {}
    BY DEF DetectExistingRedis, RedisFromConfigFiles, RedisInv
  <1> QED
    BY <1>3, <1>4, <1>6, <1>7

\* What ApplyExistingRedis does to the configuration: nothing if no Redis was found, and
\* then there are no files either.
LEMMA Applied ==
  ASSUME TypeOK, RedisInv, NEW p \in Process
  PROVE  LET q == ApplyExistingRedis(p, DetectExistingRedis)
         IN  /\ q \in Process
             /\ q.at = p.at /\ q.cfg.db = p.cfg.db /\ q.cfg.pool = p.cfg.pool
             /\ \/ q = p /\ redis.conf = Absent
                \/ /\ q.source # "new"
                   /\ q.source \in {"running", "config"} => redis.conf = q.cfg.redis
  <1> DEFINE ep == CHOOSE e \in DetectExistingRedis : TRUE
             q == ApplyExistingRedis(p, DetectExistingRedis)
  <1>1. CASE DetectExistingRedis = {}
    <2>1. q = p
      BY <1>1 DEF ApplyExistingRedis
    <2>2. redis.conf = Absent
      BY <1>1, Detected
    <2> QED
      BY <2>1, <2>2
  <1>2. CASE DetectExistingRedis # {}
    <2>1. ep \in DetectExistingRedis
      BY <1>2
    <2>2. /\ ep.password \in Password /\ ep.source \in Source \ {"new"}
          /\ ep.source \in {"running", "config"} => redis.conf = ep.password
      BY <2>1, Detected
    <2>3. q = [p EXCEPT !.source = ep.source, !.cfg.redis = ep.password]
      BY <1>2 DEF ApplyExistingRedis
    <2> HIDE DEF ep, q
    <2>4. p.cfg \in Config
      BY DEF Process
    <2>5. [p.cfg EXCEPT !.redis = ep.password] \in Config
      BY <2>2, <2>4 DEF Config
    <2>6. q \in Process
      BY <2>2, <2>3, <2>5 DEF Process
    <2>7. q.at = p.at /\ q.source = ep.source
          /\ q.cfg.db = p.cfg.db /\ q.cfg.pool = p.cfg.pool /\ q.cfg.redis = ep.password
      BY <2>3, <2>4 DEF Process, Config
    <2>8. /\ q \in Process
          /\ q.at = p.at /\ q.cfg.db = p.cfg.db /\ q.cfg.pool = p.cfg.pool
          /\ q.source # "new"
          /\ q.source \in {"running", "config"} => redis.conf = q.cfg.redis
      BY <2>2, <2>6, <2>7
    <2> QED
      BY <2>8 DEF q
  <1> QED
    BY <1>1, <1>2

\* Run, or one of its steps, goes on or back to the beginning.
LEMMA Moves ==
  ASSUME TypeOK, NEW l \in Location, Goto(l)
  PROVE  proc' \in Process /\ proc'.at = l /\ proc'.cfg = proc.cfg /\ proc'.source = proc.source
  <1>1. proc \in Process /\ proc' = [proc EXCEPT !.at = l]
    BY DEF TypeOK, Process, Goto
  <1> QED
    BY <1>1 DEF Process

\* Run fails.
LEMMA Fails ==
  ASSUME TypeOK, Fail
  PROVE  /\ proc' \in Process /\ proc'.at = "idle"
         /\ proc'.cfg = proc.cfg /\ proc'.source = proc.source
         /\ faults' \in 0..MaxFaults
  <1>1. Goto("idle") /\ "idle" \in Location
    BY DEF Fail, Location
  <1>2. faults' \in 0..MaxFaults
    BY DEF Fail, TypeOK
  <1> QED
    BY <1>1, <1>2, Moves

\* A run that ends, having changed at most the id maps and the support files, leaves what
\* is saved as it is.
LEMMA EndStep ==
  ASSUME IInv, proc' \in Process, proc'.at = "idle", faults' \in 0..MaxFaults,
         idmap' \subseteq {"subuid", "subgid"}, support' \in {"none", "some", "all"},
         UNCHANGED <<file, pg, redis, incus, upset>>
  PROVE  IInv'
  <1> USE DEF IInv
  <1>1. TypeOK'
    BY DEF TypeOK, Process
  <1>2. RedisInv' /\ RoleInv' /\ SourceInv' /\ PoolInv'
    BY DEF RedisInv, RoleInv, SourceInv, PoolInv
  <1>3. FileInv'
    BY DEF FileInv
  <1> QED
    BY <1>1, <1>2, <1>3

\* Run begins: the Redis of a configuration that works is found again.
LEMMA RunStep ==
  ASSUME IInv, NEW force \in BOOLEAN, NEW skip \in BOOLEAN, Run(force, skip)
  PROVE  IInv'
  <1> USE DEF IInv
  <1> DEFINE p == [proc EXCEPT !.at = "install", !.force = force, !.skip = skip,
                               !.source = "new", !.cfg.db = Fresh, !.cfg.redis = Fresh,
                               !.completed = FALSE]
  <1>1. p \in Process /\ p.at = "install" /\ p.source = "new"
    <2>1. proc \in Process /\ proc.cfg \in Config /\ Fresh \in Nat
      BY FreshType DEF TypeOK, Process
    <2>2. [proc.cfg EXCEPT !.db = Fresh, !.redis = Fresh] \in Config
      BY <2>1 DEF Config, Password
    <2>3. p = [proc EXCEPT !.at = "install", !.force = force, !.skip = skip,
                 !.source = "new", !.cfg = [proc.cfg EXCEPT !.db = Fresh, !.redis = Fresh],
                 !.completed = FALSE]
      BY <2>1 DEF Process, Config
    <2> HIDE DEF p
    <2> QED
      BY <2>1, <2>2, <2>3 DEF Process, Location, Source
  <1>2. proc' = ApplyExistingRedis(p, DetectExistingRedis)
    BY DEF Run
  <1>3. UNCHANGED <<file, pg, redis, incus, idmap, support, faults, upset>>
    BY DEF Run
  <1> HIDE DEF p
  <1>4. /\ proc' \in Process /\ proc'.at = "install"
        /\ \/ redis.conf = Absent /\ proc'.source = "new"
           \/ /\ proc'.source # "new"
              /\ proc'.source \in {"running", "config"} => redis.conf = proc'.cfg.redis
    BY <1>1, <1>2, Applied
  <1>5. TypeOK'
    BY <1>3, <1>4 DEF TypeOK, Process
  <1>6. RedisInv' /\ RoleInv' /\ SourceInv' /\ PoolInv'
    BY <1>3, <1>4 DEF RedisInv, RoleInv, SourceInv, PoolInv
  <1>7. FileInv'
    <2>1. file \in Config => file.redis \in Password /\ Absent \notin Password
      BY DEF Config, Password
    <2> QED
      BY <1>3, <1>4, <2>1 DEF FileInv, Reused
  <1> QED
    BY <1>5, <1>6, <1>7

\* A Redis is installed, for want of another, or the programs are there.
LEMMA InstallDependenciesStep ==
  ASSUME IInv, InstallDependencies
  PROVE  IInv'
  <1> USE DEF IInv
  <1>1. proc.at = "install" /\ UNCHANGED <<file, incus, idmap, support, upset>>
    BY DEF InstallDependencies
  <1>2. NoPass \in Password /\ Absent \notin Password /\ NoPass # Down
    BY DEF Password
  <1>3. CASE /\ pg' = [pg EXCEPT !.installed = TRUE]
             /\ IF Reused \/ redis.binary THEN UNCHANGED redis
                ELSE \E up \in {NoPass, Down} :
                       redis' = [binary |-> TRUE, conf |-> NoPass, up |-> up]
             /\ Goto("incus") /\ UNCHANGED faults
    <2>1. /\ proc' \in Process /\ proc'.at = "incus"
          /\ proc'.cfg = proc.cfg /\ proc'.source = proc.source
      BY <1>3, Moves DEF Location
    <2>2. /\ pg' \in [installed : BOOLEAN, role : Password, db : BOOLEAN]
          /\ pg'.role = pg.role /\ pg'.db = pg.db
      BY <1>3 DEF TypeOK
    <2>3. CASE (Reused \/ redis.binary) /\ redis' = redis
      <3>1. TypeOK'
        BY <1>1, <1>3, <2>1, <2>2, <2>3 DEF TypeOK, Process
      <3>2. RedisInv' /\ RoleInv' /\ SourceInv' /\ PoolInv'
        BY <1>1, <2>1, <2>2, <2>3 DEF RedisInv, RoleInv, SourceInv, PoolInv, Reused
      <3>3. FileInv'
        BY <1>1, <2>1, <2>2, <2>3 DEF FileInv, Reused
      <3> QED
        BY <3>1, <3>2, <3>3
    <2>4. CASE /\ ~Reused
               /\ \E up \in {NoPass, Down} :
                    redis' = [binary |-> TRUE, conf |-> NoPass, up |-> up]
      <3>1. PICK up \in {NoPass, Down} : redis' = [binary |-> TRUE, conf |-> NoPass, up |-> up]
        BY <2>4
      <3>2. TypeOK'
        BY <1>1, <1>2, <1>3, <2>1, <2>2, <3>1 DEF TypeOK, Process
      <3>3. RedisInv' /\ RoleInv' /\ SourceInv' /\ PoolInv'
        BY <1>1, <1>2, <2>1, <2>2, <2>4, <3>1
           DEF RedisInv, RoleInv, SourceInv, PoolInv, Reused
      <3>4. FileInv'
        BY <1>1, <2>1, <2>2, <2>4 DEF FileInv, Reused
      <3> QED
        BY <3>2, <3>3, <3>4
    <2> QED
      BY <1>3, <2>3, <2>4
  <1>4. CASE /\ Reused \/ redis.binary
             /\ Goto("role") /\ UNCHANGED <<pg, redis, faults>>
    <2>1. /\ proc' \in Process /\ proc'.at = "role"
          /\ proc'.cfg = proc.cfg /\ proc'.source = proc.source
      BY <1>4, Moves DEF Location
    <2>2. TypeOK'
      BY <1>1, <1>4, <2>1 DEF TypeOK, Process
    <2>3. RedisInv' /\ RoleInv' /\ SourceInv' /\ PoolInv'
      BY <1>1, <1>4, <2>1 DEF RedisInv, RoleInv, SourceInv, PoolInv, Reused
    <2>4. FileInv'
      BY <1>1, <1>4, <2>1 DEF FileInv, Reused
    <2> QED
      BY <2>2, <2>3, <2>4
  <1>5. CASE Goto("idle") /\ UNCHANGED <<pg, redis, faults>>
    <2>1. proc' \in Process /\ proc'.at = "idle"
      BY <1>5, Moves DEF Location
    <2> QED
      BY <1>1, <1>5, <2>1, EndStep DEF TypeOK
  <1>6. CASE Fail /\ UNCHANGED <<pg, redis>>
    BY <1>1, <1>6, Fails, EndStep DEF TypeOK
  <1> QED
    BY <1>3, <1>4, <1>5, <1>6 DEF InstallDependencies

\* Incus is installed, and Redis is looked for again.
LEMMA InstallIncusStep ==
  ASSUME IInv, InstallIncus
  PROVE  IInv'
  <1> USE DEF IInv
  <1>1. proc.at = "incus" /\ UNCHANGED <<file, pg, redis, idmap, support, upset>>
    BY DEF InstallIncus
  <1> DEFINE p == [proc EXCEPT !.at = "role"]
  <1>2. CASE /\ incus' = [incus EXCEPT !.installed = TRUE]
             /\ proc' = IF Reused THEN p ELSE ApplyExistingRedis(p, DetectExistingRedis)
             /\ UNCHANGED faults
    <2>1. proc \in Process
      BY DEF TypeOK, Process
    <2>2. p \in Process /\ p.at = "role" /\ p.source = proc.source /\ p.cfg = proc.cfg
      BY <2>1 DEF Process, Location
    <2> HIDE DEF p
    <2>3. /\ proc' \in Process /\ proc'.at = "role"
          /\ \/ proc'.source = proc.source /\ proc'.cfg = proc.cfg
             \/ /\ proc'.source # "new"
                /\ proc'.source \in {"running", "config"} => redis.conf = proc'.cfg.redis
      <3>1. CASE Reused
        BY <1>2, <2>2, <3>1
      <3>2. CASE ~Reused
        BY <1>2, <2>2, <3>2, Applied
      <3> QED
        BY <3>1, <3>2
    <2>4. incus' \in Daemon /\ incus'.pools = incus.pools
      BY <1>2 DEF TypeOK, Daemon
    <2>5. TypeOK'
      BY <1>1, <1>2, <2>3, <2>4 DEF TypeOK, Process, Daemon
    <2>6. RedisInv' /\ RoleInv' /\ SourceInv' /\ PoolInv'
      BY <1>1, <2>3 DEF RedisInv, RoleInv, SourceInv, PoolInv, Reused
    <2>7. FileInv'
      BY <1>1, <2>3, <2>4 DEF FileInv, Reused
    <2> QED
      BY <2>5, <2>6, <2>7
  <1>3. CASE Fail /\ UNCHANGED incus
    BY <1>1, <1>3, Fails, EndStep DEF TypeOK
  <1> QED
    BY <1>2, <1>3 DEF InstallIncus

\* The role gets the password that will be saved; what a file says is no longer promised.
LEMMA CreateRoleStep ==
  ASSUME IInv, CreateRole
  PROVE  IInv'
  <1> USE DEF IInv
  <1>1. proc.at = "role" /\ UNCHANGED <<file, redis, incus, idmap, support>>
    BY DEF CreateRole
  <1>2. CASE /\ pg' = [pg EXCEPT !.role = proc.cfg.db]
             /\ upset' = IF file \in Config THEN upset \cup {"force"} ELSE upset
             /\ Goto("database") /\ UNCHANGED faults
    <2>1. /\ proc' \in Process /\ proc'.at = "database"
          /\ proc'.cfg = proc.cfg /\ proc'.source = proc.source
      BY <1>2, Moves DEF Location
    <2>2. proc.cfg.db \in Password
      BY DEF TypeOK, Config, Password
    <2>3. /\ pg' \in [installed : BOOLEAN, role : Password, db : BOOLEAN]
          /\ pg'.role = proc.cfg.db
      BY <1>2, <2>2 DEF TypeOK
    <2>4. upset' \subseteq Upset
      BY <1>2 DEF TypeOK, Upset
    <2>5. TypeOK'
      BY <1>1, <1>2, <2>1, <2>3, <2>4 DEF TypeOK, Process
    <2>6. RedisInv' /\ RoleInv' /\ SourceInv' /\ PoolInv'
      BY <1>1, <2>1, <2>3 DEF RedisInv, RoleInv, SourceInv, PoolInv, Reused
    <2>7. FileInv'
      BY <1>1, <1>2, <2>1 DEF FileInv, Reused
    <2> QED
      BY <2>5, <2>6, <2>7
  <1>3. CASE Fail /\ UNCHANGED <<pg, upset>>
    BY <1>1, <1>3, Fails, EndStep DEF TypeOK
  <1> QED
    BY <1>2, <1>3 DEF CreateRole

\* And the database is there.
LEMMA CreateDatabaseStep ==
  ASSUME IInv, CreateDatabase
  PROVE  IInv'
  <1> USE DEF IInv
  <1>1. proc.at = "database" /\ UNCHANGED <<file, redis, incus, idmap, support, upset>>
    BY DEF CreateDatabase
  <1>2. CASE pg' = [pg EXCEPT !.db = TRUE] /\ Goto("redis") /\ UNCHANGED faults
    <2>1. /\ proc' \in Process /\ proc'.at = "redis"
          /\ proc'.cfg = proc.cfg /\ proc'.source = proc.source
      BY <1>2, Moves DEF Location
    <2>2. /\ pg' \in [installed : BOOLEAN, role : Password, db : BOOLEAN]
          /\ pg'.role = pg.role /\ pg'.db = TRUE
      BY <1>2 DEF TypeOK
    <2>3. TypeOK'
      BY <1>1, <1>2, <2>1, <2>2 DEF TypeOK, Process
    <2>4. RedisInv' /\ RoleInv' /\ SourceInv' /\ PoolInv'
      BY <1>1, <2>1, <2>2 DEF RedisInv, RoleInv, SourceInv, PoolInv, Reused
    <2>5. FileInv'
      BY <1>1, <2>1, <2>2 DEF FileInv, Reused
    <2> QED
      BY <2>3, <2>4, <2>5
  <1>3. CASE Fail /\ UNCHANGED pg
    BY <1>1, <1>3, Fails, EndStep DEF TypeOK
  <1> QED
    BY <1>2, <1>3 DEF CreateDatabase

\* A Redis is configured only when none was found, and then none works that was saved.
LEMMA ConfigureRedisStep ==
  ASSUME IInv, ConfigureRedis
  PROVE  IInv'
  <1> USE DEF IInv
  <1>1. proc.at = "redis" /\ UNCHANGED <<file, pg, incus, idmap, support, upset>>
    BY DEF ConfigureRedis
  <1>2. CASE Reused /\ Goto("preseed") /\ UNCHANGED <<redis, faults>>
    <2>1. /\ proc' \in Process /\ proc'.at = "preseed"
          /\ proc'.cfg = proc.cfg /\ proc'.source = proc.source
      BY <1>2, Moves DEF Location
    <2>2. TypeOK'
      BY <1>1, <1>2, <2>1 DEF TypeOK, Process
    <2>3. RedisInv' /\ RoleInv' /\ SourceInv' /\ PoolInv'
      BY <1>1, <1>2, <2>1 DEF RedisInv, RoleInv, SourceInv, PoolInv, Reused
    <2>4. FileInv'
      BY <1>1, <1>2, <2>1 DEF FileInv
    <2> QED
      BY <2>2, <2>3, <2>4
  <1>3. CASE /\ ~Reused
             /\ \E up \in {proc.cfg.redis, Down} :
                  redis' = [redis EXCEPT !.conf = proc.cfg.redis, !.up = up]
             /\ Goto("preseed") /\ UNCHANGED faults
    <2>1. /\ proc' \in Process /\ proc'.at = "preseed"
          /\ proc'.cfg = proc.cfg /\ proc'.source = proc.source
      BY <1>3, Moves DEF Location
    <2>2. PICK up \in {proc.cfg.redis, Down} :
            redis' = [redis EXCEPT !.conf = proc.cfg.redis, !.up = up]
      BY <1>3
    <2>3. proc.cfg.redis \in Password /\ Absent \notin Password
      BY DEF TypeOK, Config, Password
    <2>4. redis' \in Server /\ redis'.conf = proc.cfg.redis /\ redis'.up = up /\ redis'.binary
      <3>1. redis \in Server /\ redis.binary
        BY <1>1, <1>3 DEF TypeOK, Server, RedisInv
      <3> QED
        BY <2>2, <2>3, <3>1 DEF Server
    <2>5. TypeOK'
      BY <1>1, <1>3, <2>1, <2>4 DEF TypeOK, Process, Server
    <2>6. RedisInv' /\ RoleInv' /\ SourceInv' /\ PoolInv'
      BY <1>1, <2>1, <2>2, <2>3, <2>4 DEF RedisInv, RoleInv, SourceInv, PoolInv, Reused
    <2>7. FileInv'
      BY <1>1, <1>3, <2>1 DEF FileInv
    <2> QED
      BY <2>5, <2>6, <2>7
  <1>4. CASE Fail /\ UNCHANGED redis
    BY <1>1, <1>4, Fails, EndStep DEF TypeOK
  <1> QED
    BY <1>2, <1>3, <1>4 DEF ConfigureRedis

\* A step along the path of Run that changes at most Incus, and keeps its pools.
LEMMA GoesOn ==
  ASSUME IInv, NEW l \in Location, Goto(l),
         <<proc.at, l>> \in {<<"preseed", "pool">>, <<"bridge", "idmap">>, <<"idmap", "save">>},
         incus' \in Daemon, incus'.pools = incus.pools, idmap' \subseteq {"subuid", "subgid"},
         UNCHANGED <<file, pg, redis, support, faults, upset>>
  PROVE  IInv'
  <1> USE DEF IInv
  <1>1. /\ proc' \in Process /\ proc'.at = l
        /\ proc'.cfg = proc.cfg /\ proc'.source = proc.source
    BY Moves
  <1>2. /\ proc.at \in {"preseed", "bridge", "idmap"} /\ proc'.at \in {"pool", "idmap", "save"}
        /\ proc.at = "preseed" => proc'.at = "pool"
    BY <1>1
  <1>3. TypeOK'
    BY <1>1 DEF TypeOK, Process, Daemon
  <1>4. RedisInv' /\ RoleInv' /\ SourceInv' /\ PoolInv'
    BY <1>1, <1>2 DEF RedisInv, RoleInv, SourceInv, PoolInv, Reused
  <1>5. FileInv'
    BY <1>2 DEF FileInv
  <1> QED
    BY <1>3, <1>4, <1>5

\* The daemon has a bridge.
LEMMA ConfigureIncusStep ==
  ASSUME IInv, ConfigureIncus
  PROVE  IInv'
  <1> USE DEF IInv
  <1>1. proc.at = "preseed" /\ UNCHANGED <<file, pg, redis, idmap, support, upset>>
    BY DEF ConfigureIncus
  <1>2. CASE /\ incus' = IF incus.ready THEN incus
                         ELSE [incus EXCEPT !.ready = TRUE, !.bridges = @ \cup {"incusbr0"}]
             /\ Goto("pool") /\ UNCHANGED faults
    <2>1. incus \in Daemon /\ incus.bridges \cup {"incusbr0"} \in SUBSET {"incusbr0", "other"}
      BY DEF TypeOK, Daemon
    <2>2. incus' \in Daemon /\ incus'.pools = incus.pools
      BY <1>2, <2>1 DEF Daemon
    <2> QED
      BY <1>1, <1>2, <2>2, GoesOn DEF Location, TypeOK
  <1>3. CASE Fail /\ UNCHANGED incus
    BY <1>1, <1>3, Fails, EndStep DEF TypeOK
  <1> QED
    BY <1>2, <1>3 DEF ConfigureIncus

\* A bridge is found or made.
LEMMA EnsureNetworkStep ==
  ASSUME IInv, EnsureNetwork
  PROVE  IInv'
  <1> USE DEF IInv
  <1>1. proc.at = "bridge" /\ UNCHANGED <<file, pg, redis, idmap, support, upset>>
    BY DEF EnsureNetwork
  <1>2. CASE /\ incus' = IF incus.bridges # {} THEN incus
                         ELSE [incus EXCEPT !.bridges = {"incusbr0"}]
             /\ Goto("idmap") /\ UNCHANGED faults
    <2>1. incus \in Daemon /\ {"incusbr0"} \in SUBSET {"incusbr0", "other"}
      BY DEF TypeOK, Daemon
    <2>2. incus' \in Daemon /\ incus'.pools = incus.pools
      BY <1>2, <2>1 DEF Daemon
    <2> QED
      BY <1>1, <1>2, <2>2, GoesOn DEF Location, TypeOK
  <1>3. CASE Fail /\ UNCHANGED incus
    BY <1>1, <1>3, Fails, EndStep DEF TypeOK
  <1> QED
    BY <1>2, <1>3 DEF EnsureNetwork

\* Root has its id maps, or the first of them.
LEMMA EnsureHostIDMapsStep ==
  ASSUME IInv, EnsureHostIDMaps
  PROVE  IInv'
  <1> USE DEF IInv
  <1>1. proc.at = "idmap" /\ UNCHANGED <<file, pg, redis, incus, support, upset>>
    BY DEF EnsureHostIDMaps
  <1>2. CASE idmap' = {"subuid", "subgid"} /\ Goto("save") /\ UNCHANGED faults
    BY <1>1, <1>2, GoesOn DEF Location, TypeOK, Daemon
  <1>3. CASE \E done \in {{}, {"subuid"}} : Fail /\ idmap' = idmap \cup done
    <2>1. Fail /\ idmap' \subseteq {"subuid", "subgid"}
      BY <1>3 DEF TypeOK
    <2> QED
      BY <1>1, <2>1, Fails, EndStep DEF TypeOK
  <1> QED
    BY <1>2, <1>3 DEF EnsureHostIDMaps

\* A pool that isolates is taken, or made where there was none.
LEMMA PoolTaken ==
  ASSUME IInv, proc.at = "pool", NEW n \in Names, UsePool(n), faults' \in 0..MaxFaults,
         \/ incus' = incus /\ incus.pools[n] = "lvm"
         \/ incus' = [incus EXCEPT !.pools[n] = "lvm"],
         UNCHANGED <<file, pg, redis, idmap, support, upset>>
  PROVE  IInv'
  <1> USE DEF IInv
  <1>1. /\ proc' \in Process /\ proc'.at = "bridge" /\ proc'.source = proc.source
        /\ proc'.cfg.pool = n /\ proc'.cfg.db = proc.cfg.db /\ proc'.cfg.redis = proc.cfg.redis
    <2>1. proc \in Process /\ proc.cfg \in Config
      BY DEF TypeOK, Process
    <2>2. [proc.cfg EXCEPT !.pool = n] \in Config
      BY <2>1 DEF Config
    <2>3. proc' = [proc EXCEPT !.at = "bridge", !.cfg = [proc.cfg EXCEPT !.pool = n]]
      BY <2>1 DEF UsePool, Process
    <2>4. proc' \in Process /\ proc'.at = "bridge" /\ proc'.source = proc.source
          /\ proc'.cfg = [proc.cfg EXCEPT !.pool = n]
      BY <2>1, <2>2, <2>3 DEF Process, Location
    <2> QED
      BY <2>1, <2>4 DEF Config
  <1>2. /\ incus' \in Daemon /\ incus'.pools[n] = "lvm"
        /\ \A m \in Names : incus.pools[m] = "lvm" => incus'.pools[m] = "lvm"
    <2>1. incus \in Daemon /\ incus.pools \in [Names -> Driver] /\ "lvm" \in Driver
      BY DEF TypeOK, Daemon, Driver
    <2>2. CASE incus' = incus /\ incus.pools[n] = "lvm"
      BY <2>1, <2>2
    <2>3. CASE incus' = [incus EXCEPT !.pools[n] = "lvm"]
      <3>1. incus' = [incus EXCEPT !.pools = [incus.pools EXCEPT ![n] = "lvm"]]
        BY <2>3
      <3>2. [incus.pools EXCEPT ![n] = "lvm"] \in [Names -> Driver]
        BY <2>1
      <3>3. incus' \in Daemon /\ incus'.pools = [incus.pools EXCEPT ![n] = "lvm"]
        BY <2>1, <3>1, <3>2 DEF Daemon
      <3> QED
        BY <2>1, <3>3
    <2> QED
      BY <2>2, <2>3
  <1>3. TypeOK'
    BY <1>1, <1>2 DEF TypeOK, Process, Daemon
  <1>4. RedisInv' /\ RoleInv' /\ SourceInv' /\ PoolInv'
    BY <1>1, <1>2 DEF RedisInv, RoleInv, SourceInv, PoolInv, Reused
  <1>5. FileInv'
    <2>1. file \in Config => file.pool \in Names
      BY DEF Config
    <2> QED
      BY <1>1, <1>2, <2>1 DEF FileInv
  <1> QED
    BY <1>3, <1>4, <1>5

\* The pool of the containers.
LEMMA EnsureDFIsolatingStoragePoolStep ==
  ASSUME IInv, EnsureDFIsolatingStoragePool
  PROVE  IInv'
  <1> USE DEF IInv
  <1>1. proc.at = "pool" /\ UNCHANGED <<file, pg, redis, idmap, support, upset>>
    BY DEF EnsureDFIsolatingStoragePool
  <1>2. CASE /\ WithDriver("lvm") # {}
             /\ UsePool(First("lvm")) /\ UNCHANGED <<incus, faults>>
    BY <1>1, <1>2, FirstType, PoolTaken DEF TypeOK
  <1>3. CASE /\ WithDriver("none") # {}
             /\ incus' = [incus EXCEPT !.pools[First("none")] = "lvm"]
             /\ UsePool(First("none")) /\ UNCHANGED faults
    BY <1>1, <1>3, FirstType, PoolTaken DEF TypeOK
  <1>4. CASE /\ faults < MaxFaults /\ faults' = faults + 1
             /\ \E n \in Names : /\ incus.pools[n] = "none"
                                 /\ incus' = [incus EXCEPT !.pools[n] = "lvm"]
                                 /\ UsePool(n)
    <2>1. faults' \in 0..MaxFaults
      BY <1>4 DEF TypeOK
    <2> QED
      BY <1>1, <1>4, <2>1, PoolTaken
  <1>5. CASE Fail /\ UNCHANGED incus
    BY <1>1, <1>5, Fails, EndStep DEF TypeOK
  <1> QED
    BY <1>2, <1>3, <1>4, <1>5 DEF EnsureDFIsolatingStoragePool

\* The file is empty for a moment, or for as long as nobody runs init again.
LEMMA TruncateStep ==
  ASSUME IInv, Truncate
  PROVE  IInv'
  <1> USE DEF IInv
  <1>1. proc.at = "save" /\ UNCHANGED <<pg, redis, incus, idmap, support, upset>>
    BY DEF Truncate
  <1>2. CASE file' = Torn /\ Goto("write") /\ UNCHANGED faults
    <2>1. /\ proc' \in Process /\ proc'.at = "write"
          /\ proc'.cfg = proc.cfg /\ proc'.source = proc.source
      BY <1>2, Moves DEF Location
    <2>2. TypeOK'
      BY <1>1, <1>2, <2>1 DEF TypeOK, Process
    <2>3. RedisInv' /\ RoleInv' /\ SourceInv' /\ PoolInv'
      BY <1>1, <2>1 DEF RedisInv, RoleInv, SourceInv, PoolInv, Reused
    <2>4. FileInv'
      BY <1>2 DEF FileInv
    <2> QED
      BY <2>2, <2>3, <2>4
  <1>3. CASE Fail /\ UNCHANGED file
    BY <1>1, <1>3, Fails, EndStep DEF TypeOK
  <1> QED
    BY <1>2, <1>3 DEF Truncate

\* A configuration is saved: all that it says has come true before.
LEMMA SaveStep ==
  ASSUME IInv, Save
  PROVE  IInv'
  <1> USE DEF IInv
  <1>1. proc.at = "write" /\ UNCHANGED <<pg, redis, incus, idmap, support>>
    BY DEF Save
  <1>2. CASE /\ file' = proc.cfg
             /\ upset' = IF proc.source \in {"running-needs-auth", "listening"} THEN {"auth"}
                         ELSE {}
             /\ Goto("support") /\ UNCHANGED faults
    <2>1. /\ proc' \in Process /\ proc'.at = "support"
          /\ proc'.cfg = proc.cfg /\ proc'.source = proc.source
      BY <1>2, Moves DEF Location
    <2>2. TypeOK'
      BY <1>1, <1>2, <2>1 DEF TypeOK, Process, Upset
    <2>3. RedisInv' /\ RoleInv' /\ SourceInv' /\ PoolInv'
      BY <1>1, <2>1 DEF RedisInv, RoleInv, SourceInv, PoolInv, Reused
    <2>4. "auth" \notin upset' => redis.conf = proc.cfg.redis
      <3>1. proc.source \in Source
        BY DEF TypeOK
      <3> QED
        BY <1>1, <1>2, <3>1 DEF SourceInv, Reused, Source
    <2>5. FileInv'
      BY <1>1, <1>2, <2>1, <2>4 DEF FileInv, RoleInv, PoolInv
    <2> QED
      BY <2>2, <2>3, <2>5
  <1>3. CASE Fail /\ UNCHANGED <<file, upset>>
    BY <1>1, <1>3, Fails, EndStep DEF TypeOK
  <1> QED
    BY <1>2, <1>3 DEF Save

\* The unit, the scripts and the migrations, all or some of them.
LEMMA InstallSupportFilesStep ==
  ASSUME IInv, InstallSupportFiles
  PROVE  IInv'
  <1> USE DEF IInv
  <1>1. UNCHANGED <<file, pg, redis, incus, idmap, upset>>
    BY DEF InstallSupportFiles
  <1>2. CASE /\ support' = "all"
             /\ proc' = [proc EXCEPT !.at = "idle", !.completed = TRUE]
             /\ UNCHANGED faults
    <2>1. proc \in Process
      BY DEF TypeOK, Process
    <2>2. proc' \in Process /\ proc'.at = "idle"
      BY <1>2, <2>1 DEF Process, Location
    <2> QED
      BY <1>1, <1>2, <2>2, EndStep DEF TypeOK
  <1>3. CASE Fail /\ support' = "some"
    BY <1>1, <1>3, Fails, EndStep DEF TypeOK
  <1> QED
    BY <1>2, <1>3 DEF InstallSupportFiles

\* Redis stops, or starts with the password in its files.
LEMMA RedisServiceStep ==
  ASSUME IInv, RedisService
  PROVE  IInv'
  <1> USE DEF IInv
  <1>1. UNCHANGED <<file, pg, incus, idmap, support, proc, faults, upset>>
    BY DEF RedisService
  <1>2. redis' \in Server /\ redis'.binary = redis.binary /\ redis'.conf = redis.conf
        /\ redis'.up \in {redis.conf, Down}
    <2>1. redis \in Server /\ redis.conf # Absent
      BY DEF TypeOK, Server, RedisService
    <2>2. PICK up \in {redis.conf, Down} : redis' = [redis EXCEPT !.up = up]
      BY DEF RedisService
    <2> QED
      BY <2>1, <2>2 DEF Server
  <1>3. TypeOK'
    BY <1>1, <1>2 DEF TypeOK, Server
  <1>4. RedisInv' /\ RoleInv' /\ SourceInv' /\ PoolInv'
    BY <1>1, <1>2 DEF RedisInv, RoleInv, SourceInv, PoolInv, Reused, RedisService
  <1>5. FileInv'
    BY <1>1, <1>2 DEF FileInv, Reused
  <1> QED
    BY <1>3, <1>4, <1>5

------------------------------------------------------------------------------
(***************************************************************************)
(* Theorems.                                                               *)
(***************************************************************************)

\* Any host before its first init.
LEMMA InitInv ==
  ASSUME Init
  PROVE  IInv
  <1>1. TypeOK
    <2>1. file \in Config \cup {Absent, Torn}
      BY DEF Init
    <2>2. pg \in [installed : BOOLEAN, role : Password, db : BOOLEAN]
      BY DEF Init, Password
    <2>3. redis \in [binary : BOOLEAN, conf : Password \cup {Absent}, up : Password \cup {Down}]
      <3>1. PICK b \in BOOLEAN, c \in {0, NoPass, Absent}, u \in {0, NoPass, Down} :
              redis = [binary |-> b, conf |-> c, up |-> u]
        BY DEF Init
      <3> QED
        BY <3>1 DEF Password
    <2>4. incus \in Daemon
      BY DEF Init, Daemon
    <2>5. proc \in Process
      <3>1. Candidate[1] \in Names
        BY DEF Names
      <3>2. [db |-> 0, redis |-> 0, pool |-> Candidate[1]] \in Config
        BY <3>1 DEF Config, Password
      <3> QED
        BY <3>2 DEF Init, Process, Location, Source
    <2> QED
      BY <2>1, <2>2, <2>3, <2>4, <2>5 DEF Init, TypeOK, Process, Daemon
  <1>2. RedisInv /\ RoleInv /\ SourceInv /\ PoolInv
    BY DEF Init, RedisInv, RoleInv, SourceInv, PoolInv
  <1>3. FileInv
    BY DEF Init, FileInv
  <1> QED
    BY <1>1, <1>2, <1>3 DEF IInv

\* Every step keeps the inductive invariant.
LEMMA NextInv ==
  ASSUME IInv, [Next]_vars
  PROVE  IInv'
  <1>1. CASE \E force, skip \in BOOLEAN : Run(force, skip)
    BY <1>1, RunStep
  <1>2. CASE InstallDependencies
    BY <1>2, InstallDependenciesStep
  <1>3. CASE InstallIncus
    BY <1>3, InstallIncusStep
  <1>4. CASE CreateRole
    BY <1>4, CreateRoleStep
  <1>5. CASE CreateDatabase
    BY <1>5, CreateDatabaseStep
  <1>6. CASE ConfigureRedis
    BY <1>6, ConfigureRedisStep
  <1>7. CASE ConfigureIncus
    BY <1>7, ConfigureIncusStep
  <1>8. CASE EnsureDFIsolatingStoragePool
    BY <1>8, EnsureDFIsolatingStoragePoolStep
  <1>9. CASE EnsureNetwork
    BY <1>9, EnsureNetworkStep
  <1>10. CASE EnsureHostIDMaps
    BY <1>10, EnsureHostIDMapsStep
  <1>11. CASE Truncate
    BY <1>11, TruncateStep
  <1>12. CASE Save
    BY <1>12, SaveStep
  <1>13. CASE InstallSupportFiles
    BY <1>13, InstallSupportFilesStep
  <1>14. CASE Interrupt
    BY <1>14, Fails, EndStep DEF Interrupt, IInv, TypeOK
  <1>15. CASE RedisService
    BY <1>15, RedisServiceStep
  <1>16. CASE UNCHANGED vars
    <2>1. TypeOK'
      BY <1>16 DEF IInv, TypeOK, vars
    <2>2. RedisInv' /\ RoleInv' /\ SourceInv' /\ PoolInv'
      BY <1>16 DEF IInv, RedisInv, RoleInv, SourceInv, PoolInv, Reused, vars
    <2>3. FileInv'
      BY <1>16 DEF IInv, FileInv, Reused, vars
    <2> QED
      BY <2>1, <2>2, <2>3 DEF IInv
  <1> QED
    BY <1>1, <1>2, <1>3, <1>4, <1>5, <1>6, <1>7, <1>8, <1>9, <1>10, <1>11, <1>12, <1>13, <1>14,
       <1>15, <1>16 DEF Next, Step

\* The inductive invariant holds of every run of the wizard.
THEOREM Invariance == Spec => []IInv
  BY InitInv, NextInv, PTL DEF Spec

\* The variables have their types: every record that the steps of Run build is one.
THEOREM TypeCorrect == Spec => []TypeOK
  BY Invariance, PTL DEF IInv

\* A saved configuration opens the database unless a forced run has left the role with a
\* password of its own, opens Redis whenever it runs unless it was found closed, and names a
\* pool that isolates disks, however many runs failed or were interrupted.
THEOREM Opens == Spec => []ConfigOpens
  <1>1. ASSUME IInv
        PROVE  ConfigOpens
    <2>1. file \in Config => file.redis # Absent
      BY DEF Config, Password
    <2> QED
      BY <1>1, <2>1 DEF IInv, ConfigOpens, FileInv, RedisInv
  <1> QED
    BY <1>1, Invariance, PTL
=============================================================================
