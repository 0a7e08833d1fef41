------------------------------ MODULE HostSetup ------------------------------
(***************************************************************************)
(* goincus init (internal/setup): installs PostgreSQL, Redis and Incus,    *)
(* gives the database role a fresh password, reuses a Redis that is there  *)
(* or configures one, selects a storage pool and a bridge, and at the end  *)
(* writes the configuration that goincus serve reads.  Nothing is undone   *)
(* when a step fails or the operator interrupts it; the operator runs it   *)
(* again, with --force once there is a configuration.                      *)
(***************************************************************************)
EXTENDS Integers, Sequences, FiniteSetsExt

CONSTANTS
  Candidate,  \* names of the storage pools, in the order they are tried
  NoPass,     \* no password
  Down,       \* no Redis is listening
  Absent,     \* there is no such file
  Torn,       \* a file that was truncated and not written
  MaxFaults   \* how many steps fail or are interrupted

\* Secrets are numbers; 0 is one that somebody else has chosen for Redis.
Password == Nat \cup {NoPass}

Names == {Candidate[i] : i \in DOMAIN Candidate}

Config == [db : Nat, redis : Password, pool : Names]

ASSUME SetupAssumption ==
  /\ Candidate \in Seq(STRING) /\ Candidate # <<>>
  /\ {NoPass, Down, Absent, Torn} \cap Nat = {}
  /\ NoPass \notin {Down, Absent, Torn} /\ Down \notin {Absent, Torn} /\ Absent # Torn
  /\ {Absent, Torn} \cap Config = {}
  /\ MaxFaults \in Nat

VARIABLES
  file,     \* the configuration file
  pg,       \* PostgreSQL: is it installed, the role's password, the database
  redis,    \* Redis: is it installed, the password in its files and in use
  incus,    \* Incus: is it installed and initialized, pools, bridges
  idmap,    \* which of /etc/subuid and /etc/subgid have an entry for root
  support,  \* unit, scripts and migrations
  proc,     \* goincus init: where it is, its options and the configuration it makes
  faults,   \* failures and interruptions so far
  upset     \* history: what has happened to the passwords, see below

vars == <<file, pg, redis, incus, idmap, support, proc, faults, upset>>

------------------------------------------------------------------------------
Driver == {"none", "dir", "lvm"}

\* How Redis was found; "new": it was not.
Source == {"new", "running", "running-needs-auth", "listening", "config"}

Location == {"idle", "install", "incus", "role", "database", "redis", "preseed", "pool",
             "bridge", "idmap", "save", "write", "support"}

\* "auth": the Redis of the configuration was found to require a password, or may do
\* so.  "force": init --force has changed the role's password and not saved it yet.
Upset == {"auth", "force"}

TypeOK ==
  /\ file \in Config \cup {Absent, Torn}
  /\ pg \in [installed : BOOLEAN, role : Password, db : BOOLEAN]
  /\ redis \in [binary : BOOLEAN, conf : Password \cup {Absent}, up : Password \cup {Down}]
  /\ incus \in [installed : BOOLEAN, ready : BOOLEAN, pools : [Names -> Driver],
                bridges : SUBSET {"incusbr0", "other"}]
  /\ idmap \subseteq {"subuid", "subgid"}
  /\ support \in {"none", "some", "all"}
  /\ proc \in [at : Location, force : BOOLEAN, skip : BOOLEAN, cfg : Config,
               source : Source, completed : BOOLEAN]
  /\ faults \in 0..MaxFaults
  /\ upset \subseteq Upset

\* A host with any Redis (none, a container's, a package's, a binary alone), any
\* pools as long as one name is good or free, and any bridge.
Init ==
  /\ file = Absent
  /\ \E i \in BOOLEAN : pg = [installed |-> i, role |-> NoPass, db |-> FALSE]
  /\ redis \in [binary : BOOLEAN, conf : {0, NoPass, Absent}, up : {0, NoPass, Down}]
  /\ redis.conf # Absent => redis.binary /\ redis.up \in {redis.conf, Down}
  /\ redis.binary /\ redis.conf = Absent => redis.up = Down
  /\ incus \in [installed : BOOLEAN, ready : BOOLEAN, pools : [Names -> Driver],
                bridges : SUBSET {"incusbr0", "other"}]
  /\ \E n \in Names : incus.pools[n] # "dir"
  /\ incus.ready => incus.installed
  /\ ~incus.ready => incus.bridges = {} /\ \A n \in Names : incus.pools[n] = "none"
  /\ idmap = {}
  /\ support = "none"
  /\ proc = [at |-> "idle", force |-> FALSE, skip |-> FALSE, source |-> "new",
             cfg |-> [db |-> 0, redis |-> 0, pool |-> Candidate[1]], completed |-> FALSE]
  /\ faults = 0
  /\ upset = {}

------------------------------------------------------------------------------
(***************************************************************************)
(* Detection of an existing Redis.                                         *)
(***************************************************************************)

\* probeRedis: an answer that a password is required counts as found, with the
\* password that was tried; without redis-cli an open port does.
ProbeRedis(pass) ==
  LET Found(source) == {[password |-> pass, source |-> source]}
  IN  IF redis.up = Down THEN {}
      ELSE IF ~redis.binary THEN Found("listening")
      ELSE IF redis.up = pass THEN Found("running")
      ELSE IF redis.up # NoPass THEN Found("running-needs-auth")
      ELSE {}

\* What the files under /etc/redis say, the one that init writes included.
RedisFromConfigFiles ==
  IF redis.conf = Absent THEN {} ELSE {[password |-> redis.conf, source |-> "config"]}

RedisPasswords == {e.password : e \in RedisFromConfigFiles} \ {NoPass}

\* Mistaken variant of DetectExistingRedis: the program alone counts as found.
DetectRedisBinary ==
  IF ProbeRedis(NoPass) # {} THEN ProbeRedis(NoPass)
  ELSE IF redis.binary THEN {[password |-> redis.conf, source |-> "config"]} ELSE {}

\* Without a password, then with the one in the files; then the files alone.
DetectExistingRedis ==
  LET authenticated == UNION {ProbeRedis(p) : p \in RedisPasswords}
  IN  CASE ProbeRedis(NoPass) # {} -> ProbeRedis(NoPass)
        [] ProbeRedis(NoPass) = {} /\ authenticated # {} -> authenticated
        [] OTHER -> IF redis.binary THEN RedisFromConfigFiles ELSE {}

\* The configuration names the Redis that was found, with its password or none.
ApplyExistingRedis(p, found) ==
  IF found = {} THEN p
  ELSE LET ep == CHOOSE e \in found : TRUE
       IN  [p EXCEPT !.source = ep.source, !.cfg.redis = ep.password]

Reused == proc.source # "new"

------------------------------------------------------------------------------
(***************************************************************************)
(* The steps of Run.                                                       *)
(***************************************************************************)

Goto(l) == proc' = [proc EXCEPT !.at = l]

\* Run returns an error.
Fail ==
  /\ faults < MaxFaults
  /\ faults' = faults + 1
  /\ Goto("idle")

\* A secret that is not in use, of which there are at most five: they are random.
Fresh ==
  Min({n \in 1..6 : n \notin {pg.role, redis.conf, redis.up}
                    /\ (file \in {Absent, Torn} \/ n \notin {file.db, file.redis})})

\* Run up to the installation: refused if there is a configuration, unless forced.
Run(force, skip) ==
  LET p == [proc EXCEPT !.at = "install", !.force = force, !.skip = skip, !.source = "new",
                        !.cfg.db = Fresh, !.cfg.redis = Fresh, !.completed = FALSE]
  IN  /\ proc.at = "idle"
      /\ force \/ file = Absent
      /\ proc' = ApplyExistingRedis(p, DetectExistingRedis)
      /\ UNCHANGED <<file, pg, redis, incus, idmap, support, faults, upset>>

\* installDependencies up to Incus: a new Redis runs (apt) or does not (dnf).  With
\* --skip-install the programs are looked up.
InstallDependencies ==
  /\ proc.at = "install"
  /\ \/ /\ ~proc.skip
        /\ pg' = [pg EXCEPT !.installed = TRUE]
        /\ IF Reused \/ redis.binary THEN UNCHANGED redis
           ELSE \E up \in {NoPass, Down} :
                  redis' = [binary |-> TRUE, conf |-> NoPass, up |-> up]
        /\ Goto("incus") /\ UNCHANGED faults
     \/ /\ proc.skip /\ pg.installed /\ incus.installed /\ (Reused \/ redis.binary)
        /\ Goto("role") /\ UNCHANGED <<pg, redis, faults>>
     \/ /\ proc.skip /\ ~(pg.installed /\ incus.installed /\ (Reused \/ redis.binary))
        /\ Goto("idle") /\ UNCHANGED <<pg, redis, faults>>
     \/ ~proc.skip /\ Fail /\ UNCHANGED <<pg, redis>>
  /\ UNCHANGED <<file, incus, idmap, support, upset>>

\* installIncusZabbly, and Redis is looked for again.
InstallIncus ==
  /\ proc.at = "incus"
  /\ \/ /\ incus' = [incus EXCEPT !.installed = TRUE]
        /\ LET p == [proc EXCEPT !.at = "role"]
           IN  proc' = IF Reused THEN p ELSE ApplyExistingRedis(p, DetectExistingRedis)
        /\ UNCHANGED faults
     \/ ~incus.installed /\ Fail /\ UNCHANGED incus
  /\ UNCHANGED <<file, pg, redis, idmap, support, upset>>

\* Mistaken variant of CreateRole: a role that exists keeps its password.
CreateRoleOnce ==
  /\ proc.at = "role"
  /\ pg' = [pg EXCEPT !.role = IF @ = NoPass THEN proc.cfg.db ELSE @]
  /\ Goto("database")
  /\ UNCHANGED <<file, redis, incus, idmap, support, faults, upset>>

\* configurePostgreSQL: its files, a restart, and CREATE ROLE or, for a role that
\* exists, ALTER ROLE.
CreateRole ==
  /\ proc.at = "role"
  /\ \/ /\ pg' = [pg EXCEPT !.role = proc.cfg.db]
        /\ upset' = IF file \in Config THEN upset \cup {"force"} ELSE upset
        /\ Goto("database") /\ UNCHANGED faults
     \/ Fail /\ UNCHANGED <<pg, upset>>
  /\ UNCHANGED <<file, redis, incus, idmap, support>>

\* CREATE DATABASE unless it is there.
CreateDatabase ==
  /\ proc.at = "database"
  /\ \/ pg' = [pg EXCEPT !.db = TRUE] /\ Goto("redis") /\ UNCHANGED faults
     \/ Fail /\ UNCHANGED pg
  /\ UNCHANGED <<file, redis, incus, idmap, support, upset>>

\* A Redis that was found is left alone; otherwise its files are written and it is
\* restarted, whatever comes of it.
ConfigureRedis ==
  /\ proc.at = "redis"
  /\ \/ Reused /\ Goto("preseed") /\ UNCHANGED <<redis, faults>>
     \/ /\ ~Reused
        /\ \E up \in {proc.cfg.redis, Down} :
             redis' = [redis EXCEPT !.conf = proc.cfg.redis, !.up = up]
        /\ Goto("preseed") /\ UNCHANGED faults
     \/ ~Reused /\ Fail /\ UNCHANGED redis
  /\ UNCHANGED <<file, pg, incus, idmap, support, upset>>

\* configureIncus: a preseed if the daemon does not answer, which brings a bridge.
ConfigureIncus ==
  /\ proc.at = "preseed"
  /\ \/ /\ incus' = IF incus.ready THEN incus
                    ELSE [incus EXCEPT !.ready = TRUE, !.bridges = @ \cup {"incusbr0"}]
        /\ Goto("pool") /\ UNCHANGED faults
     \/ Fail /\ UNCHANGED incus
  /\ UNCHANGED <<file, pg, redis, idmap, support, upset>>

\* The places of the names whose pool has driver d, and the first of these names.
WithDriver(d) == {i \in DOMAIN Candidate : incus.pools[Candidate[i]] = d}

First(d) == Candidate[Min(WithDriver(d))]

UsePool(n) == proc' = [proc EXCEPT !.at = "bridge", !.cfg.pool = n]

\* Mistaken variant of EnsureDFIsolatingStoragePool: only the first name is tried.
EnsureFirstStoragePool ==
  /\ proc.at = "pool"
  /\ \/ /\ incus.pools[Candidate[1]] # "dir"
        /\ incus' = [incus EXCEPT !.pools[Candidate[1]] = "lvm"]
        /\ UsePool(Candidate[1])
     \/ incus.pools[Candidate[1]] = "dir" /\ Goto("idle") /\ UNCHANGED incus
  /\ UNCHANGED <<file, pg, redis, idmap, support, faults, upset>>

\* The first pool whose driver isolates; otherwise one is created under the first
\* name that is free.  When looking up or creating fails, under another.
EnsureDFIsolatingStoragePool ==
  /\ proc.at = "pool"
  /\ \/ /\ WithDriver("lvm") # {}
        /\ UsePool(First("lvm")) /\ UNCHANGED <<incus, faults>>
     \/ /\ WithDriver("lvm") = {} /\ WithDriver("none") # {}
        /\ incus' = [incus EXCEPT !.pools[First("none")] = "lvm"]
        /\ UsePool(First("none")) /\ UNCHANGED faults
     \/ /\ faults < MaxFaults /\ faults' = faults + 1
        /\ \E n \in Names : /\ incus.pools[n] = "none"
                            /\ incus' = [incus EXCEPT !.pools[n] = "lvm"]
                            /\ UsePool(n)
     \/ Fail /\ UNCHANGED incus
  /\ UNCHANGED <<file, pg, redis, idmap, support, upset>>

\* ensureIncusNetworkAndPool: incusbr0, or any bridge, or a new one; the default
\* profile's devices follow, with errors ignored.
EnsureNetwork ==
  /\ proc.at = "bridge"
  /\ \/ /\ incus' = IF incus.bridges # {} THEN incus
                    ELSE [incus EXCEPT !.bridges = {"incusbr0"}]
        /\ Goto("idmap") /\ UNCHANGED faults
     \/ Fail /\ UNCHANGED incus
  /\ UNCHANGED <<file, pg, redis, idmap, support, upset>>

\* ensureHostIDMaps, one file after the other.
EnsureHostIDMaps ==
  /\ proc.at = "idmap"
  /\ \/ idmap' = {"subuid", "subgid"} /\ Goto("save") /\ UNCHANGED faults
     \/ \E done \in {{}, {"subuid"}} : Fail /\ idmap' = idmap \cup done
  /\ UNCHANGED <<file, pg, redis, incus, support, upset>>

\* config.Save: os.WriteFile truncates the file and then writes it.
Truncate ==
  /\ proc.at = "save"
  /\ \/ file' = Torn /\ Goto("write") /\ UNCHANGED faults
     \/ Fail /\ UNCHANGED file
  /\ UNCHANGED <<pg, redis, incus, idmap, support, upset>>

Save ==
  /\ proc.at = "write"
  /\ \/ /\ file' = proc.cfg
        /\ upset' = IF proc.source \in {"running-needs-auth", "listening"} THEN {"auth"} ELSE {}
        /\ Goto("support") /\ UNCHANGED faults
     \/ Fail /\ UNCHANGED <<file, upset>>
  /\ UNCHANGED <<pg, redis, incus, idmap, support>>

\* Directories, unit, scripts and migrations, file by file.
InstallSupportFiles ==
  /\ proc.at = "support"
  /\ \/ /\ support' = "all"
        /\ proc' = [proc EXCEPT !.at = "idle", !.completed = TRUE]
        /\ UNCHANGED faults
     \/ Fail /\ support' = "some"
  /\ UNCHANGED <<file, pg, redis, incus, idmap, upset>>

\* The host stops Redis, or starts it with the password in its files.
RedisService ==
  /\ redis.conf # Absent
  /\ redis' = [redis EXCEPT !.up = IF @ = Down THEN redis.conf ELSE Down]
  /\ UNCHANGED <<file, pg, incus, idmap, support, proc, faults, upset>>

\* The operator interrupts init, or the host goes down.
Interrupt ==
  /\ proc.at # "idle"
  /\ Fail
  /\ UNCHANGED <<file, pg, redis, incus, idmap, support, upset>>

Step ==
  \/ InstallDependencies \/ InstallIncus \/ CreateRole \/ CreateDatabase \/ ConfigureRedis
  \/ ConfigureIncus \/ EnsureDFIsolatingStoragePool \/ EnsureNetwork \/ EnsureHostIDMaps
  \/ Truncate \/ Save \/ InstallSupportFiles

Next == (\E force, skip \in BOOLEAN : Run(force, skip)) \/ Step \/ Interrupt \/ RedisService

\* init goes on until it returns, and the operator runs it until it has completed,
\* with --force if it has to be, and once without --skip-install.
Fairness == WF_vars(Step) /\ SF_vars(\E force \in BOOLEAN : Run(force, FALSE))

Spec == Init /\ [][Next]_vars /\ Fairness

------------------------------------------------------------------------------
(***************************************************************************)
(* Properties.                                                             *)
(***************************************************************************)

\* The saved configuration works, whichever runs failed or were interrupted before and
\* since.  Its password opens the database; only a forced run that has not completed
\* locks the server out.  It opens Redis whenever that runs, found running, found only
\* in its files or configured here, unless it was found to require a password.  Its
\* pool exists and isolates disks.
ConfigOpens ==
  file \in Config =>
    /\ "force" \notin upset => file.db = pg.role /\ pg.db
    /\ "auth" \notin upset /\ redis.up # Down => redis.up = file.redis
    /\ incus.pools[file.pool] = "lvm"

\* Whatever an interrupted run has left behind, running init again ends with all that
\* the server needs: passwords, pool, bridge, id maps and migrations.
SetUpEnds ==
  <>(/\ proc.completed
     /\ file \in Config
     /\ file.db = pg.role
     /\ incus.bridges # {} /\ idmap = {"subuid", "subgid"} /\ support = "all")
==============================================================================
