----------------------------- MODULE HourlyMetrics -----------------------------
(***************************************************************************)
(* hourlyMetricsLoop (internal/service/hourly.go) for one instance: its    *)
(* samples turn the guest's lifetime counters into one row per UTC hour of *)
(* instance_hourly_metrics (internal/db/store.go).  The counters restart   *)
(* with the guest; samples are late, fail, lack a counter that Incus does  *)
(* not give, or are repeated in one hour when the server restarts.  Memory *)
(* and disk columns are copied from the sample and left out.               *)
(***************************************************************************)
EXTENDS Integers, FiniteSetsExt

CONSTANTS
  TicksPerHour,   \* resolution of the clock
  Interval,       \* cfg.Usage.HourlyInterval, in ticks
  RetentionHours, \* cfg.Usage.HourlyRetentionDays, in hours
  Cores,          \* inst.CPUCores, in parts of a core
  CoreParts,      \* the parts of a core: an allocation may be a fraction
  Loads,          \* how many of them the guest may use in a tick
  MaxTick,        \* bound on the clock
  MaxRate,        \* bound on the bytes sent in one tick
  MaxRestarts,    \* bound on the restarts of the guest
  MaxFailed       \* bound on the failed calls, lacking counters and crashes

ASSUME MetricsAssumption ==
  /\ TicksPerHour \in Nat \ {0}
  /\ Interval \in Nat \ {0}
  /\ RetentionHours \in Nat \ {0}
  /\ Cores \in Nat \ {0} /\ CoreParts \in Nat \ {0}
  /\ Loads \subseteq 0..Cores
  /\ MaxTick \in Nat /\ MaxRate \in Nat /\ MaxRestarts \in Nat /\ MaxFailed \in Nat

VARIABLES
  now,      \* the clock, in ticks
  restarts, \* restarts of the guest
  failed,   \* failed calls, lacking counters and crashes of the server
  net,      \* the NIC's counter
  cpu,      \* the guest's CPU time, in ticks of a part of a core
  rows,     \* instance_hourly_metrics
  round,    \* where the loop is
  hour,     \* the hour the round is for, fixed before the instances are sampled
  sample,   \* what ResourceSample returned
  new,      \* the row about to be stored
  sent      \* history: bytes sent since the instance exists

vmVars == <<restarts, net, cpu, sent>>
roundVars == <<hour, sample, new>>
hourlyVars == <<now, failed, vmVars, rows, round, roundVars>>

------------------------------------------------------------------------------
Tick == 0..MaxTick
Hour == 0..(MaxTick \div TicksPerHour)

\* The two counters as they were read.  The rest is history: when, what the guest had
\* sent and how often it had restarted by then, and how much each counter really was
\* beyond what was read.
Reading == [net : Nat, cpu : Nat, at : Tick, sent : Nat, cycle : 0..MaxRestarts,
            netGap : Nat, cpuGap : Nat]

MaxPercent == (100 * Cores) \div CoreParts

\* last is the sample whose counters the row holds.  The rest is history: from is
\* what the guest had sent where the row begins, so that bandwidth speaks of the
\* bytes after from up to last.sent; whole says that the guest did not restart
\* among them, known that no reading lacked a part of them, excess that the percentage
\* is of more time than it was computed for.
Row == [hour : Hour, bandwidth : Nat, percent : 0..MaxPercent, last : Reading,
        from : Nat, whole : BOOLEAN, known : BOOLEAN, excess : BOOLEAN]

HourOf(t) == t \div TicksPerHour

\* A reading that gives n and c of the counters.
ReadingOf(n, c) ==
  [net |-> n, cpu |-> c, at |-> now, sent |-> sent, cycle |-> restarts,
   netGap |-> net - n, cpuGap |-> cpu - c]

NoReading == [net |-> 0, cpu |-> 0, at |-> 0, sent |-> 0, cycle |-> 0,
              netGap |-> 0, cpuGap |-> 0]

MetricsTypeOK ==
  /\ now \in Tick
  /\ restarts \in 0..MaxRestarts
  /\ failed \in 0..MaxFailed
  /\ net \in Nat /\ sent \in Nat
  /\ cpu \in Nat
  /\ rows \subseteq Row
  /\ \A r, s \in rows : r.hour = s.hour => r = s
  /\ round \in {"down", "waiting", "sampling", "reading", "storing", "purging"}
  /\ hour \in Hour
  /\ sample \in Reading
  /\ new \subseteq Row
  /\ \A r, s \in new : r = s

HourlyInit ==
  /\ now = 0 /\ restarts = 0 /\ failed = 0
  /\ net = 0 /\ cpu = 0 /\ sent = 0
  /\ rows = {}
  /\ round = "down"
  /\ hour = 0
  /\ sample = NoReading
  /\ new = {}

Fault == failed < MaxFailed /\ failed' = failed + 1

------------------------------------------------------------------------------
(***************************************************************************)
(* The guest.                                                              *)
(***************************************************************************)

\* Time passes: the guest sends some bytes and uses some of its cores.
Pass(bytes, busy) ==
  /\ now < MaxTick
  /\ now' = now + 1
  /\ net' = net + bytes
  /\ sent' = sent + bytes
  /\ cpu' = cpu + busy
  /\ UNCHANGED <<restarts, failed, rows, round, roundVars>>

\* The guest restarts: its counters begin at 0 again.
PowerCycle ==
  /\ restarts < MaxRestarts
  /\ restarts' = restarts + 1
  /\ net' = 0
  /\ cpu' = 0
  /\ UNCHANGED <<now, failed, sent, rows, round, roundVars>>

------------------------------------------------------------------------------
(***************************************************************************)
(* sampleInstanceHourlyMetrics                                             *)
(***************************************************************************)

\* A round begins: at once when the server comes up, then at each tick.
\* ListActiveInstances may fail.
BeginRound ==
  /\ round \in {"down", "waiting"}
  /\ \/ /\ hour' = HourOf(now)
        /\ round' = "sampling"
        /\ UNCHANGED failed
     \/ /\ Fault
        /\ round' = "waiting"
        /\ UNCHANGED hour
  /\ UNCHANGED <<now, vmVars, rows, sample, new>>

\* ResourceSample; a counter that Incus does not give is read as 0 without an error:
\* the CPU usage, or the bytes received, sent or both.
ResourceSample ==
  /\ round = "sampling"
  /\ \/ /\ sample' = ReadingOf(net, cpu)
        /\ round' = "reading"
        /\ UNCHANGED failed
     \/ /\ Fault
        /\ \E n \in 0..net, c \in {0, cpu} : sample' = ReadingOf(n, c)
        /\ round' = "reading"
     \/ /\ Fault
        /\ round' = "purging"
        /\ UNCHANGED sample
  /\ UNCHANGED <<now, vmVars, rows, hour, new>>

\* Bytes since prev was taken; a counter below it has restarted.
DeltaNet(prev) == IF sample.net >= prev.net THEN sample.net - prev.net ELSE sample.net

\* Mistaken variant of computeCPUPercent: the allocation is not divided by.
ComputeCPUPercentPerCore(prev, elapsed) ==
  IF sample.cpu < prev.cpu THEN 0
  ELSE Min({MaxPercent, (100 * (sample.cpu - prev.cpu)) \div (elapsed * CoreParts)})

ComputeCPUPercent(prev, elapsed) ==
  IF sample.cpu < prev.cpu THEN 0
  ELSE Min({MaxPercent, (100 * (sample.cpu - prev.cpu)) \div (elapsed * Cores)})

\* The row that bandwidth and from make of the sample after prev, with the time elapsed
\* that its percentage assumes.
RowOf(prev, elapsed, bandwidth, from) ==
  [hour |-> hour, bandwidth |-> bandwidth,
   percent |-> ComputeCPUPercent(prev.last, elapsed), last |-> sample, from |-> from,
   whole |-> prev.last.cycle = sample.cycle /\ (prev.hour = hour => prev.whole),
   known |-> prev.last.netGap = 0 /\ sample.netGap = 0 /\ (prev.hour = hour => prev.known),
   excess |-> sample.at - prev.last.at > elapsed \/ prev.last.cpuGap > 0]

\* Mistaken variant of RowAfter: a refresh replaces what the hour had.
RowAfterReplacing(prev, elapsed) ==
  RowOf(prev, elapsed, DeltaNet(prev.last),
        IF prev.hour = hour THEN prev.from ELSE prev.last.sent)

\* The row to store when prev was the row before; a refresh adds to its own hour.
RowAfter(prev, elapsed) ==
  IF prev.hour = hour
  THEN RowOf(prev, elapsed, prev.bandwidth + DeltaNet(prev.last), prev.from)
  ELSE RowOf(prev, elapsed, DeltaNet(prev.last), prev.last.sent)

FirstRow ==
  [hour |-> hour, bandwidth |-> 0, percent |-> 0, last |-> sample,
   from |-> sample.sent, whole |-> TRUE, known |-> TRUE, excess |-> FALSE]

\* The row of this hour.
ListHourlyMetrics == {r \in rows : r.hour = hour}

\* The last row before this hour.
LatestHourlyMetrics ==
  {prev \in rows : /\ prev.hour < hour
                   /\ \A r \in rows : r.hour < hour => r.hour <= prev.hour}

\* The row that follows from the one of this hour, else from the last one before,
\* else from none.
ReadRows ==
  /\ round = "reading"
  /\ \/ /\ \/ \E prev \in ListHourlyMetrics : new' = {RowAfter(prev, Interval)}
           \/ \E prev \in LatestHourlyMetrics :
                /\ ListHourlyMetrics = {}
                /\ new' = {RowAfter(prev, (hour - prev.hour) * TicksPerHour)}
           \/ ListHourlyMetrics \cup LatestHourlyMetrics = {} /\ new' = {FirstRow}
        /\ round' = "storing"
        /\ UNCHANGED failed
     \/ /\ Fault
        /\ round' = "purging"
        /\ UNCHANGED new
  /\ UNCHANGED <<now, vmVars, rows, hour, sample>>

\* Mistaken variant of UpsertHourlyMetrics: a plain INSERT.
UpsertHourlyMetricsInsert ==
  /\ round = "storing"
  /\ rows' = rows \cup new
  /\ round' = "purging"
  /\ new' = {}
  /\ UNCHANGED <<now, failed, vmVars, hour, sample>>

\* INSERT ... ON CONFLICT (instance_id, hour) DO UPDATE
UpsertHourlyMetrics ==
  /\ round = "storing"
  /\ \/ /\ rows' = {r \in rows : r.hour # hour} \cup new
        /\ UNCHANGED failed
     \/ Fault /\ UNCHANGED rows
  /\ round' = "purging"
  /\ new' = {}
  /\ UNCHANGED <<now, vmVars, hour, sample>>

\* The round ends with a purge; its limit is not rounded to an hour.
PurgeOldHourlyMetrics ==
  LET old == {r \in rows : r.hour * TicksPerHour < now - RetentionHours * TicksPerHour}
  IN  /\ round = "purging"
      /\ \/ rows' = rows \ old /\ UNCHANGED failed
         \/ Fault /\ UNCHANGED rows
      /\ round' = "waiting"
      /\ hour' = 0 /\ sample' = NoReading
      /\ UNCHANGED <<now, vmVars, new>>

\* The server dies; it samples again when it is back.
ServerCrash ==
  /\ round # "down"
  /\ Fault
  /\ round' = "down"
  /\ hour' = 0 /\ sample' = NoReading /\ new' = {}
  /\ UNCHANGED <<now, vmVars, rows>>

HourlyNext ==
  \/ \E bytes \in 0..MaxRate, busy \in Loads : Pass(bytes, busy)
  \/ PowerCycle
  \/ BeginRound
  \/ ResourceSample
  \/ ReadRows
  \/ UpsertHourlyMetrics
  \/ PurgeOldHourlyMetrics
  \/ ServerCrash

HourlySpec == HourlyInit /\ [][HourlyNext]_hourlyVars

------------------------------------------------------------------------------
(***************************************************************************)
(* Properties.                                                             *)
(***************************************************************************)

\* The rows GetHourlyMetrics returns for the last n hours.
GetHourlyMetrics(n) ==
  {r \in rows : HourOf(now) - (n - 1) <= r.hour /\ r.hour <= HourOf(now)}

\* The chart shows no byte twice: a row shows no more than the guest sent in the
\* stretch the row is for, and the stretches of two rows do not overlap, across
\* restarts of guest and server, refreshed hours, failed samples and failed writes.
\* Only a row one of whose readings lacked a counter may show bytes again.
ShownOnce(chart) ==
  /\ \A r \in chart : r.known => r.bandwidth <= r.last.sent - r.from
  /\ \A r \in chart : r.last.sent <= sent
  /\ \A r, s \in chart : r.hour < s.hour => r.last.sent <= s.from

\* A failed or missed sample loses nothing: each row begins where the one before
\* it ends, and shows every byte of its stretch unless the guest restarted there or
\* a reading lacked a counter.
NothingMissed(chart) ==
  /\ \A r \in chart : r.whole /\ r.known => r.bandwidth = r.last.sent - r.from
  /\ \A r, s \in chart :
       r.hour < s.hour /\ (\A q \in chart : q.hour <= r.hour \/ s.hour <= q.hour)
         => s.from = r.last.sent

\* The chart conserves bytes: each appears once, in one hour.
ChartConserves ==
  \A n \in 1..(MaxTick + 1) :
    LET chart == GetHourlyMetrics(n) IN ShownOnce(chart) /\ NothingMissed(chart)

\* docs.txt: 100 percent is all of the instance's cores, or of its part of one.  True
\* unless the sample was later than the interval the percentage was computed for, or
\* the one before lacked the CPU usage.
CpuWithinAllocation == \A r \in rows : ~r.excess => r.percent <= 100
================================================================================
