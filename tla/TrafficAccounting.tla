--------------------------- MODULE TrafficAccounting ---------------------------
(***************************************************************************)
(* Monthly traffic metering and throttling of one instance, and its daily  *)
(* bandwidth chart (internal/service/traffic.go, usage.go).  trafficLoop   *)
(* is one goroutine that reconciles the instance's row with the byte       *)
(* counter of its NIC; StartInstance applies the stored throttle flag to   *)
(* the NIC from a request goroutine; the guest is switched off and on and  *)
(* sends bytes at any time.  Every call to Incus or Postgres is a step.    *)
(***************************************************************************)
EXTENDS Integers

CONSTANTS
  Quota,          \* traffic_monthly_gb in units of traffic; 0 is unlimited
  DaysPerMonth,   \* days of a billing period
  RetentionDays,  \* cfg.Usage.DailyRetentionDays
  Failures,       \* which external calls may fail
  MaxDay,         \* bound on the days that pass
  MaxBytes,       \* bound on the bytes the guest transfers
  MaxCycles,      \* bound on how often the guest is switched off
  MaxFaults       \* bound on the calls that fail

Failure == {"probe", "count", "policy", "save", "daily", "limits", "crash"}

ASSUME TrafficAssumption ==
  /\ Quota \in Nat
  /\ DaysPerMonth \in Nat \ {0}
  /\ RetentionDays \in Nat
  /\ Failures \subseteq Failure
  /\ MaxDay \in Nat /\ MaxBytes \in Nat /\ MaxCycles \in Nat /\ MaxFaults \in Nat

VARIABLES
  day,       \* the UTC date
  power,     \* the guest is running
  counter,   \* eth0 bytes received and sent since the guest was switched on
  life,      \* bytes the guest has transferred since it exists
  nic,       \* limits.max of eth0: the plan's bandwidth, or 8kbit
  status,    \* instances.status: "live" is running or stopped
  row,       \* the traffic columns of the instance's row
  daily,     \* the instance's rows of instance_daily_usage, by day
  pc,        \* where trafficLoop is
  loc,       \* reconcileInstanceTraffic's copy of the row
  starter,   \* where StartInstance is
  seen,      \* the throttle flag StartInstance has read
  cycles,    \* how often the guest was switched off
  faults,    \* how many calls have failed
  upset      \* history: what has happened of Upset

loopVars  == <<pc, loc>>
startVars == <<starter, seen>>
guestVars == <<power, counter, life, cycles>>
faultVars == <<faults, upset>>
vars == <<day, guestVars, nic, status, row, daily, loopVars, startVars, faultVars>>

------------------------------------------------------------------------------
Day   == 0..MaxDay

\* What the promises about the meter and the throttle do not survive: a probe that
\* found the guest stopped or its counter lower when it was not, a policy call that
\* failed, a start that overlapped a reconcile.
Upset == {"probe", "policy", "overlap"}
Bytes == 0..MaxBytes

\* CurrentTrafficPeriod
Period(d) == d \div DaysPerMonth

\* "from" is a history variable: the guest's lifetime bytes when the period's
\* baseline was read.  The code has no such column.
Account == [used : Nat, snap : Bytes, period : Nat, throttled : BOOLEAN, from : Bytes]

NoSample == [known |-> FALSE, base |-> 0, bandwidth |-> 0]

Sample == [known : BOOLEAN, base : Nat, bandwidth : Nat]

TypeOK ==
  /\ day \in Day
  /\ power \in BOOLEAN
  /\ counter \in Bytes
  /\ life \in Bytes
  /\ nic \in {"full", "slow"}
  /\ status \in {"creating", "live", "error"}
  /\ row \in Account
  /\ loc \in Account
  /\ daily \in [Day -> Sample]
  /\ pc \in {"idle", "probe", "count", "throttle", "save", "daily", "purge"}
  /\ starter \in {"idle", "limits", "boot"}
  /\ seen \in BOOLEAN
  /\ cycles \in 0..MaxCycles
  /\ faults \in 0..MaxFaults
  /\ upset \subseteq Upset

NewAccount == [used |-> 0, snap |-> 0, period |-> Period(0),
               throttled |-> FALSE, from |-> 0]

\* The container has just been created by provision, which is still under way.
Init ==
  /\ day = 0
  /\ power = TRUE /\ counter = 0 /\ life = 0 /\ cycles = 0
  /\ nic = "full"
  /\ status = "creating"
  /\ row = NewAccount
  /\ daily = [d \in Day |-> NoSample]
  /\ pc = "idle" /\ loc = NewAccount
  /\ starter = "idle" /\ seen = FALSE
  /\ faults = 0 /\ upset = {}

\* The call named f fails, as often as MaxFaults allows.
Fails(f) ==
  /\ f \in Failures
  /\ faults < MaxFaults
  /\ faults' = faults + 1
  /\ upset' = upset \cup ({f} \cap Upset)

\* A start and a reconcile are under way at the same time.
Overlaps(overlap) == upset' = upset \cup (IF overlap THEN {"overlap"} ELSE {})

------------------------------------------------------------------------------
(***************************************************************************)
(* The guest, the calendar, and requests that change only the status.      *)
(***************************************************************************)

\* The guest sends or receives.
Transfer ==
  /\ power
  /\ life < MaxBytes
  /\ counter' = counter + 1
  /\ life' = life + 1
  /\ UNCHANGED <<day, power, cycles, nic, status, row, daily, loopVars, startVars, faultVars>>

\* StopInstance, the first half of RestartInstance, a guest that shuts down.
PowerOff ==
  /\ power
  /\ cycles < MaxCycles
  /\ power' = FALSE
  /\ counter' = 0
  /\ cycles' = cycles + 1
  /\ UNCHANGED <<day, life, nic, status, row, daily, loopVars, startVars, faultVars>>

\* The second half of RestartInstance; ResetRootPassword's EnsureStarted.
PowerOn ==
  /\ ~power
  /\ power' = TRUE
  /\ UNCHANGED <<day, counter, life, cycles, nic, status, row, daily,
                 loopVars, startVars, faultVars>>

NextDay ==
  /\ day < MaxDay
  /\ day' = day + 1
  /\ UNCHANGED <<guestVars, nic, status, row, daily, loopVars, startVars, faultVars>>

\* provision ends with status running or error; syncStatusFromIncus turns error
\* into running or stopped.
SetStatus ==
  /\ \/ status = "creating" /\ status' \in {"live", "error"}
     \/ status = "error" /\ status' = "live"
  /\ UNCHANGED <<day, guestVars, nic, row, daily, loopVars, startVars, faultVars>>

------------------------------------------------------------------------------
(***************************************************************************)
(* trafficLoop: one reconcile of the instance.                             *)
(***************************************************************************)

\* Bytes charged between two counter values.  A smaller value means that the
\* counter was reset.
Delta(last, current) == IF current >= last THEN current - last ELSE current

\* Mistaken variants of AccumulateTraffic: a reset counter is not noticed; the
\* whole counter is charged again.
AccumulateTrafficNoReset(a, current) ==
  [a EXCEPT !.used = @ + current - a.snap, !.snap = current]

AccumulateTrafficTotal(a, current) ==
  [a EXCEPT !.used = @ + current, !.snap = current]

AccumulateTraffic(a, current) ==
  [a EXCEPT !.used = @ + Delta(a.snap, current), !.snap = current]

TrafficExceeded(used) == Quota > 0 /\ used >= Quota

PeriodChanged == loc.period # row.period

\* The copy that a new period starts with; its baseline; its flag.
NewPeriod(a, p) == [a EXCEPT !.period = p, !.used = 0, !.throttled = FALSE]

Rebase(a, current, now) == [a EXCEPT !.snap = current, !.from = now]

Flag(a, throttled) == [a EXCEPT !.throttled = throttled]

\* ListActiveInstances and the period of now; on a new period the copy starts
\* over.  An instance that is neither running nor stopped is skipped.
Reconcile ==
  /\ pc = "idle"
  /\ IF status = "live"
       THEN /\ pc' = "probe"
            /\ loc' = IF row.period = Period(day) THEN row
                      ELSE NewPeriod(row, Period(day))
       ELSE pc' = "purge" /\ UNCHANGED loc
  /\ Overlaps(starter # "idle")
  /\ UNCHANGED <<day, guestVars, nic, status, row, daily, startVars, faults>>

\* incus.IsRunning: an error of the call reads as "not running".  At the start of
\* a period the counter of a guest that does not run is taken to be 0.
NotRunning ==
  /\ pc = "probe"
  /\ \/ ~power /\ UNCHANGED faultVars
     \/ power /\ Fails("probe")
  /\ loc' = IF PeriodChanged THEN Rebase(loc, 0, life) ELSE loc
  /\ pc' = "throttle"
  /\ UNCHANGED <<day, guestVars, nic, status, row, daily, startVars>>

IsRunning ==
  /\ pc = "probe"
  /\ power
  /\ pc' = "count"
  /\ UNCHANGED <<day, guestVars, nic, status, row, daily, loc, startVars, faultVars>>

\* The meter after a reading of the counter; the first of a period is its baseline.
Count(current) ==
  IF PeriodChanged THEN Rebase(loc, current, life) ELSE AccumulateTraffic(loc, current)

\* incus.NetworkBytesTotal, 0 when the guest has stopped meanwhile.  The state of a
\* running guest may lack the NIC or the counter of a direction, which counts as 0.
\* An error ends the reconcile of this instance.
NetworkBytesTotal ==
  /\ pc = "count"
  /\ \/ /\ loc' = Count(counter)
        /\ pc' = "throttle"
        /\ UNCHANGED faultVars
     \/ /\ Fails("probe")
        /\ \E lacking \in 0..counter : loc' = Count(lacking)
        /\ pc' = "throttle"
     \/ /\ Fails("count")
        /\ pc' = "purge"
        /\ UNCHANGED loc
  /\ UNCHANGED <<day, guestVars, nic, status, row, daily, startVars>>

\* Mistaken variant of ApplyNetworkPolicy: only a flag that is set is looked at.
ApplyNetworkPolicyLiftOnly ==
  LET keep == loc.throttled /\ TrafficExceeded(loc.used) IN
  /\ pc = "throttle"
  /\ loc' = Flag(loc, keep)
  /\ nic' = IF keep = loc.throttled THEN nic ELSE "full"
  /\ pc' = "save"
  /\ UNCHANGED <<day, guestVars, status, row, daily, startVars, faultVars>>

\* The flag follows the meter; the NIC is changed only when the flag changes.
\* An error of the policy call is logged, and the flag is stored all the same.
ApplyNetworkPolicy ==
  LET exceeded == TrafficExceeded(loc.used) IN
  /\ pc = "throttle"
  /\ loc' = Flag(loc, exceeded)
  /\ \/ /\ exceeded = loc.throttled
        /\ UNCHANGED <<nic, faultVars>>
     \/ /\ exceeded # loc.throttled
        /\ nic' = IF exceeded THEN "slow" ELSE "full"
        /\ UNCHANGED faultVars
     \/ /\ exceeded # loc.throttled
        /\ Fails("policy")
        /\ UNCHANGED nic
  /\ pc' = "save"
  /\ UNCHANGED <<day, guestVars, status, row, daily, startVars>>

\* store.UpdateTrafficAccounting, when something changed; its error ends the
\* reconcile of this instance, with the NIC changed already.
UpdateTrafficAccounting ==
  /\ pc = "save"
  /\ \/ row' = loc /\ pc' = "daily" /\ UNCHANGED faultVars
     \/ loc # row /\ Fails("save") /\ pc' = "purge" /\ UNCHANGED row
  /\ UNCHANGED <<day, guestVars, nic, status, daily, loc, startVars>>

\* Mistaken variant of DailySample: a new day starts from baseline 0.
DailySampleFromZero(prev, used) ==
  IF prev.known /\ used < prev.base
    THEN [known |-> TRUE, base |-> used, bandwidth |-> 0]
    ELSE [prev EXCEPT !.known = TRUE, !.bandwidth = used - prev.base]

\* Today's row after a sample: bandwidth is counted from the day's first sample,
\* and from the meter's reset when the period changed since.
DailySample(prev, used) ==
  IF ~prev.known \/ used < prev.base
    THEN [known |-> TRUE, base |-> used, bandwidth |-> 0]
    ELSE [prev EXCEPT !.bandwidth = used - prev.base]

\* recordDailyUsage, on the date it is called; an error is logged.
RecordDailyUsage ==
  /\ pc = "daily"
  /\ \/ /\ daily' = [daily EXCEPT ![day] = DailySample(@, loc.used)]
        /\ UNCHANGED faultVars
     \/ Fails("daily") /\ UNCHANGED daily
  /\ pc' = "purge"
  /\ UNCHANGED <<day, guestVars, nic, status, row, loc, startVars>>

\* purgeOldDailyUsage, the end of the cycle.
PurgeOldDailyUsage ==
  /\ pc = "purge"
  /\ daily' = [d \in Day |-> IF d < day - RetentionDays THEN NoSample ELSE daily[d]]
  /\ pc' = "idle" /\ loc' = NewAccount
  /\ UNCHANGED <<day, guestVars, nic, status, row, startVars, faultVars>>

------------------------------------------------------------------------------
(***************************************************************************)
(* StartInstance.                                                          *)
(***************************************************************************)

\* store.GetInstance
StartInstance ==
  /\ starter = "idle"
  /\ seen' = row.throttled
  /\ starter' = "limits"
  /\ Overlaps(pc # "idle")
  /\ UNCHANGED <<day, guestVars, nic, status, row, daily, loopVars, faults>>

\* Mistaken variant of UpdateResourceLimits: the plan's bandwidth, always.
UpdateResourceLimitsPlan ==
  /\ starter = "limits"
  /\ nic' = "full"
  /\ starter' = "boot"
  /\ UNCHANGED <<day, guestVars, status, row, daily, loopVars, seen, faultVars>>

\* incus.UpdateResourceLimits with the flag that was read; an error is logged.
UpdateResourceLimits ==
  /\ starter = "limits"
  /\ \/ nic' = (IF seen THEN "slow" ELSE "full") /\ UNCHANGED faultVars
     \/ Fails("limits") /\ UNCHANGED nic
  /\ starter' = "boot"
  /\ UNCHANGED <<day, guestVars, status, row, daily, loopVars, seen>>

\* EnsureStarted, ports and SSH, and status running; or an error on the way.
FinishStart ==
  /\ starter = "boot"
  /\ power' \in {power, TRUE}
  /\ status' \in {status} \cup (IF power' THEN {"live"} ELSE {})
  /\ starter' = "idle"
  /\ seen' = FALSE
  /\ UNCHANGED <<day, counter, life, cycles, nic, row, daily, loopVars, faultVars>>

\* The server dies between two steps and is started again.
Crash ==
  /\ Fails("crash")
  /\ pc' = "idle" /\ loc' = NewAccount
  /\ starter' = "idle" /\ seen' = FALSE
  /\ UNCHANGED <<day, guestVars, nic, status, row, daily>>

LoopStep ==
  \/ Reconcile               \/ NotRunning       \/ IsRunning
  \/ NetworkBytesTotal       \/ ApplyNetworkPolicy
  \/ UpdateTrafficAccounting \/ RecordDailyUsage \/ PurgeOldDailyUsage

StartStep == UpdateResourceLimits \/ FinishStart

Next ==
  \/ Transfer \/ PowerOff \/ PowerOn \/ NextDay \/ SetStatus
  \/ LoopStep
  \/ StartInstance \/ StartStep
  \/ Crash

Spec == Init /\ [][Next]_vars

\* The ticker keeps the loop going, requests are served, provisioning ends.
Fairness ==
  /\ WF_vars(LoopStep)
  /\ WF_vars(StartStep)
  /\ WF_vars(SetStatus)

FairSpec == Spec /\ Fairness

------------------------------------------------------------------------------
(***************************************************************************)
(* Properties.                                                             *)
(***************************************************************************)

\* The meter never charges more than the guest transferred since the period's
\* baseline, whatever resets the counter, fails or crashes in between, unless a
\* running guest was taken to be stopped or its counter to be lower than it is.
ChargedAtMost == "probe" \notin upset => row.used <= life - row.from

\* Nothing has happened that lets the NIC and the flag disagree.
Steady == upset \cap {"policy", "overlap"} = {}

\* An instance whose row says "throttled" has a slow NIC once nobody is about to
\* change it: a restart, a failed save or a crash never leave it at full speed.
ThrottleHolds ==
  Steady /\ pc = "idle" /\ starter = "idle" /\ row.throttled => nic = "slow"

\* The chart never shows more than the meter: within a period the days'
\* bandwidths are disjoint parts of the bytes charged, also when a reconcile
\* that began before midnight records its sample after it.
ChartWithinMeter ==
  LET shown == {d \in Day : Period(d) = row.period /\ daily[d].bandwidth > 0}
      end(d) == daily[d].base + daily[d].bandwidth
  IN  /\ \A d \in shown : end(d) <= row.used
      /\ \A d, e \in shown : d < e => end(d) <= daily[e].base

OverQuota ==
  /\ status = "live" /\ power
  /\ row.period = Period(day)
  /\ TrafficExceeded(row.used + Delta(row.snap, counter))

\* A guest that exceeds its quota is slowed down, unless it stops or the period
\* ends first, whichever probe, count or save fails and wherever a crash hits.
QuotaEnforced ==
  OverQuota ~> (nic = "slow" \/ ~power \/ row.period # Period(day) \/ ~Steady)

\* A guest that was slowed down is given its bandwidth back once the meter is
\* below the quota again, which is when the next period begins.
ThrottleLifted ==
  (nic = "slow" /\ ~TrafficExceeded(row.used)) ~>
    (nic = "full" \/ TrafficExceeded(row.used))
================================================================================
