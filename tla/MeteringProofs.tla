---------------------------- MODULE MeteringProofs -----------------------------
(***************************************************************************)
(* The two meters: the monthly account, the throttle and the daily chart   *)
(* of TrafficAccounting for every quota, month length, retention and       *)
(* bound, and, in the second part, the hourly chart of HourlyMetrics for   *)
(* every interval, retention, allocation and bound.                        *)
(***************************************************************************)
EXTENDS TrafficAccounting, HourlyMetrics, WellFoundedInduction, TLAPS

------------------------------------------------------------------------------
(***************************************************************************)
(* The inductive invariants.                                               *)
(***************************************************************************)

\* The counter starts from 0 when the guest is switched on.
CounterInv == counter <= life /\ (~power => counter = 0)

\* The locations in which loc is the copy of a reconcile under way.
Measuring == {"probe", "count"}
Measured  == {"throttle", "save"}

\* What the account has charged and what the next reading would add.
Covered(a) == a.used + Delta(a.snap, counter) <= life - a.from

\* While nothing has been read, the copy is the row, or starts a new period.
CopyInv ==
  /\ pc \in Measuring => loc = row \/ (loc.period # row.period /\ loc.used = 0)
  /\ pc = "daily" => loc = row

MeterInv == Covered(row) /\ (pc \in Measured => Covered(loc))

\* A start and a reconcile do not overlap; the start has read the current flag.
SerialInv == starter # "idle" => pc = "idle" /\ seen = row.throttled

\* A flag that is stored, or about to be stored, is on the NIC.
FlagInv ==
  /\ row.throttled => nic = "slow" /\ TrafficExceeded(row.used)
  /\ pc \in Measuring \cup {"throttle"} =>
       (loc.throttled => row.throttled /\ TrafficExceeded(loc.used))
  /\ pc = "save" => loc.throttled = TrafficExceeded(loc.used)
                    /\ (loc.throttled => nic = "slow")

\* Periods only grow.
PeriodInv ==
  /\ row.period <= Period(day)
  /\ pc \in Measuring \cup Measured \cup {"daily"} =>
       row.period <= loc.period /\ loc.period <= Period(day)
  /\ pc \in Measuring \cup Measured /\ loc.period = row.period =>
       row.used <= loc.used

\* Samples are of days that have begun; a sample of a day whose period is ahead
\* of the row's shows no bandwidth, and no reconcile that could add any is
\* under way.
SampleInv ==
  /\ \A d \in Day : daily[d].known => d <= day
  /\ \A d \in Day : ~daily[d].known => daily[d].bandwidth = 0
  /\ \A d \in Day : Period(d) > row.period => daily[d].bandwidth = 0
  /\ pc \in Measuring \cup Measured \cup {"daily"} =>
       \A d \in Day : daily[d].known => Period(d) <= loc.period

\* The days of the row's period are disjoint parts of the meter.
ChartInv ==
  \A d \in Day :
    Period(d) = row.period /\ daily[d].bandwidth > 0 =>
      /\ daily[d].base + daily[d].bandwidth <= row.used
      /\ \A e \in Day :
           d < e /\ daily[e].known /\ Period(e) = row.period =>
             daily[d].base + daily[d].bandwidth <= daily[e].base

------------------------------------------------------------------------------
(***************************************************************************)
(* Lemmas.                                                                 *)
(***************************************************************************)
USE TrafficAssumption

\* Later days are not in earlier periods.
LEMMA PeriodMonotone ==
  \A d, e \in Nat : d <= e => Period(d) <= Period(e)
  BY DEF Period

\* A period is a number.
LEMMA PeriodType == \A d \in Nat : Period(d) \in Nat
  BY DEF Period

\* What a reading charges is a number of bytes.
LEMMA DeltaType == \A a, b \in Nat : Delta(a, b) \in Nat
  BY DEF Delta

\* The columns of an account have their types.
LEMMA AccountFields ==
  ASSUME NEW a \in Account
  PROVE  /\ a.used \in Nat /\ a.snap \in 0..MaxBytes /\ a.period \in Nat
         /\ a.throttled \in BOOLEAN /\ a.from \in 0..MaxBytes
  BY DEF Account, Bytes

\* The account of a new instance.
LEMMA NewAccountType == NewAccount \in Account
  BY PeriodType DEF NewAccount, Account, Bytes

\* The copy a reconcile starts a new period with.
LEMMA FreshPeriod ==
  ASSUME NEW a \in Account, NEW p \in Nat
  PROVE  LET b == NewPeriod(a, p)
         IN  b \in Account /\ b.used = 0 /\ b.period = p /\ b.throttled = FALSE
  BY DEF Account, NewPeriod

\* The baseline of a new period.
LEMMA Baseline ==
  ASSUME NEW a \in Account, NEW s \in Bytes, NEW f \in Bytes
  PROVE  LET b == Rebase(a, s, f)
         IN  /\ b \in Account /\ b.snap = s /\ b.from = f
             /\ b.used = a.used /\ b.period = a.period /\ b.throttled = a.throttled
  BY DEF Account, Rebase

\* AccumulateTraffic charges the difference and moves the snapshot.
LEMMA Charge ==
  ASSUME NEW a \in Account, NEW c \in Bytes
  PROVE  LET b == AccumulateTraffic(a, c)
         IN  /\ b \in Account /\ b.used = a.used + Delta(a.snap, c)
             /\ b.snap = c /\ b.from = a.from
             /\ b.period = a.period /\ b.throttled = a.throttled
  <1>1. a.used \in Nat /\ a.snap \in Nat /\ c \in Nat
    BY AccountFields DEF Bytes
  <1>2. Delta(a.snap, c) \in Nat
    BY <1>1, DeltaType
  <1>3. a.used + Delta(a.snap, c) \in Nat
    BY <1>1, <1>2
  <1> QED
    BY <1>3 DEF Account, AccumulateTraffic

\* A reading only adds to what is charged, and leaves period and flag alone.
LEMMA Counted ==
  ASSUME TypeOK, NetworkBytesTotal
  PROVE  /\ loc' \in Account /\ loc'.used \in Nat /\ loc.used <= loc'.used
         /\ loc'.period = loc.period /\ loc'.throttled = loc.throttled
  <1>1. loc \in Account /\ life \in Bytes /\ counter \in 0..MaxBytes
    BY DEF TypeOK, Bytes
  <1>2. loc.used \in Nat /\ loc.snap \in Nat
    BY <1>1, AccountFields
  <1>3. loc' = loc \/ \E n \in 0..counter : loc' = Count(n)
    BY <1>1 DEF NetworkBytesTotal
  <1>4. ASSUME NEW n \in 0..counter, loc' = Count(n)
        PROVE  /\ loc' \in Account /\ loc'.used \in Nat /\ loc.used <= loc'.used
               /\ loc'.period = loc.period /\ loc'.throttled = loc.throttled
    <2>1. n \in Bytes /\ n \in Nat
      BY <1>1 DEF Bytes
    <2>2. Delta(loc.snap, n) \in Nat
      BY <1>2, <2>1, DeltaType
    <2>3. CASE loc' = Rebase(loc, n, life)
      BY <1>1, <1>2, <2>1, <2>3, Baseline
    <2>4. CASE loc' = AccumulateTraffic(loc, n)
      BY <1>1, <1>2, <2>1, <2>2, <2>4, Charge
    <2> QED
      BY <1>4, <2>3, <2>4 DEF Count
  <1> QED
    BY <1>1, <1>2, <1>3, <1>4

\* The throttle flag.
LEMMA Flagged ==
  ASSUME NEW a \in Account, NEW t \in BOOLEAN
  PROVE  LET b == Flag(a, t)
         IN  /\ b \in Account /\ b.throttled = t /\ b.used = a.used
             /\ b.snap = a.snap /\ b.from = a.from /\ b.period = a.period
  BY DEF Account, Flag

\* What a reconcile copies.
LEMMA Copied ==
  ASSUME TypeOK, Reconcile, pc' = "probe"
  PROVE  /\ loc' \in Account /\ loc'.period = Period(day)
         /\ \/ loc' = row
            \/ loc'.period # row.period /\ loc'.used = 0 /\ ~loc'.throttled
  <1>1. Period(day) \in Nat /\ row \in Account
    BY PeriodType DEF TypeOK, Day
  <1>2. loc' = IF row.period = Period(day) THEN row ELSE NewPeriod(row, Period(day))
    BY Zenon DEF Reconcile
  <1>3. CASE row.period = Period(day)
    BY <1>1, <1>2, <1>3
  <1>4. CASE row.period # Period(day)
    <2>1. loc' = NewPeriod(row, Period(day))
      BY <1>2, <1>4
    <2> QED
      BY <1>1, <1>4, <2>1, FreshPeriod
  <1> QED
    BY <1>3, <1>4

\* A sample of the meter is a sample.
LEMMA SampleType ==
  ASSUME NEW prev \in Sample, NEW used \in Nat
  PROVE  DailySample(prev, used) \in Sample
  <1>1. CASE ~prev.known \/ used < prev.base
    BY <1>1 DEF DailySample, Sample
  <1>2. CASE prev.known /\ ~(used < prev.base)
    <2>1. used - prev.base \in Nat
      BY <1>2 DEF Sample
    <2> QED
      BY <1>2, <2>1 DEF DailySample, Sample
  <1> QED
    BY <1>1, <1>2 DEF Sample

\* Types, and the counter is part of what the guest has transferred.
LEMMA TypeStep ==
  ASSUME TypeOK, CounterInv, [Next]_vars
  PROVE  TypeOK' /\ CounterInv'
  <1>1. CASE Transfer
    BY <1>1 DEF Transfer, loopVars, startVars, guestVars, faultVars, TypeOK, CounterInv, Bytes
  <1>2. CASE PowerOff
    <2>1. counter' \in Bytes /\ cycles' \in 0..MaxCycles
      BY <1>2 DEF PowerOff, TypeOK, Bytes
    <2>2. TypeOK'
      BY <1>2, <2>1 DEF PowerOff, TypeOK, loopVars, startVars, faultVars
    <2>3. counter' <= life'
      BY <1>2 DEF PowerOff, TypeOK, Bytes
    <2> QED
      BY <1>2, <2>2, <2>3 DEF PowerOff, CounterInv
  <1>3. CASE PowerOn
    BY <1>3 DEF PowerOn, loopVars, startVars, guestVars, faultVars, TypeOK, CounterInv, Bytes
  <1>4. CASE NextDay
    BY <1>4 DEF NextDay, TypeOK, CounterInv, Day, loopVars, startVars, guestVars, faultVars
  <1>5. CASE SetStatus
    BY <1>5 DEF SetStatus, loopVars, startVars, guestVars, faultVars, TypeOK, CounterInv, Bytes
  <1>6. CASE Reconcile
    <2>1. loc' \in Account
      BY <1>6, Copied DEF Reconcile, TypeOK
    <2> QED
      BY <1>6, <2>1 DEF Reconcile, Overlaps, Upset, TypeOK, CounterInv, startVars, guestVars, faultVars
  <1>7. CASE NotRunning
    <2>1. loc' \in Account
      BY <1>7, Baseline DEF NotRunning, TypeOK, Bytes
    <2> QED
      BY <1>7, <2>1 DEF NotRunning, Fails, TypeOK, CounterInv, startVars, guestVars, faultVars
  <1>8. CASE IsRunning
    BY <1>8 DEF IsRunning, loopVars, startVars, guestVars, faultVars, TypeOK, CounterInv, Bytes
  <1>9. CASE NetworkBytesTotal
    BY <1>9, Counted DEF NetworkBytesTotal, Fails, TypeOK, CounterInv,
                         startVars, guestVars, faultVars
  <1>10. CASE ApplyNetworkPolicy
    <2>1. loc' \in Account
      BY <1>10, Flagged DEF ApplyNetworkPolicy, TypeOK, TrafficExceeded
    <2> QED
      BY <1>10, <2>1 DEF ApplyNetworkPolicy, Fails, TypeOK, CounterInv,
                         startVars, guestVars, faultVars
  <1>11. CASE UpdateTrafficAccounting
    BY <1>11 DEF UpdateTrafficAccounting, Fails, loopVars, startVars, guestVars, faultVars, TypeOK, CounterInv, Bytes
  <1>12. CASE RecordDailyUsage
    <2>1. \A d \in Day : DailySample(daily[d], loc.used) \in Sample
      BY SampleType, AccountFields DEF TypeOK
    <2>2. daily' \in [Day -> Sample]
      BY <1>12, <2>1 DEF RecordDailyUsage, TypeOK
    <2> QED
      BY <1>12, <2>2 DEF RecordDailyUsage, Fails, TypeOK, CounterInv,
                         startVars, guestVars, faultVars
  <1>13. CASE PurgeOldDailyUsage
    <2>1. NoSample \in Sample
      BY DEF NoSample, Sample
    <2> QED
      BY <1>13, <2>1, NewAccountType DEF PurgeOldDailyUsage, TypeOK, CounterInv,
                                         startVars, guestVars, faultVars
  <1>14. CASE StartInstance
    BY <1>14, AccountFields DEF StartInstance, Overlaps, Upset, TypeOK, CounterInv, loopVars, guestVars
  <1>15. CASE UpdateResourceLimits
    BY <1>15 DEF UpdateResourceLimits, Fails, loopVars, startVars, guestVars, faultVars, TypeOK, CounterInv, Bytes
  <1>16. CASE FinishStart
    <2>1. power' \in BOOLEAN /\ status' \in {"creating", "live", "error"}
      BY <1>16 DEF FinishStart, TypeOK
    <2> QED
      <3>1. TypeOK'
        BY <1>16, <2>1 DEF FinishStart, TypeOK, loopVars, faultVars
      <3>2. ~power' => ~power
        BY <1>16 DEF FinishStart
      <3> QED
        BY <1>16, <3>1, <3>2 DEF FinishStart, CounterInv
  <1>17. CASE Crash
    <2>1. faults' \in 0..MaxFaults /\ upset' \subseteq Upset
      BY <1>17 DEF Crash, Fails, TypeOK
    <2>2. TypeOK'
      BY <1>17, <2>1, NewAccountType DEF Crash, TypeOK, guestVars
    <2> QED
      BY <1>17, <2>2 DEF Crash, CounterInv, guestVars
  <1>18. CASE UNCHANGED vars
    BY <1>18 DEF vars, loopVars, startVars, guestVars, faultVars, TypeOK, CounterInv, Bytes
  <1> QED
    BY <1>1, <1>2, <1>3, <1>4, <1>5, <1>6, <1>7, <1>8, <1>9,
       <1>10, <1>11, <1>12, <1>13, <1>14, <1>15, <1>16, <1>17, <1>18
       DEF Next, LoopStep, StartStep

\* While nothing has been read, the copy is the row or starts a period.
LEMMA CopyStep ==
  ASSUME TypeOK, CopyInv, [Next]_vars
  PROVE  CopyInv'
  <1> USE DEF CopyInv, Measuring
  <1>1. CASE Transfer
    BY <1>1 DEF Transfer, loopVars, startVars, guestVars, CopyInv
  <1>2. CASE PowerOff
    BY <1>2 DEF PowerOff, loopVars, startVars, guestVars, CopyInv
  <1>3. CASE PowerOn
    BY <1>3 DEF PowerOn, loopVars, startVars, guestVars, CopyInv
  <1>4. CASE NextDay
    BY <1>4 DEF NextDay, loopVars, startVars, guestVars, CopyInv
  <1>5. CASE SetStatus
    BY <1>5 DEF SetStatus, loopVars, startVars, guestVars, CopyInv
  <1>6. CASE Reconcile
    BY <1>6, Copied DEF Reconcile
  <1>7. CASE NotRunning
    BY <1>7 DEF NotRunning, Fails, loopVars, startVars, guestVars, CopyInv
  <1>8. CASE IsRunning
    BY <1>8 DEF IsRunning, loopVars, startVars, guestVars, CopyInv
  <1>9. CASE NetworkBytesTotal
    BY <1>9 DEF NetworkBytesTotal, Fails, loopVars, startVars, guestVars, CopyInv
  <1>10. CASE ApplyNetworkPolicy
    BY <1>10 DEF ApplyNetworkPolicy, Fails, loopVars, startVars, guestVars, CopyInv
  <1>11. CASE UpdateTrafficAccounting
    BY <1>11 DEF UpdateTrafficAccounting, Fails, loopVars, startVars, guestVars, CopyInv
  <1>12. CASE RecordDailyUsage
    BY <1>12 DEF RecordDailyUsage, Fails, loopVars, startVars, guestVars, CopyInv
  <1>13. CASE PurgeOldDailyUsage
    BY <1>13 DEF PurgeOldDailyUsage, loopVars, startVars, guestVars, CopyInv
  <1>14. CASE StartInstance
    BY <1>14 DEF StartInstance, loopVars, startVars, guestVars, CopyInv
  <1>15. CASE UpdateResourceLimits
    BY <1>15 DEF UpdateResourceLimits, Fails, loopVars, startVars, guestVars, CopyInv
  <1>16. CASE FinishStart
    BY <1>16 DEF FinishStart, loopVars, startVars, guestVars, CopyInv
  <1>17. CASE Crash
    BY <1>17 DEF Crash, Fails, loopVars, startVars, guestVars, CopyInv
  <1>18. CASE UNCHANGED vars
    BY <1>18 DEF vars, loopVars, startVars, guestVars, CopyInv
  <1> QED
    BY <1>1, <1>2, <1>3, <1>4, <1>5, <1>6, <1>7, <1>8, <1>9,
       <1>10, <1>11, <1>12, <1>13, <1>14, <1>15, <1>16, <1>17, <1>18
       DEF Next, LoopStep, StartStep

\* What has happened is not forgotten.
LEMMA UpsetGrows ==
  ASSUME [Next]_vars
  PROVE  upset \subseteq upset'
  BY DEF Next, LoopStep, StartStep, Transfer, PowerOff, PowerOn, NextDay, SetStatus,
         Reconcile, NotRunning, IsRunning, NetworkBytesTotal, ApplyNetworkPolicy,
         UpdateTrafficAccounting, RecordDailyUsage, PurgeOldDailyUsage,
         StartInstance, UpdateResourceLimits, FinishStart, Crash,
         Fails, Overlaps, faultVars, vars

\* The invariant of the meter, as long as no probe has misled it.
LEMMA MeterStep ==
  ASSUME TypeOK, CounterInv, CopyInv, MeterInv, "probe" \notin upset', [Next]_vars
  PROVE  MeterInv'
  <1> USE DEF CopyInv, Measuring, Measured
  <1>a. /\ row \in Account /\ loc \in Account /\ counter \in Nat /\ life \in Nat
        /\ counter \in Bytes /\ life \in Bytes
        /\ row.used \in Nat /\ row.snap \in Nat /\ row.from \in Nat
        /\ loc.used \in Nat /\ loc.snap \in Nat /\ loc.from \in Nat
    BY AccountFields DEF TypeOK, Bytes
  <1>b. /\ Delta(row.snap, counter) \in Nat /\ Delta(loc.snap, counter) \in Nat
        /\ Delta(row.snap, 0) = 0 /\ Delta(loc.snap, 0) = 0 /\ Delta(counter, counter) = 0
        /\ Delta(row.snap, counter + 1) <= Delta(row.snap, counter) + 1
        /\ Delta(loc.snap, counter + 1) <= Delta(loc.snap, counter) + 1
        /\ Delta(row.snap, counter + 1) \in Nat /\ Delta(loc.snap, counter + 1) \in Nat
    BY <1>a DEF Delta
  <1>1. CASE Transfer
    BY <1>1, <1>a, <1>b DEF Transfer, loopVars, startVars, guestVars, MeterInv, Covered
  <1>2. CASE PowerOff
    BY <1>2, <1>a, <1>b DEF PowerOff, loopVars, startVars, guestVars, MeterInv, Covered
  <1>3. CASE PowerOn
    BY <1>3, <1>a, <1>b DEF PowerOn, loopVars, startVars, guestVars, MeterInv, Covered
  <1>4. CASE NextDay
    BY <1>4, <1>a, <1>b DEF NextDay, loopVars, startVars, guestVars, MeterInv, Covered
  <1>5. CASE SetStatus
    BY <1>5, <1>a, <1>b DEF SetStatus, loopVars, startVars, guestVars, MeterInv, Covered
  <1>6. CASE Reconcile
    BY <1>6 DEF Reconcile, MeterInv, Covered, guestVars
  <1>7. CASE NotRunning
    <2>1. ~power /\ counter = 0
      BY <1>7 DEF NotRunning, Fails, Upset, CounterInv
    <2>2. CASE PeriodChanged
      <3>1. loc' = Rebase(loc, 0, life) /\ loc.used = 0
        BY <1>7, <2>2 DEF NotRunning, PeriodChanged
      <3>2. loc'.used = 0 /\ loc'.snap = 0 /\ loc'.from = life
        BY <1>a, <2>1, <3>1, Baseline
      <3>3. Covered(loc)'
        BY <1>7, <1>a, <1>b, <2>1, <3>2 DEF Covered, NotRunning, guestVars
      <3> QED
        BY <1>7, <3>3 DEF NotRunning, MeterInv, Covered, guestVars
    <2>3. CASE ~PeriodChanged
      BY <1>7, <2>3 DEF NotRunning, PeriodChanged, MeterInv, Covered, guestVars
    <2> QED
      BY <2>2, <2>3
  <1>8. CASE IsRunning
    BY <1>8, <1>a, <1>b DEF IsRunning, loopVars, startVars, guestVars, MeterInv, Covered
  <1>9. CASE NetworkBytesTotal
    <2>1. CASE pc' = "purge"
      BY <1>9, <2>1 DEF NetworkBytesTotal, MeterInv, Covered, guestVars
    <2>a. pc' = "throttle" => loc' = Count(counter)
      BY <1>9 DEF NetworkBytesTotal, Fails, Upset
    <2>2. CASE pc' = "throttle" /\ PeriodChanged
      <3>1. loc' = Rebase(loc, counter, life) /\ loc.used = 0
        BY <1>9, <2>a, <2>2 DEF NetworkBytesTotal, PeriodChanged, Count
      <3>2. loc'.used = 0 /\ loc'.snap = counter /\ loc'.from = life
        BY <1>a, <3>1, Baseline
      <3>3. Covered(loc)'
        BY <1>9, <1>a, <1>b, <3>2 DEF Covered, NetworkBytesTotal, guestVars
      <3> QED
        BY <1>9, <2>2, <3>3 DEF NetworkBytesTotal, MeterInv, Covered, guestVars
    <2>3. CASE pc' = "throttle" /\ ~PeriodChanged
      <3>1. loc' = AccumulateTraffic(loc, counter) /\ loc = row
        BY <1>9, <2>a, <2>3 DEF NetworkBytesTotal, PeriodChanged, Count
      <3>2. /\ loc'.used = row.used + Delta(row.snap, counter)
            /\ loc'.snap = counter /\ loc'.from = row.from
        BY <1>a, <3>1, Charge
      <3>3. Covered(loc)'
        BY <1>9, <1>a, <1>b, <3>2 DEF Covered, NetworkBytesTotal, guestVars, MeterInv
      <3> QED
        BY <1>9, <2>3, <3>3 DEF NetworkBytesTotal, MeterInv, Covered, guestVars
    <2> QED
      BY <1>9, <2>1, <2>2, <2>3 DEF NetworkBytesTotal
  <1>10. CASE ApplyNetworkPolicy
    <2>1. loc' = Flag(loc, TrafficExceeded(loc.used)) /\ pc' = "save"
      BY <1>10 DEF ApplyNetworkPolicy
    <2>2. loc'.used = loc.used /\ loc'.snap = loc.snap /\ loc'.from = loc.from
      BY <1>a, <2>1, Flagged DEF TrafficExceeded
    <2> QED
      BY <1>10, <2>1, <2>2 DEF ApplyNetworkPolicy, MeterInv, Covered, guestVars
  <1>11. CASE UpdateTrafficAccounting
    BY <1>11, <1>a, <1>b DEF UpdateTrafficAccounting, Fails, loopVars, startVars, guestVars, MeterInv, Covered
  <1>12. CASE RecordDailyUsage
    BY <1>12, <1>a, <1>b DEF RecordDailyUsage, Fails, loopVars, startVars, guestVars, MeterInv, Covered
  <1>13. CASE PurgeOldDailyUsage
    BY <1>13, <1>a, <1>b DEF PurgeOldDailyUsage, loopVars, startVars, guestVars, MeterInv, Covered
  <1>14. CASE StartInstance
    BY <1>14, <1>a, <1>b DEF StartInstance, loopVars, startVars, guestVars, MeterInv, Covered
  <1>15. CASE UpdateResourceLimits
    BY <1>15, <1>a, <1>b DEF UpdateResourceLimits, Fails, loopVars, startVars, guestVars, MeterInv, Covered
  <1>16. CASE FinishStart
    BY <1>16, <1>a, <1>b DEF FinishStart, loopVars, startVars, guestVars, MeterInv, Covered
  <1>17. CASE Crash
    BY <1>17, <1>a, <1>b DEF Crash, Fails, loopVars, startVars, guestVars, MeterInv, Covered
  <1>18. CASE UNCHANGED vars
    BY <1>18, <1>a, <1>b DEF vars, loopVars, startVars, guestVars, MeterInv, Covered
  <1> QED
    BY <1>1, <1>2, <1>3, <1>4, <1>5, <1>6, <1>7, <1>8, <1>9,
       <1>10, <1>11, <1>12, <1>13, <1>14, <1>15, <1>16, <1>17, <1>18
       DEF Next, LoopStep, StartStep

\* The invariant of the throttle, as long as no policy call has failed and no
\* start has overlapped a reconcile.
LEMMA ThrottleStep ==
  ASSUME TypeOK, SerialInv, FlagInv, "policy" \notin upset', "overlap" \notin upset',
         [Next]_vars
  PROVE  SerialInv' /\ FlagInv'
  <1> USE DEF SerialInv, Measuring
  <1>a. /\ row \in Account /\ loc \in Account /\ counter \in Bytes /\ life \in Bytes
        /\ row.used \in Nat /\ loc.used \in Nat /\ loc.snap \in Nat /\ counter \in Nat
        /\ row.throttled \in BOOLEAN /\ loc.throttled \in BOOLEAN
    BY AccountFields DEF TypeOK, Bytes
  <1>1. CASE Transfer
    BY <1>1, <1>a DEF Transfer, loopVars, startVars, guestVars, FlagInv
  <1>2. CASE PowerOff
    BY <1>2, <1>a DEF PowerOff, loopVars, startVars, guestVars, FlagInv
  <1>3. CASE PowerOn
    BY <1>3, <1>a DEF PowerOn, loopVars, startVars, guestVars, FlagInv
  <1>4. CASE NextDay
    BY <1>4, <1>a DEF NextDay, loopVars, startVars, guestVars, FlagInv
  <1>5. CASE SetStatus
    BY <1>5, <1>a DEF SetStatus, loopVars, startVars, guestVars, FlagInv
  <1>6. CASE Reconcile
    BY <1>6, Copied DEF Reconcile, Overlaps, FlagInv, startVars
  <1>7. CASE NotRunning
    <2>1. 0 \in Bytes
      BY DEF Bytes
    <2>2. /\ Rebase(loc, 0, life).used = loc.used
          /\ Rebase(loc, 0, life).throttled = loc.throttled
      BY <1>a, <2>1, Baseline
    <2>3. loc'.used = loc.used /\ loc'.throttled = loc.throttled
      BY <1>7, <2>2 DEF NotRunning
    <2> QED
      BY <1>7, <2>3 DEF NotRunning, FlagInv, startVars
  <1>8. CASE IsRunning
    BY <1>8, <1>a DEF IsRunning, loopVars, startVars, guestVars, FlagInv
  <1>9. CASE NetworkBytesTotal
    <2>1. CASE pc' = "purge"
      BY <1>9, <2>1 DEF NetworkBytesTotal, FlagInv, startVars
    <2>2. CASE pc' = "throttle"
      <3>1. loc'.used \in Nat /\ loc.used <= loc'.used /\ loc'.throttled = loc.throttled
        BY <1>9, Counted
      <3>2. TrafficExceeded(loc.used) => TrafficExceeded(loc'.used)
        BY <1>a, <3>1 DEF TrafficExceeded
      <3> QED
        BY <1>9, <2>2, <3>1, <3>2 DEF NetworkBytesTotal, FlagInv, startVars
    <2> QED
      BY <1>9, <2>1, <2>2 DEF NetworkBytesTotal
  <1>10. CASE ApplyNetworkPolicy
    <2>1. TrafficExceeded(loc.used) \in BOOLEAN
      BY DEF TrafficExceeded
    <2>2. loc'.used = loc.used /\ loc'.throttled = TrafficExceeded(loc.used)
      BY <1>10, <1>a, <2>1, Flagged DEF ApplyNetworkPolicy
    <2>a. loc.throttled => TrafficExceeded(loc.used)
      BY <1>10 DEF ApplyNetworkPolicy, FlagInv
    <2>3. nic' = nic \/ nic' = "slow"
      BY <1>10, <1>a, <2>1, <2>a DEF ApplyNetworkPolicy, Fails
    <2>4. loc'.throttled => nic' = "slow"
      BY <1>10, <1>a, <2>1, <2>2 DEF ApplyNetworkPolicy, Fails, Upset, FlagInv
    <2> QED
      BY <1>10, <2>2, <2>3, <2>4 DEF ApplyNetworkPolicy, FlagInv, startVars
  <1>11. CASE UpdateTrafficAccounting
    BY <1>11, <1>a DEF UpdateTrafficAccounting, Fails, loopVars, startVars, guestVars, FlagInv
  <1>12. CASE RecordDailyUsage
    BY <1>12, <1>a DEF RecordDailyUsage, Fails, loopVars, startVars, guestVars, FlagInv
  <1>13. CASE PurgeOldDailyUsage
    BY <1>13, <1>a DEF PurgeOldDailyUsage, loopVars, startVars, guestVars, FlagInv
  <1>14. CASE StartInstance
    BY <1>14, <1>a DEF StartInstance, Overlaps, loopVars, startVars, guestVars, FlagInv
  <1>15. CASE UpdateResourceLimits
    BY <1>15, <1>a DEF UpdateResourceLimits, Fails, loopVars, startVars, guestVars, FlagInv
  <1>16. CASE FinishStart
    BY <1>16, <1>a DEF FinishStart, loopVars, startVars, guestVars, FlagInv
  <1>17. CASE Crash
    BY <1>17, <1>a DEF Crash, Fails, loopVars, startVars, guestVars, FlagInv
  <1>18. CASE UNCHANGED vars
    BY <1>18, <1>a DEF vars, loopVars, startVars, guestVars, FlagInv
  <1> QED
    BY <1>1, <1>2, <1>3, <1>4, <1>5, <1>6, <1>7, <1>8, <1>9,
       <1>10, <1>11, <1>12, <1>13, <1>14, <1>15, <1>16, <1>17, <1>18
       DEF Next, LoopStep, StartStep

\* Periods only grow, and the meter within a period.
LEMMA PeriodStep ==
  ASSUME TypeOK, CopyInv, PeriodInv, [Next]_vars
  PROVE  PeriodInv'
  <1> USE DEF Measuring, Measured
  <1>a. /\ row \in Account /\ loc \in Account /\ counter \in Bytes /\ life \in Bytes
        /\ row.used \in Nat /\ loc.used \in Nat /\ loc.snap \in Nat /\ counter \in Nat
        /\ row.period \in Nat /\ loc.period \in Nat /\ day \in Nat /\ 0 \in Bytes
    BY AccountFields DEF TypeOK, Bytes, Day
  <1>b. Period(day) \in Nat /\ Period(day + 1) \in Nat /\ Period(day) <= Period(day + 1)
    BY <1>a, PeriodType, PeriodMonotone
  <1>1. CASE Transfer
    BY <1>1, <1>a, <1>b DEF Transfer, loopVars, startVars, guestVars, PeriodInv
  <1>2. CASE PowerOff
    BY <1>2, <1>a, <1>b DEF PowerOff, loopVars, startVars, guestVars, PeriodInv
  <1>3. CASE PowerOn
    BY <1>3, <1>a, <1>b DEF PowerOn, loopVars, startVars, guestVars, PeriodInv
  <1>4. CASE NextDay
    BY <1>4, <1>a, <1>b DEF NextDay, loopVars, startVars, guestVars, PeriodInv
  <1>5. CASE SetStatus
    BY <1>5, <1>a, <1>b DEF SetStatus, loopVars, startVars, guestVars, PeriodInv
  <1>6. CASE Reconcile
    BY <1>6, <1>a, <1>b, Copied DEF Reconcile, PeriodInv
  <1>7. CASE NotRunning
    <2>1. /\ Rebase(loc, 0, life).used = loc.used
          /\ Rebase(loc, 0, life).period = loc.period
      BY <1>a, Baseline
    <2>2. loc'.used = loc.used /\ loc'.period = loc.period
      BY <1>7, <2>1 DEF NotRunning
    <2> QED
      BY <1>7, <2>2 DEF NotRunning, PeriodInv
  <1>8. CASE IsRunning
    BY <1>8, <1>a, <1>b DEF IsRunning, loopVars, startVars, guestVars, PeriodInv
  <1>9. CASE NetworkBytesTotal
    BY <1>9, <1>a, Counted DEF NetworkBytesTotal, PeriodInv
  <1>10. CASE ApplyNetworkPolicy
    <2>1. TrafficExceeded(loc.used) \in BOOLEAN
      BY DEF TrafficExceeded
    <2>2. loc'.used = loc.used /\ loc'.period = loc.period
      BY <1>10, <1>a, <2>1, Flagged DEF ApplyNetworkPolicy
    <2> QED
      BY <1>10, <2>2 DEF ApplyNetworkPolicy, PeriodInv
  <1>11. CASE UpdateTrafficAccounting
    BY <1>11, <1>a, <1>b DEF UpdateTrafficAccounting, Fails, loopVars, startVars, guestVars, PeriodInv
  <1>12. CASE RecordDailyUsage
    BY <1>12, <1>a, <1>b DEF RecordDailyUsage, Fails, loopVars, startVars, guestVars, PeriodInv
  <1>13. CASE PurgeOldDailyUsage
    BY <1>13, <1>a, <1>b DEF PurgeOldDailyUsage, loopVars, startVars, guestVars, PeriodInv
  <1>14. CASE StartInstance
    BY <1>14, <1>a, <1>b DEF StartInstance, loopVars, startVars, guestVars, PeriodInv
  <1>15. CASE UpdateResourceLimits
    BY <1>15, <1>a, <1>b DEF UpdateResourceLimits, Fails, loopVars, startVars, guestVars, PeriodInv
  <1>16. CASE FinishStart
    BY <1>16, <1>a, <1>b DEF FinishStart, loopVars, startVars, guestVars, PeriodInv
  <1>17. CASE Crash
    BY <1>17, <1>a, <1>b DEF Crash, Fails, loopVars, startVars, guestVars, PeriodInv
  <1>18. CASE UNCHANGED vars
    BY <1>18, <1>a, <1>b DEF vars, loopVars, startVars, guestVars, PeriodInv
  <1> QED
    BY <1>1, <1>2, <1>3, <1>4, <1>5, <1>6, <1>7, <1>8, <1>9,
       <1>10, <1>11, <1>12, <1>13, <1>14, <1>15, <1>16, <1>17, <1>18
       DEF Next, LoopStep, StartStep

\* The measurements leave the period of the copy alone.
LEMMA PeriodKept ==
  ASSUME TypeOK, NotRunning \/ NetworkBytesTotal \/ ApplyNetworkPolicy
  PROVE  loc'.period = loc.period
  <1>1. /\ loc \in Account /\ counter \in Bytes /\ life \in Bytes /\ 0 \in Bytes
        /\ TrafficExceeded(loc.used) \in BOOLEAN
    BY DEF TypeOK, Bytes, TrafficExceeded
  <1>2. Rebase(loc, 0, life).period = loc.period
    BY <1>1, Baseline
  <1>3. NetworkBytesTotal => loc'.period = loc.period
    BY Counted
  <1>4. Flag(loc, TrafficExceeded(loc.used)).period = loc.period
    BY <1>1, Flagged
  <1> QED
    BY <1>2, <1>3, <1>4 DEF NotRunning, ApplyNetworkPolicy

\* What a day's row is after a sample.
LEMMA SampleFacts ==
  ASSUME NEW prev \in Sample, NEW used \in Nat
  PROVE  LET s == DailySample(prev, used)
         IN  /\ s.known
             /\ s.base = used \/ (prev.known /\ s.base = prev.base)
             /\ s.bandwidth > 0 => prev.known /\ s.base + s.bandwidth = used
             /\ ~prev.known => s.bandwidth = 0
  <1>1. CASE ~prev.known \/ used < prev.base
    BY <1>1 DEF DailySample, Sample
  <1>2. CASE prev.known /\ ~(used < prev.base)
    <2>1. DailySample(prev, used) = [prev EXCEPT !.bandwidth = used - prev.base]
      BY <1>2 DEF DailySample, Sample
    <2>2. /\ DailySample(prev, used).known /\ DailySample(prev, used).base = prev.base
          /\ DailySample(prev, used).bandwidth = used - prev.base
      BY <1>2, <2>1 DEF Sample
    <2>3. prev.base \in Nat
      BY DEF Sample
    <2> QED
      BY <1>2, <2>2, <2>3
  <1> QED
    BY <1>1, <1>2 DEF Sample

\* The samples stay disjoint parts of the meter.
LEMMA ChartStep ==
  ASSUME TypeOK, CopyInv, PeriodInv, SampleInv, ChartInv, [Next]_vars
  PROVE  SampleInv' /\ ChartInv'
  <1> USE DEF Measuring, Measured
  <1>a. /\ row \in Account /\ loc \in Account /\ row.used \in Nat /\ loc.used \in Nat
        /\ row.period \in Nat /\ loc.period \in Nat /\ day \in Nat /\ day \in Day
        /\ \A d \in Day : /\ d \in Nat /\ Period(d) \in Nat /\ daily[d] \in Sample
                          /\ daily[d].base \in Nat /\ daily[d].bandwidth \in Nat
    <2>1. /\ row \in Account /\ loc \in Account /\ day \in Nat /\ day \in Day
          /\ \A d \in Day : d \in Nat /\ daily[d] \in Sample
      BY DEF TypeOK, Day
    <2>2. \A d \in Day : Period(d) \in Nat
      BY <2>1, PeriodType
    <2>3. \A d \in Day : daily[d].base \in Nat /\ daily[d].bandwidth \in Nat
      BY <2>1 DEF Sample
    <2> QED
      BY <2>1, <2>2, <2>3, AccountFields
  <1>1. CASE Transfer
    BY <1>1, <1>a DEF Transfer, loopVars, startVars, guestVars, SampleInv, ChartInv
  <1>2. CASE PowerOff
    BY <1>2, <1>a DEF PowerOff, loopVars, startVars, guestVars, SampleInv, ChartInv
  <1>3. CASE PowerOn
    BY <1>3, <1>a DEF PowerOn, loopVars, startVars, guestVars, SampleInv, ChartInv
  <1>4. CASE NextDay
    BY <1>4, <1>a DEF NextDay, loopVars, startVars, guestVars, SampleInv, ChartInv
  <1>5. CASE SetStatus
    BY <1>5, <1>a DEF SetStatus, loopVars, startVars, guestVars, SampleInv, ChartInv
  <1>6. CASE Reconcile
    <2>1. pc' = "probe" => loc'.period = Period(day)
      BY <1>6, Copied
    <2>2. \A d \in Day : daily[d].known => Period(d) <= Period(day)
      BY <1>a, PeriodMonotone DEF SampleInv
    <2> QED
      BY <1>6, <2>1, <2>2 DEF Reconcile, SampleInv, ChartInv
  <1>7. CASE NotRunning
    BY <1>7, PeriodKept DEF NotRunning, SampleInv, ChartInv
  <1>8. CASE IsRunning
    BY <1>8, <1>a DEF IsRunning, loopVars, startVars, guestVars, SampleInv, ChartInv
  <1>9. CASE NetworkBytesTotal
    BY <1>9, PeriodKept DEF NetworkBytesTotal, SampleInv, ChartInv
  <1>10. CASE ApplyNetworkPolicy
    BY <1>10, PeriodKept DEF ApplyNetworkPolicy, SampleInv, ChartInv
  <1>11. CASE UpdateTrafficAccounting
    <2>1. CASE row' = row
      BY <1>11, <2>1 DEF UpdateTrafficAccounting, SampleInv, ChartInv
    <2>2. CASE row' = loc /\ loc.period = row.period
      BY <1>11, <1>a, <2>2 DEF UpdateTrafficAccounting, SampleInv, ChartInv, PeriodInv
    <2>3. CASE row' = loc /\ loc.period > row.period
      BY <1>11, <1>a, <2>3 DEF UpdateTrafficAccounting, SampleInv, ChartInv
    <2> QED
      BY <1>11, <1>a, <2>1, <2>2, <2>3 DEF UpdateTrafficAccounting, PeriodInv
  <1>12. CASE RecordDailyUsage
    <2>1. CASE daily' = daily
      BY <1>12, <2>1 DEF RecordDailyUsage, SampleInv, ChartInv
    <2>2. CASE daily' # daily
      <3> DEFINE s == DailySample(daily[day], row.used)
      <3>1. daily' = [daily EXCEPT ![day] = s] /\ row' = row /\ day' = day /\ pc' = "purge"
        BY <1>12, <2>2 DEF RecordDailyUsage, CopyInv
      <3>2. /\ s.known
            /\ s.base = row.used \/ (daily[day].known /\ s.base = daily[day].base)
            /\ s.bandwidth > 0 => daily[day].known /\ s.base + s.bandwidth = row.used
            /\ ~daily[day].known => s.bandwidth = 0
        BY <1>a, SampleFacts
      <3>3. s \in Sample /\ s.base \in Nat /\ s.bandwidth \in Nat
        BY <1>a, SampleType DEF Sample
      <3>4. daily[day].known => Period(day) = row.period
        BY <1>12, <1>a DEF RecordDailyUsage, CopyInv, PeriodInv, SampleInv
      <3> HIDE DEF s
      <3>5. \A d \in Day : daily'[d] = IF d = day THEN s ELSE daily[d]
        BY <3>1 DEF TypeOK
      <3>6. SampleInv'
        BY <1>a, <3>1, <3>2, <3>3, <3>4, <3>5 DEF SampleInv
      <3>7. ChartInv'
        BY <1>a, <3>1, <3>2, <3>3, <3>4, <3>5 DEF SampleInv, ChartInv
      <3> QED
        BY <3>6, <3>7
    <2> QED
      BY <2>1, <2>2
  <1>13. CASE PurgeOldDailyUsage
    <2>1. \A d \in Day : daily'[d] = daily[d]
                          \/ (~daily'[d].known /\ daily'[d].bandwidth = 0)
      BY <1>13 DEF PurgeOldDailyUsage, NoSample
    <2> QED
      BY <1>13, <1>a, <2>1 DEF PurgeOldDailyUsage, SampleInv, ChartInv
  <1>14. CASE StartInstance
    BY <1>14, <1>a DEF StartInstance, loopVars, startVars, guestVars, SampleInv, ChartInv
  <1>15. CASE UpdateResourceLimits
    BY <1>15, <1>a DEF UpdateResourceLimits, Fails, loopVars, startVars, guestVars, SampleInv, ChartInv
  <1>16. CASE FinishStart
    BY <1>16, <1>a DEF FinishStart, loopVars, startVars, guestVars, SampleInv, ChartInv
  <1>17. CASE Crash
    BY <1>17, <1>a DEF Crash, Fails, loopVars, startVars, guestVars, SampleInv, ChartInv
  <1>18. CASE UNCHANGED vars
    BY <1>18, <1>a DEF vars, loopVars, startVars, guestVars, SampleInv, ChartInv
  <1> QED
    BY <1>1, <1>2, <1>3, <1>4, <1>5, <1>6, <1>7, <1>8, <1>9,
       <1>10, <1>11, <1>12, <1>13, <1>14, <1>15, <1>16, <1>17, <1>18
       DEF Next, LoopStep, StartStep

------------------------------------------------------------------------------
(***************************************************************************)
(* Theorems.                                                               *)
(***************************************************************************)

\* The initial state satisfies the invariants.
LEMMA MeterInit ==
  Init => TypeOK /\ CounterInv /\ CopyInv /\ MeterInv
  <1> SUFFICES ASSUME Init
               PROVE  TypeOK /\ CounterInv /\ CopyInv /\ MeterInv
    OBVIOUS
  <1>1. NoSample \in Sample
    BY DEF NoSample, Sample
  <1>2. TypeOK
    <2>1. /\ day \in Day /\ counter \in Bytes /\ life \in Bytes
          /\ cycles \in 0..MaxCycles /\ faults \in 0..MaxFaults
      BY DEF Init, Bytes, Day
    <2>2. daily \in [Day -> Sample]
      BY <1>1 DEF Init
    <2> QED
      BY <2>1, <2>2, NewAccountType DEF Init, TypeOK
  <1>3. row.used = 0 /\ row.snap = 0 /\ row.from = 0
    BY DEF Init, NewAccount
  <1> QED
    BY <1>2, <1>3 DEF Init, CounterInv, CopyInv, MeterInv, Covered, Delta,
                      Measuring, Measured

\* Every variable keeps its type, whatever fails: the counter and the meter are
\* never negative and only known days have samples.
THEOREM TypeCorrect == Spec => []TypeOK
  <1>1. TypeOK /\ CounterInv /\ [Next]_vars => (TypeOK /\ CounterInv)'
    BY TypeStep
  <1> QED
    BY <1>1, MeterInit, PTL DEF Spec

\* As long as no probe has found a running guest stopped or its counter too low, the
\* meter never charges more than the guest transferred since the baseline of the period.
THEOREM MeterSafe == Spec => []ChargedAtMost
  <1> DEFINE M == "probe" \notin upset => MeterInv
             I == TypeOK /\ CounterInv /\ CopyInv /\ M
  <1>1. Init => I
    BY MeterInit
  <1>2. I /\ [Next]_vars => I'
    <2> SUFFICES ASSUME I, [Next]_vars PROVE I'
      OBVIOUS
    <2>1. TypeOK' /\ CounterInv' /\ CopyInv'
      BY TypeStep, CopyStep
    <2>2. M'
      BY UpsetGrows, MeterStep
    <2> QED
      BY <2>1, <2>2
  <1>3. I => ChargedAtMost
    <2> SUFFICES ASSUME I, "probe" \notin upset PROVE row.used <= life - row.from
      BY DEF ChargedAtMost
    <2>1. /\ row.used \in Nat /\ row.snap \in Nat /\ row.from \in Nat
          /\ counter \in Nat /\ life \in Nat
      BY AccountFields DEF TypeOK, Bytes
    <2>2. Delta(row.snap, counter) \in Nat
      BY <2>1 DEF Delta
    <2> QED
      BY <2>1, <2>2 DEF MeterInv, Covered
  <1> QED
    BY <1>1, <1>2, <1>3, PTL DEF Spec

\* As long as no policy call has failed and no start has overlapped a reconcile,
\* an instance whose row says "throttled" has a slow NIC.
THEOREM ThrottleSafe == Spec => []ThrottleHolds
  <1> DEFINE T == Steady => SerialInv /\ FlagInv
             I == TypeOK /\ CounterInv /\ T
  <1>1. Init => I
    BY MeterInit DEF Init, NewAccount, SerialInv, FlagInv, Measuring
  <1>2. I /\ [Next]_vars => I'
    <2> SUFFICES ASSUME I, [Next]_vars PROVE I'
      OBVIOUS
    <2>1. TypeOK' /\ CounterInv'
      BY TypeStep
    <2>2. T'
      BY UpsetGrows, ThrottleStep DEF Steady
    <2> QED
      BY <2>1, <2>2
  <1>3. I => ThrottleHolds
    BY DEF ThrottleHolds, FlagInv
  <1> QED
    BY <1>1, <1>2, <1>3, PTL DEF Spec

\* Whatever fails, the days of the row's period are disjoint parts of the meter.
THEOREM ChartSafe == Spec => []ChartWithinMeter
  <1> DEFINE I == TypeOK /\ CounterInv /\ CopyInv /\ PeriodInv /\ SampleInv /\ ChartInv
  <1>1. Init => I
    <2> SUFFICES ASSUME Init PROVE I
      OBVIOUS
    <2>1. TypeOK /\ CounterInv /\ CopyInv
      BY MeterInit
    <2>2. /\ row.period = Period(day) /\ Period(day) \in Nat
          /\ \A d \in Day : ~daily[d].known /\ daily[d].bandwidth = 0
      BY PeriodType DEF Init, NewAccount, NoSample
    <2> QED
      BY <2>1, <2>2 DEF Init, PeriodInv, SampleInv, ChartInv, Measuring, Measured
  <1>2. I /\ [Next]_vars => I'
    BY TypeStep, CopyStep, PeriodStep, ChartStep
  <1>3. I => ChartWithinMeter
    BY DEF ChartWithinMeter, ChartInv, SampleInv
  <1> QED
    BY <1>1, <1>2, <1>3, PTL DEF Spec

------------------------------------------------------------------------------
(***************************************************************************)
(* The hourly chart: the inductive invariant of HourlyMetrics.             *)
(***************************************************************************)

\* What a sample taken now would return if it lacked nothing.
Counters == ReadingOf(net, cpu)

\* What the counters really were.
Net(s) == s.net + s.netGap
Cpu(s) == s.cpu + s.cpuGap

\* t was taken after s: the guest has used at most all of its cores since, and the
\* counter, as it really was, tells what it has sent since unless it restarted.
Follows(t, s) ==
  /\ s.at <= t.at /\ s.sent <= t.sent /\ s.cycle <= t.cycle
  /\ s.cycle = t.cycle => Net(t) - Net(s) = t.sent - s.sent
  /\ s.cycle < t.cycle => Net(t) <= t.sent - s.sent
  /\ Cpu(t) <= Cpu(s) + Cores * (t.at - s.at)

\* The guest is past every sample, and the sample of a round past those of the rows.
ReadingsInv ==
  /\ \A r \in rows : Follows(Counters, r.last)
  /\ round \in {"reading", "storing"} =>
       Follows(Counters, sample) /\ \A r \in rows : Follows(sample, r.last)

\* What a row says of its own stretch.
Exact(r) ==
  /\ r.from <= r.last.sent
  /\ r.known => r.bandwidth <= r.last.sent - r.from
  /\ r.whole /\ r.known => r.bandwidth = r.last.sent - r.from
  /\ ~r.excess => r.percent <= 100

RowsInv == \A r \in rows : Exact(r)

\* s begins no earlier than the row r of an earlier hour ends; there, when no row of
\* the chart is between them.
Joined(r, s, chart) ==
  /\ r.last.sent <= s.from
  /\ (\A q \in chart : q.hour <= r.hour \/ s.hour <= q.hour) => s.from = r.last.sent

JoinedInv == \A r, s \in rows : r.hour < s.hour => Joined(r, s, rows)

\* No row is of an hour to come, nor of one after the hour of the round.
HoursInv ==
  /\ \A r \in rows : r.hour <= HourOf(now)
  /\ hour <= HourOf(now)
  /\ round \in {"sampling", "reading", "storing"} => \A r \in rows : r.hour <= hour

\* The row about to be stored, if there is one, continues the rows of earlier hours.
NewInv ==
  /\ round # "storing" => new = {}
  /\ round = "storing" =>
       \E n \in Row :
         /\ new = {n} /\ n.hour = hour /\ n.last = sample /\ Exact(n)
         /\ \A r \in rows : r.hour < hour => Joined(r, n, rows)

\* What holds of HourlyMetrics in every reachable state.
HourlyInv ==
  /\ MetricsTypeOK
  /\ ReadingsInv /\ RowsInv /\ JoinedInv /\ HoursInv /\ NewInv

------------------------------------------------------------------------------
(***************************************************************************)
(* The hourly chart: lemmas.                                               *)
(***************************************************************************)
USE MetricsAssumption

\* Division by a positive number keeps the order.
LEMMA DivMonotone ==
  ASSUME NEW a \in Nat, NEW b \in Nat, NEW c \in Nat \ {0}, a <= b
  PROVE  a \div c \in Nat /\ a \div c <= b \div c
  OBVIOUS

\* Multiplication keeps the order too.
LEMMA ProductMonotone ==
  ASSUME NEW a \in Nat, NEW b \in Nat, NEW c \in Nat, a <= b
  PROVE  a * c \in Nat /\ a * c <= b * c
  OBVIOUS

\* A part of d is at most 100 percent of it.
LEMMA AllOfIt ==
  ASSUME NEW d \in Nat \ {0}, NEW x \in Nat, x <= d
  PROVE  (100 * x) \div d \in Nat /\ (100 * x) \div d <= 100
  OBVIOUS

\* A percentage is a number.
LEMMA DivNat ==
  ASSUME NEW d \in Nat \ {0}, NEW x \in Nat
  PROVE  (100 * x) \div d \in Nat
  OBVIOUS

\* The smaller of two.
LEMMA MinPair ==
  ASSUME NEW a \in Nat, NEW b \in Nat
  PROVE  Min({a, b}) \in Nat /\ Min({a, b}) <= a /\ Min({a, b}) <= b
<1>1. \E x \in {a, b} : \A y \in {a, b} : x <= y
  <2>1. CASE a <= b
    BY <2>1
  <2>2. CASE b <= a
    BY <2>2
  <2>. QED BY <2>1, <2>2
<1>. QED BY <1>1 DEF Min

\* A set of hours up to a bound has a last one.
LEMMA Greatest ==
  ASSUME NEW N \in Nat, NEW S \in SUBSET (0..N), S # {}
  PROVE  \E m \in S : \A x \in S : x <= m
<1> DEFINE T == {N - x : x \in S}
<1>1. T # {} /\ T \subseteq Nat
  <2>1. PICK x \in S : TRUE
    OBVIOUS
  <2>2. N - x \in T
    BY <2>1
  <2>3. ASSUME NEW t \in T PROVE t \in Nat
    <3>1. PICK y \in S : t = N - y
      OBVIOUS
    <3>2. y \in 0..N
      OBVIOUS
    <3>. QED BY <3>1, <3>2
  <2>. QED BY <2>2, <2>3
<1>2. PICK t \in T : \A u \in T : t <= u
  <2>1. \E t \in T : \A u \in T : <<u, t>> \notin OpToRel(<, Nat)
    BY <1>1, NatLessThanWellFounded, WFMin
  <2>2. \A t, u \in Nat : <<u, t>> \notin OpToRel(<, Nat) => t <= u
    BY DEF OpToRel
  <2>. QED BY <2>1, <2>2, <1>1
<1>3. PICK m \in S : t = N - m
  BY <1>2
<1>4. ASSUME NEW x \in S PROVE x <= m
  <2>1. N - x \in T
    OBVIOUS
  <2>2. N - m <= N - x
    BY <1>2, <1>3, <2>1
  <2>. QED BY <2>2
<1>. QED BY <1>4

\* The clock's hours are hours, and in order.
LEMMA HourType ==
  ASSUME NEW a \in Tick, NEW b \in Tick, a <= b
  PROVE  HourOf(a) \in Hour /\ HourOf(a) <= HourOf(b)
<1>1. a \in Nat /\ b \in Nat /\ a <= MaxTick /\ MaxTick \in Nat /\ TicksPerHour \in Nat \ {0}
  BY DEF Tick
<1>2. HourOf(a) \in Nat /\ HourOf(a) <= HourOf(b)
  BY <1>1, DivMonotone DEF HourOf
<1>3. a \div TicksPerHour <= MaxTick \div TicksPerHour /\ MaxTick \div TicksPerHour \in Nat
  BY <1>1, DivMonotone
<1>. QED BY <1>2, <1>3 DEF HourOf, Hour

\* The fields of a sample have their types.
LEMMA ReadingFields ==
  ASSUME NEW s \in Reading
  PROVE  /\ s.net \in Nat /\ s.cpu \in Nat /\ s.at \in Tick /\ s.at \in Nat
         /\ s.sent \in Nat /\ s.cycle \in 0..MaxRestarts /\ s.cycle \in Int
         /\ s.netGap \in Nat /\ s.cpuGap \in Nat /\ Net(s) \in Nat /\ Cpu(s) \in Nat
  BY DEF Reading, Tick, Net, Cpu

\* The columns of a row have their types.
LEMMA RowFields ==
  ASSUME NEW r \in Row
  PROVE  /\ r.hour \in Hour /\ r.hour \in Nat /\ r.bandwidth \in Nat
         /\ r.percent \in 0..MaxPercent /\ r.last \in Reading /\ r.from \in Nat
         /\ r.whole \in BOOLEAN /\ r.known \in BOOLEAN /\ r.excess \in BOOLEAN
  BY DEF Row, Hour

\* A percentage may be 0.
LEMMA MaxPercentType == MaxPercent \in Nat
<1>1. 100 * Cores \in Nat /\ CoreParts \in Nat \ {0} /\ Cores \in Nat
  OBVIOUS
<1>. QED BY <1>1, DivNat DEF MaxPercent

\* A reading is a sample that tells, with what it lacks, what the counters were.
LEMMA ReadingOfType ==
  ASSUME MetricsTypeOK, NEW n \in 0..net, NEW c \in 0..cpu
  PROVE  LET s == ReadingOf(n, c)
         IN  /\ s \in Reading /\ Net(s) = net /\ Cpu(s) = cpu
             /\ s.at = now /\ s.sent = sent /\ s.cycle = restarts
<1>1. /\ n \in Nat /\ c \in Nat /\ net \in Nat /\ cpu \in Nat
      /\ net - n \in Nat /\ cpu - c \in Nat
  BY DEF MetricsTypeOK
<1>. QED BY <1>1 DEF MetricsTypeOK, ReadingOf, Reading, Net, Cpu

\* The counters are one that lacks nothing.
LEMMA CountersType ==
  ASSUME MetricsTypeOK
  PROVE  /\ Counters \in Reading /\ Net(Counters) = net /\ Cpu(Counters) = cpu
         /\ Counters.at = now /\ Counters.sent = sent /\ Counters.cycle = restarts
<1>1. net \in 0..net /\ cpu \in 0..cpu
  BY DEF MetricsTypeOK
<1>. QED BY <1>1, ReadingOfType DEF Counters

\* The same after a step.
LEMMA CountersTypePrime ==
  ASSUME MetricsTypeOK'
  PROVE  /\ Counters' \in Reading /\ Net(Counters') = net' /\ Cpu(Counters') = cpu'
         /\ Counters'.at = now' /\ Counters'.sent = sent' /\ Counters'.cycle = restarts'
<1>1. /\ now' \in Tick /\ restarts' \in 0..MaxRestarts
      /\ sent' \in Nat /\ net' \in Nat /\ cpu' \in Nat
  BY DEF MetricsTypeOK
<1>2. \A x \in Nat : x - x = 0 /\ x + 0 = x
  OBVIOUS
<1>3. net' - net' = 0 /\ cpu' - cpu' = 0 /\ net' + 0 = net' /\ cpu' + 0 = cpu'
  BY <1>1, <1>2
<1>4. Counters' = [net |-> net', cpu |-> cpu', at |-> now', sent |-> sent',
                   cycle |-> restarts', netGap |-> 0, cpuGap |-> 0]
  BY <1>3 DEF Counters, ReadingOf
<1>5. Counters' \in Reading
  BY <1>1, <1>4 DEF Reading
<1>. QED BY <1>3, <1>4, <1>5 DEF Net, Cpu

\* Two readings that tell the same of the guest follow the same.
LEMMA SameReading ==
  ASSUME NEW a, NEW b, NEW s, Net(a) = Net(b), Cpu(a) = Cpu(b), a.at = b.at,
         a.sent = b.sent, a.cycle = b.cycle
  PROVE  (Follows(a, s) <=> Follows(b, s)) /\ (Follows(s, a) <=> Follows(s, b))
  BY DEF Follows

\* One sample after another after a third.
LEMMA FollowsTransitive ==
  ASSUME NEW a \in Reading, NEW b \in Reading, NEW c \in Reading,
         Follows(a, b), Follows(b, c)
  PROVE  Follows(a, c)
<1>1. /\ Net(a) \in Nat /\ Cpu(a) \in Nat /\ a.at \in Nat /\ a.sent \in Nat /\ a.cycle \in Int
      /\ Net(b) \in Nat /\ Cpu(b) \in Nat /\ b.at \in Nat /\ b.sent \in Nat /\ b.cycle \in Int
      /\ Net(c) \in Nat /\ Cpu(c) \in Nat /\ c.at \in Nat /\ c.sent \in Nat /\ c.cycle \in Int
  BY ReadingFields
<1>2. /\ c.at <= a.at /\ c.sent <= a.sent /\ c.cycle <= a.cycle
      /\ c.cycle = a.cycle => Net(a) - Net(c) = a.sent - c.sent
      /\ c.cycle < a.cycle => Net(a) <= a.sent - c.sent
  <2>1. /\ b.at <= a.at /\ b.sent <= a.sent /\ b.cycle <= a.cycle
        /\ b.cycle = a.cycle => Net(a) - Net(b) = a.sent - b.sent
        /\ b.cycle < a.cycle => Net(a) <= a.sent - b.sent
    BY DEF Follows
  <2>2. /\ c.at <= b.at /\ c.sent <= b.sent /\ c.cycle <= b.cycle
        /\ c.cycle = b.cycle => Net(b) - Net(c) = b.sent - c.sent
        /\ c.cycle < b.cycle => Net(b) <= b.sent - c.sent
    BY DEF Follows
  <2>. QED BY <1>1, <2>1, <2>2
<1>3. Cpu(a) <= Cpu(c) + Cores * (a.at - c.at)
  <2>1. a.at - b.at \in Nat /\ b.at - c.at \in Nat /\ a.at - c.at = (a.at - b.at) + (b.at - c.at)
    BY <1>1 DEF Follows
  <2>2. Cores \in Nat
    OBVIOUS
  <2>3. \A x, y \in Nat : Cores * (x + y) = Cores * x + Cores * y
    BY <2>2
  <2>4. Cores * (a.at - c.at) = Cores * (a.at - b.at) + Cores * (b.at - c.at)
    BY <2>1, <2>3
  <2>5. Cores * (a.at - b.at) \in Nat /\ Cores * (b.at - c.at) \in Nat
    BY <2>1, <2>2
  <2>6. Cpu(a) <= Cpu(b) + Cores * (a.at - b.at) /\ Cpu(b) <= Cpu(c) + Cores * (b.at - c.at)
    BY DEF Follows
  <2>. QED BY <1>1, <2>4, <2>5, <2>6
<1>. QED BY <1>2, <1>3 DEF Follows

\* A sample follows itself: nothing happened since.
LEMMA FollowsItself ==
  ASSUME NEW a \in Reading
  PROVE  Follows(a, a)
<1>1. Net(a) \in Nat /\ Cpu(a) \in Nat /\ a.at \in Nat /\ a.sent \in Nat /\ a.cycle \in Int
  BY ReadingFields
<1>2. a.at - a.at = 0 /\ Cores * 0 = 0
  BY <1>1
<1>. QED BY <1>1, <1>2 DEF Follows

\* What the guest does is between two samples.
LEMMA PassFollows ==
  ASSUME MetricsTypeOK, MetricsTypeOK', NEW bytes \in 0..MaxRate, NEW busy \in Loads,
         Pass(bytes, busy)
  PROVE  Follows(Counters', Counters) /\ Counters' \in Reading
<1>1. /\ Cores * ((now + 1) - now) = Cores /\ busy \in 0..Cores
      /\ now \in Nat /\ net \in Nat /\ sent \in Nat /\ cpu \in Nat /\ restarts \in Int
  BY DEF MetricsTypeOK, Tick
<1>2. /\ Counters' \in Reading /\ Net(Counters') = net + bytes /\ Cpu(Counters') = cpu + busy
      /\ Counters'.at = now + 1 /\ Counters'.sent = sent + bytes
      /\ Counters'.cycle = restarts
  <2>1. /\ Counters' \in Reading /\ Net(Counters') = net' /\ Cpu(Counters') = cpu'
        /\ Counters'.at = now' /\ Counters'.sent = sent' /\ Counters'.cycle = restarts'
    BY CountersTypePrime
  <2>. QED BY <2>1 DEF Pass
<1>. QED BY <1>1, <1>2, CountersType DEF Follows

\* A restart counts as one more cycle; the counters are behind what was sent.
LEMMA PowerCycleFollows ==
  ASSUME MetricsTypeOK, MetricsTypeOK', PowerCycle
  PROVE  Follows(Counters', Counters) /\ Counters' \in Reading
<1>1. /\ now - now = 0 /\ Cores * 0 = 0
      /\ now \in Nat /\ net \in Nat /\ sent \in Nat /\ cpu \in Nat /\ restarts \in Int
  BY DEF MetricsTypeOK, Tick
<1>2. /\ Counters' \in Reading /\ Net(Counters') = 0 /\ Cpu(Counters') = 0
      /\ Counters'.at = now /\ Counters'.sent = sent /\ Counters'.cycle = restarts + 1
  <2>1. /\ Counters' \in Reading /\ Net(Counters') = net' /\ Cpu(Counters') = cpu'
        /\ Counters'.at = now' /\ Counters'.sent = sent' /\ Counters'.cycle = restarts'
    BY CountersTypePrime
  <2>. QED BY <2>1 DEF PowerCycle
<1>. QED BY <1>1, <1>2, CountersType DEF Follows

\* The bytes since a row, if neither reading lacks any: all of them, or no more than
\* all of them after a restart.
LEMMA DeltaNetType ==
  ASSUME NEW s \in Reading, sample \in Reading, Follows(sample, s)
  PROVE  /\ DeltaNet(s) \in Nat
         /\ s.netGap = 0 /\ sample.netGap = 0 =>
              /\ DeltaNet(s) <= sample.sent - s.sent
              /\ s.cycle = sample.cycle => DeltaNet(s) = sample.sent - s.sent
<1>1. /\ s.net \in Nat /\ s.sent \in Nat /\ s.cycle \in Int /\ s.netGap \in Nat
      /\ sample.net \in Nat /\ sample.sent \in Nat /\ sample.cycle \in Int
      /\ sample.netGap \in Nat
  BY ReadingFields
<1>. QED BY <1>1 DEF Follows, DeltaNet, Net

\* The percentage is one of the allocation, unless more time passed than it counts or
\* the sample before lacked the CPU usage.
LEMMA PercentType ==
  ASSUME NEW s \in Reading, sample \in Reading, Follows(sample, s),
         NEW elapsed \in Nat \ {0}
  PROVE  /\ ComputeCPUPercent(s, elapsed) \in 0..MaxPercent
         /\ sample.at - s.at <= elapsed /\ s.cpuGap = 0 =>
              ComputeCPUPercent(s, elapsed) <= 100
<1>1. /\ s.cpu \in Nat /\ sample.cpu \in Nat /\ s.at \in Nat /\ sample.at \in Nat
      /\ s.cpuGap \in Nat /\ sample.cpuGap \in Nat /\ Cores \in Nat \ {0}
  BY ReadingFields
<1>2. elapsed * Cores \in Nat \ {0} /\ MaxPercent \in Nat
  BY <1>1, MaxPercentType
<1>3. CASE sample.cpu < s.cpu
  BY <1>1, <1>2, <1>3 DEF ComputeCPUPercent
<1>4. CASE ~(sample.cpu < s.cpu)
  <2>1. sample.cpu - s.cpu \in Nat
    BY <1>1, <1>4
  <2>2. (100 * (sample.cpu - s.cpu)) \div (elapsed * Cores) \in Nat
    BY <2>1, <1>2, DivNat
  <2>3. /\ ComputeCPUPercent(s, elapsed) \in Nat /\ ComputeCPUPercent(s, elapsed) <= MaxPercent
        /\ ComputeCPUPercent(s, elapsed) <= (100 * (sample.cpu - s.cpu)) \div (elapsed * Cores)
    BY <2>2, <1>2, <1>4, MinPair DEF ComputeCPUPercent
  <2>4. ASSUME sample.at - s.at <= elapsed, s.cpuGap = 0
        PROVE  ComputeCPUPercent(s, elapsed) <= 100
    <3>1. sample.at - s.at \in Nat
      BY <1>1 DEF Follows
    <3>2. sample.cpu - s.cpu <= Cores * (sample.at - s.at)
      <4>1. Cores * (sample.at - s.at) \in Nat
        BY <1>1, <3>1
      <4>2. Cpu(sample) <= Cpu(s) + Cores * (sample.at - s.at)
        BY DEF Follows
      <4>. QED BY <1>1, <2>4, <4>1, <4>2 DEF Cpu
    <3>3. (sample.at - s.at) * Cores <= elapsed * Cores
      BY <3>1, <2>4, <1>1, ProductMonotone
    <3>4. sample.cpu - s.cpu <= elapsed * Cores
      BY <3>1, <3>2, <3>3, <2>1, <1>1
    <3>5. (100 * (sample.cpu - s.cpu)) \div (elapsed * Cores) <= 100
      BY <3>4, <2>1, <1>2, AllOfIt
    <3>. QED BY <2>2, <2>3, <3>5
  <2>. QED BY <2>3, <2>4, <1>2
<1>. QED BY <1>3, <1>4

\* The fields of the row to store.
LEMMA RowOfType ==
  ASSUME hour \in Hour, sample \in Reading,
         NEW prev \in Row, Follows(sample, prev.last), NEW elapsed \in Nat \ {0},
         NEW bandwidth \in Nat, NEW from \in Nat, from <= prev.last.sent,
         LET known == prev.last.netGap = 0 /\ sample.netGap = 0
                        /\ (prev.hour = hour => prev.known)
             whole == prev.last.cycle = sample.cycle /\ (prev.hour = hour => prev.whole)
         IN  /\ known => bandwidth <= sample.sent - from
             /\ whole /\ known => bandwidth = sample.sent - from
  PROVE  LET n == RowOf(prev, elapsed, bandwidth, from)
         IN  n \in Row /\ n.hour = hour /\ n.last = sample /\ n.from = from /\ Exact(n)
<1> DEFINE n == RowOf(prev, elapsed, bandwidth, from)
           known == prev.last.netGap = 0 /\ sample.netGap = 0
                      /\ (prev.hour = hour => prev.known)
           whole == prev.last.cycle = sample.cycle /\ (prev.hour = hour => prev.whole)
           excess == sample.at - prev.last.at > elapsed \/ prev.last.cpuGap > 0
<1>1. prev.last \in Reading
  BY RowFields
<1>2. /\ prev.last.sent \in Nat /\ prev.last.at \in Nat /\ prev.last.cycle \in Int
      /\ prev.last.cpuGap \in Nat
      /\ sample.sent \in Nat /\ sample.at \in Nat /\ sample.cycle \in Int
  BY <1>1, ReadingFields
<1>3. /\ ComputeCPUPercent(prev.last, elapsed) \in 0..MaxPercent
      /\ sample.at - prev.last.at <= elapsed /\ prev.last.cpuGap = 0 =>
           ComputeCPUPercent(prev.last, elapsed) <= 100
  BY <1>1, PercentType
<1>4. /\ n.hour = hour /\ n.bandwidth = bandwidth /\ n.last = sample /\ n.from = from
      /\ n.percent = ComputeCPUPercent(prev.last, elapsed)
      /\ n.whole = whole /\ n.known = known /\ n.excess = excess
  BY DEF RowOf
<1>5. n \in Row
  <2>1. whole \in BOOLEAN /\ known \in BOOLEAN /\ excess \in BOOLEAN
    BY Zenon
  <2>2. n = [hour |-> hour, bandwidth |-> bandwidth,
             percent |-> ComputeCPUPercent(prev.last, elapsed), last |-> sample,
             from |-> from, whole |-> whole, known |-> known, excess |-> excess]
    BY DEF RowOf
  <2>. HIDE DEF whole, known, excess, n
  <2>. QED BY <1>3, <2>1, <2>2 DEF Row
<1>6. from <= sample.sent
  BY <1>2 DEF Follows
<1>7. /\ n.known => n.bandwidth <= n.last.sent - n.from
      /\ n.whole /\ n.known => n.bandwidth = n.last.sent - n.from
  <2>1. /\ known => bandwidth <= sample.sent - from
        /\ whole /\ known => bandwidth = sample.sent - from
    BY Zenon
  <2>. HIDE DEF whole, known, excess, n
  <2>. QED BY <1>4, <2>1, Zenon
<1>8. ~n.excess => n.percent <= 100
  <2>1. ~n.excess => ~(sample.at - prev.last.at > elapsed) /\ ~(prev.last.cpuGap > 0)
    BY <1>4, Zenon
  <2>2. ~(sample.at - prev.last.at > elapsed) /\ ~(prev.last.cpuGap > 0) =>
          sample.at - prev.last.at <= elapsed /\ prev.last.cpuGap = 0
    BY <1>2
  <2>. HIDE DEF whole, known, excess, n
  <2>. QED BY <1>3, <1>4, <2>1, <2>2
<1>9. n.from <= n.last.sent
  BY <1>4, <1>6
<1>. HIDE DEF whole, known, excess, n
<1>10. Exact(n)
  BY <1>7, <1>8, <1>9 DEF Exact
<1>. QED BY <1>4, <1>5, <1>10 DEF n

\* The row that follows one of this hour keeps where it begins; the row that
\* follows one of an earlier hour begins where that one ends.
LEMMA RowAfterType ==
  ASSUME hour \in Hour, sample \in Reading,
         NEW prev \in Row, Exact(prev), Follows(sample, prev.last),
         NEW elapsed \in Nat \ {0}
  PROVE  LET n == RowAfter(prev, elapsed)
         IN  /\ n \in Row /\ n.hour = hour /\ n.last = sample /\ Exact(n)
             /\ n.from = IF prev.hour = hour THEN prev.from ELSE prev.last.sent
<1>1. /\ prev.last \in Reading /\ prev.bandwidth \in Nat /\ prev.from \in Nat
      /\ prev.whole \in BOOLEAN /\ prev.known \in BOOLEAN
  BY RowFields
<1>2. /\ prev.last.sent \in Nat /\ prev.last.cycle \in Int
      /\ sample.sent \in Nat /\ sample.cycle \in Int
  BY <1>1, ReadingFields
<1>3. /\ DeltaNet(prev.last) \in Nat
      /\ prev.last.netGap = 0 /\ sample.netGap = 0 =>
           /\ DeltaNet(prev.last) <= sample.sent - prev.last.sent
           /\ prev.last.cycle = sample.cycle =>
                DeltaNet(prev.last) = sample.sent - prev.last.sent
  BY <1>1, DeltaNetType
<1> DEFINE b == IF prev.hour = hour THEN prev.bandwidth + DeltaNet(prev.last)
                ELSE DeltaNet(prev.last)
           f == IF prev.hour = hour THEN prev.from ELSE prev.last.sent
<1>4. RowAfter(prev, elapsed) = RowOf(prev, elapsed, b, f)
  BY DEF RowAfter
<1>5. b \in Nat /\ f \in Nat /\ f <= prev.last.sent
  BY <1>1, <1>2, <1>3 DEF Exact
<1>6. LET known == prev.last.netGap = 0 /\ sample.netGap = 0
                     /\ (prev.hour = hour => prev.known)
          whole == prev.last.cycle = sample.cycle /\ (prev.hour = hour => prev.whole)
      IN  /\ known => b <= sample.sent - f
          /\ whole /\ known => b = sample.sent - f
  <2>1. CASE prev.hour = hour
    BY <1>1, <1>2, <1>3, <2>1 DEF Exact
  <2>2. CASE prev.hour # hour
    BY <1>2, <1>3, <2>2
  <2>. QED BY <2>1, <2>2
<1>7. f = IF prev.hour = hour THEN prev.from ELSE prev.last.sent
  OBVIOUS
<1>. HIDE DEF b, f
<1>8. LET n == RowOf(prev, elapsed, b, f)
      IN  n \in Row /\ n.hour = hour /\ n.last = sample /\ n.from = f /\ Exact(n)
  BY <1>5, <1>6, RowOfType
<1>. QED BY <1>4, <1>7, <1>8

\* The first row shows nothing.
LEMMA FirstRowType ==
  ASSUME hour \in Hour, sample \in Reading
  PROVE  /\ FirstRow \in Row /\ FirstRow.hour = hour /\ FirstRow.last = sample
         /\ FirstRow.from = sample.sent /\ Exact(FirstRow)
<1>1. sample.sent \in Nat
  BY ReadingFields
<1>2. 0 \in 0..MaxPercent
  BY MaxPercentType
<1>3. FirstRow \in Row
  BY <1>1, <1>2 DEF FirstRow, Row
<1>4. Exact(FirstRow)
  BY <1>1 DEF FirstRow, Exact
<1>. QED BY <1>3, <1>4 DEF FirstRow

\* The row ReadRows prepares continues the rows of earlier hours.
LEMMA NewRow ==
  ASSUME HourlyInv, round = "reading", ReadRows, round' = "storing"
  PROVE  \E n \in Row :
           /\ new' = {n} /\ n.hour = hour /\ n.last = sample /\ Exact(n)
           /\ \A r \in rows : r.hour < hour => Joined(r, n, rows)
<1>1. /\ hour \in Hour /\ sample \in Reading /\ rows \subseteq Row
      /\ hour \in Nat
      /\ \A r, s \in rows : r.hour = s.hour => r = s
  BY DEF HourlyInv, MetricsTypeOK, Hour
<1>2. \A r \in rows : /\ r \in Row /\ r.hour \in Nat /\ r.last \in Reading /\ r.from \in Nat
                      /\ r.last.sent \in Nat
                      /\ Follows(sample, r.last) /\ Exact(r) /\ r.hour <= hour
  BY <1>1, RowFields, ReadingFields DEF HourlyInv, ReadingsInv, RowsInv, HoursInv
<1>3. \A r, s \in rows : r.hour < s.hour => Joined(r, s, rows)
  BY DEF HourlyInv, JoinedInv
<1>4. CASE \E prev \in ListHourlyMetrics : new' = {RowAfter(prev, Interval)}
  <2>1. PICK prev \in rows : prev.hour = hour /\ new' = {RowAfter(prev, Interval)}
    BY <1>4 DEF ListHourlyMetrics
  <2> DEFINE n == RowAfter(prev, Interval)
  <2>2. n \in Row /\ n.hour = hour /\ n.last = sample /\ Exact(n) /\ n.from = prev.from
    BY <1>1, <1>2, <2>1, RowAfterType
  <2>. HIDE DEF n
  <2>3. \A r \in rows : r.hour < hour => Joined(r, n, rows)
    BY <1>3, <2>1, <2>2 DEF Joined
  <2>. QED BY <2>1, <2>2, <2>3 DEF n
<1>5. CASE \E prev \in LatestHourlyMetrics :
             /\ ListHourlyMetrics = {}
             /\ new' = {RowAfter(prev, (hour - prev.hour) * TicksPerHour)}
  <2>1. PICK prev \in rows : /\ prev.hour < hour
                             /\ \A r \in rows : r.hour < hour => r.hour <= prev.hour
                             /\ new' = {RowAfter(prev, (hour - prev.hour) * TicksPerHour)}
    BY <1>5 DEF LatestHourlyMetrics
  <2> DEFINE elapsed == (hour - prev.hour) * TicksPerHour
             n == RowAfter(prev, elapsed)
  <2>2. hour - prev.hour \in Nat \ {0} /\ TicksPerHour \in Nat \ {0}
    BY <1>1, <1>2, <2>1
  <2>3. elapsed \in Nat \ {0}
    BY <2>2
  <2>. HIDE DEF elapsed
  <2>4. n \in Row /\ n.hour = hour /\ n.last = sample /\ Exact(n) /\ n.from = prev.last.sent
    <3>1. prev.hour # hour
      BY <1>1, <1>2, <2>1
    <3>. QED BY <1>1, <1>2, <2>1, <2>3, <3>1, RowAfterType
  <2>. HIDE DEF n
  <2>5. ASSUME NEW r \in rows, r.hour < hour
        PROVE  Joined(r, n, rows)
    <3>1. CASE r = prev
      BY <1>2, <2>4, <3>1 DEF Joined
    <3>2. CASE r # prev
      <4>1. r.hour < prev.hour
        BY <1>1, <1>2, <2>1, <2>5, <3>2
      <4>2. r.last.sent <= prev.from /\ prev.from <= prev.last.sent
        BY <1>2, <1>3, <4>1 DEF Joined, Exact
      <4>3. ~(\A q \in rows : q.hour <= r.hour \/ n.hour <= q.hour)
        BY <1>1, <1>2, <2>1, <2>4, <4>1
      <4>4. r.last.sent <= n.from
        BY <1>2, <2>4, <4>2
      <4>. QED BY <4>3, <4>4 DEF Joined
    <3>. QED BY <3>1, <3>2
  <2>. QED BY <2>1, <2>4, <2>5 DEF n, elapsed
<1>6. CASE ListHourlyMetrics \cup LatestHourlyMetrics = {} /\ new' = {FirstRow}
  <2>1. \A r \in rows : ~(r.hour < hour)
    <3> DEFINE before == {r.hour : r \in {q \in rows : q.hour < hour}}
    <3>1. SUFFICES ASSUME before # {}
                   PROVE  LatestHourlyMetrics # {}
      BY <1>6
    <3>2. before \subseteq 0..hour
      BY <1>1, <1>2
    <3>3. PICK m \in before : \A x \in before : x <= m
      BY <3>1, <3>2, <1>1, Greatest
    <3>4. PICK q \in rows : q.hour < hour /\ m = q.hour
      BY <3>3
    <3>5. q \in LatestHourlyMetrics
      BY <3>3, <3>4 DEF LatestHourlyMetrics
    <3>. QED BY <3>5
  <2>2. FirstRow \in Row /\ FirstRow.hour = hour /\ FirstRow.last = sample /\ Exact(FirstRow)
    BY <1>1, FirstRowType
  <2>. QED BY <1>6, <2>1, <2>2
<1>7. round' = "purging" \/ new' = {FirstRow} \/ \E prev \in rows : TRUE
  BY DEF ReadRows, ListHourlyMetrics, LatestHourlyMetrics
<1>. QED BY <1>4, <1>5, <1>6 DEF ReadRows

------------------------------------------------------------------------------
\* The facts every step starts from.
LEMMA HourlyTyped ==
  ASSUME HourlyInv
  PROVE  /\ MetricsTypeOK /\ Counters \in Reading
         /\ now \in Tick /\ hour \in Hour /\ hour \in Nat /\ sample \in Reading
         /\ \A r \in rows : r \in Row /\ r.hour \in Nat /\ r.last \in Reading
BY CountersType, RowFields DEF HourlyInv, MetricsTypeOK, Hour

\* The guest goes on: every sample is still one of its past.
LEMMA GuestGoesOn ==
  ASSUME HourlyInv, MetricsTypeOK', Counters' \in Reading, Follows(Counters', Counters),
         now <= now', UNCHANGED <<rows, round, roundVars>>
  PROVE  HourlyInv'
<1>1. Counters \in Reading /\ sample \in Reading
  BY HourlyTyped
<1>2. \A r \in rows : r.last \in Reading
  BY HourlyTyped
<1>3. ReadingsInv'
  <2>1. \A r \in rows : Follows(Counters', r.last)
    BY <1>1, <1>2, FollowsTransitive DEF HourlyInv, ReadingsInv
  <2>2. round \in {"reading", "storing"} => Follows(Counters', sample)
    BY <1>1, FollowsTransitive DEF HourlyInv, ReadingsInv
  <2>3. UNCHANGED <<rows, round, sample>>
    BY DEF roundVars
  <2>4. \A r \in rows' : Follows(Counters', r.last)
    BY <2>1, <2>3
  <2>5. round' \in {"reading", "storing"} =>
          Follows(Counters', sample') /\ \A r \in rows' : Follows(sample', r.last)
    BY <2>2, <2>3 DEF HourlyInv, ReadingsInv
  <2>. QED BY <2>4, <2>5 DEF ReadingsInv, Follows
<1>4. RowsInv'
  BY DEF HourlyInv, RowsInv, Exact
<1>5. JoinedInv'
  BY DEF HourlyInv, JoinedInv, Joined
<1>6. HoursInv'
  <2>1. HourOf(now) \in Nat /\ HourOf(now') \in Nat /\ HourOf(now) <= HourOf(now')
    BY <1>1, HourlyTyped, HourType DEF MetricsTypeOK, Hour, Tick
  <2>2. HourOf(now)' = HourOf(now')
    BY DEF HourOf
  <2>3. \A r \in rows : r.hour \in Nat /\ r.hour <= HourOf(now')
    BY <2>1, HourlyTyped DEF HourlyInv, HoursInv
  <2>4. hour \in Nat /\ hour <= HourOf(now')
    BY <2>1, HourlyTyped DEF HourlyInv, HoursInv
  <2>. QED BY <2>2, <2>3, <2>4 DEF HourlyInv, HoursInv, roundVars
<1>7. NewInv'
  BY DEF HourlyInv, NewInv, roundVars, Joined, Exact
<1>. QED BY <1>1, <1>3, <1>4, <1>5, <1>6, <1>7 DEF HourlyInv

\* The guest at work.
LEMMA PassInv ==
  ASSUME HourlyInv, NEW bytes \in 0..MaxRate, NEW busy \in Loads, Pass(bytes, busy)
  PROVE  HourlyInv'
<1>1. MetricsTypeOK
  BY DEF HourlyInv
<1>2. MetricsTypeOK'
  BY <1>1 DEF MetricsTypeOK, Pass, roundVars, Tick
<1>3. now <= now' /\ UNCHANGED <<rows, round, roundVars>>
  BY <1>1 DEF Pass, MetricsTypeOK, Tick
<1>. QED BY <1>1, <1>2, <1>3, PassFollows, GuestGoesOn

\* The guest restarts.
LEMMA PowerCycleInv ==
  ASSUME HourlyInv, PowerCycle
  PROVE  HourlyInv'
<1>1. MetricsTypeOK
  BY DEF HourlyInv
<1>2. MetricsTypeOK'
  BY <1>1 DEF MetricsTypeOK, PowerCycle, roundVars, Tick
<1>3. now <= now' /\ UNCHANGED <<rows, round, roundVars>>
  BY <1>1 DEF PowerCycle, MetricsTypeOK, Tick
<1>. QED BY <1>1, <1>2, <1>3, PowerCycleFollows, GuestGoesOn

\* A step of the loop leaves what a sample taken now would return.
LEMMA SameCounters ==
  ASSUME UNCHANGED <<now, vmVars>>
  PROVE  Counters' = Counters /\ HourOf(now)' = HourOf(now)
  BY DEF Counters, ReadingOf, vmVars, HourOf

\* A step of the loop that leaves the rows keeps what is known of them.
LEMMA RowsStay ==
  ASSUME HourlyInv, UNCHANGED <<now, vmVars, rows>>
  PROVE  /\ RowsInv' /\ JoinedInv'
         /\ \A r \in rows' : Follows(Counters', r.last)
         /\ \A r \in rows' : r.hour <= HourOf(now)'
<1>1. RowsInv'
  BY DEF HourlyInv, RowsInv, Exact
<1>2. JoinedInv'
  BY DEF HourlyInv, JoinedInv, Joined
<1>. QED BY <1>1, <1>2, SameCounters DEF HourlyInv, ReadingsInv, HoursInv

\* The loop leaves a round, or has none, without a row to store.
LEMMA RoundOver ==
  ASSUME HourlyInv, UNCHANGED <<now, vmVars>>, MetricsTypeOK',
         new' = {}, hour' <= HourOf(now)',
         round' \in {"down", "waiting", "purging"},
         RowsInv', JoinedInv',
         \A r \in rows' : Follows(Counters', r.last),
         \A r \in rows' : r.hour <= HourOf(now)'
  PROVE  HourlyInv'
<1>1. ReadingsInv'
  BY DEF ReadingsInv, Follows
<1>2. HoursInv' /\ NewInv'
  BY DEF HoursInv, NewInv
<1>. QED BY <1>1, <1>2 DEF HourlyInv

\* One failure more is within the bound.
LEMMA FailedType ==
  ASSUME MetricsTypeOK, Fault
  PROVE  failed' \in 0..MaxFailed
  BY DEF MetricsTypeOK, Fault

\* A round is for the hour it is now: no row is of a later one.
LEMMA BeginRoundInv ==
  ASSUME HourlyInv, BeginRound
  PROVE  HourlyInv'
<1>1. MetricsTypeOK /\ HourOf(now) \in Hour /\ HourOf(now) \in Nat
  <2>1. MetricsTypeOK /\ now \in Tick /\ now <= now
    BY HourlyTyped DEF Tick
  <2>. QED BY <2>1, HourType DEF Hour
<1>2. UNCHANGED <<now, vmVars, rows, sample, new>>
  BY DEF BeginRound
<1>3. MetricsTypeOK'
  BY <1>1, FailedType DEF MetricsTypeOK, BeginRound, vmVars
<1>4. new' = {}
  BY <1>2 DEF HourlyInv, NewInv, BeginRound
<1>5. CASE hour' = HourOf(now) /\ round' = "sampling"
  <2>1. ReadingsInv'
    BY <1>2, <1>5, RowsStay DEF ReadingsInv, Follows
  <2>2. HoursInv' /\ NewInv'
    BY <1>1, <1>2, <1>4, <1>5, RowsStay, SameCounters DEF HoursInv, NewInv
  <2>. QED BY <1>1, <1>2, <1>3, <2>1, <2>2, RowsStay DEF HourlyInv
<1>6. CASE round' = "waiting" /\ UNCHANGED hour
  <2>1. hour' <= HourOf(now)'
    BY <1>2, <1>6, SameCounters DEF HourlyInv, HoursInv
  <2>. QED BY <1>2, <1>3, <1>4, <1>6, <2>1, RowsStay, RoundOver
<1>. QED BY <1>5, <1>6 DEF BeginRound

\* The sample of the round is taken after those of the rows.
LEMMA ResourceSampleInv ==
  ASSUME HourlyInv, ResourceSample
  PROVE  HourlyInv'
<1>1. MetricsTypeOK /\ Counters \in Reading
  BY HourlyTyped
<1>2. UNCHANGED <<now, vmVars, rows, hour, new>>
  BY DEF ResourceSample
<1>3. new' = {} /\ hour' <= HourOf(now)'
  BY <1>2, SameCounters DEF HourlyInv, NewInv, HoursInv, ResourceSample
<1>4. ASSUME NEW n \in 0..net, NEW c \in 0..cpu, sample' = ReadingOf(n, c),
             round' = "reading", failed' \in 0..MaxFailed
      PROVE  HourlyInv'
  <2>1. /\ sample' \in Reading /\ Follows(Counters, sample')
        /\ \A r \in rows : Follows(sample', r.last)
    <3>1. /\ sample' \in Reading /\ Net(sample') = net /\ Cpu(sample') = cpu
          /\ sample'.at = now /\ sample'.sent = sent /\ sample'.cycle = restarts
      BY <1>1, <1>4, ReadingOfType
    <3>2. /\ Net(Counters) = net /\ Cpu(Counters) = cpu
          /\ Counters.at = now /\ Counters.sent = sent /\ Counters.cycle = restarts
      BY <1>1, CountersType
    <3>3. Follows(Counters, Counters)
      BY <1>1, FollowsItself
    <3>4. \A r \in rows : Follows(Counters, r.last)
      BY DEF HourlyInv, ReadingsInv
    <3>. QED BY <3>1, <3>2, <3>3, <3>4, SameReading
  <2>2. MetricsTypeOK'
    BY <1>1, <1>2, <1>4, <2>1 DEF MetricsTypeOK, vmVars
  <2>3. Counters' = Counters /\ rows' = rows
    BY <1>2, SameCounters
  <2>4. ReadingsInv'
    BY <1>2, <2>1, <2>3, RowsStay DEF ReadingsInv, Follows
  <2>5. HoursInv' /\ NewInv'
    BY <1>2, <1>3, <1>4, RowsStay DEF HourlyInv, HoursInv, NewInv, ResourceSample
  <2>. QED BY <1>2, <2>2, <2>4, <2>5, RowsStay DEF HourlyInv
<1>5. CASE sample' = ReadingOf(net, cpu) /\ round' = "reading" /\ UNCHANGED failed
  BY <1>1, <1>4, <1>5 DEF MetricsTypeOK
<1>6. CASE /\ Fault /\ round' = "reading"
           /\ \E n \in 0..net, c \in {0, cpu} : sample' = ReadingOf(n, c)
  <2>1. failed' \in 0..MaxFailed /\ {0, cpu} \subseteq 0..cpu
    BY <1>1, <1>6, FailedType DEF MetricsTypeOK
  <2>. QED BY <1>4, <1>6, <2>1
<1>7. CASE Fault /\ round' = "purging" /\ UNCHANGED sample
  <2>1. MetricsTypeOK'
    BY <1>1, <1>2, <1>7, FailedType DEF MetricsTypeOK, vmVars
  <2>. QED BY <1>2, <1>3, <1>7, <2>1, RowsStay, RoundOver
<1>. QED BY <1>5, <1>6, <1>7 DEF ResourceSample

\* The row to store is made, or the round is over.
LEMMA ReadRowsInv ==
  ASSUME HourlyInv, ReadRows
  PROVE  HourlyInv'
<1>1. MetricsTypeOK
  BY HourlyTyped
<1>2. UNCHANGED <<now, vmVars, rows, hour, sample>> /\ round = "reading"
  BY DEF ReadRows
<1>3. CASE round' = "storing" /\ UNCHANGED failed
  <2>1. PICK n \in Row : /\ new' = {n} /\ n.hour = hour /\ n.last = sample /\ Exact(n)
                         /\ \A r \in rows : r.hour < hour => Joined(r, n, rows)
    BY <1>2, <1>3, NewRow
  <2>2. MetricsTypeOK'
    <3>1. new' \subseteq Row /\ \A r, s \in new' : r = s
      BY <2>1
    <3>. QED BY <1>1, <1>2, <1>3, <3>1 DEF MetricsTypeOK, vmVars
  <2>3. Exact(n)' /\ \A r \in rows' : r.hour < hour' => Joined(r, n, rows')
    BY <1>2, <2>1 DEF Exact
  <2>4. NewInv'
    BY <1>2, <1>3, <2>1, <2>3 DEF NewInv
  <2>5. Follows(Counters', sample') /\ \A r \in rows' : Follows(sample', r.last)
    BY <1>2, SameCounters DEF HourlyInv, ReadingsInv
  <2>6. ReadingsInv'
    BY <1>2, <2>5, RowsStay DEF ReadingsInv, Follows
  <2>7. HoursInv'
    BY <1>2, SameCounters, RowsStay DEF HourlyInv, HoursInv
  <2>. QED BY <1>1, <1>2, <2>2, <2>4, <2>6, <2>7, RowsStay DEF HourlyInv
<1>4. CASE Fault /\ UNCHANGED new /\ round' = "purging"
  <2>1. MetricsTypeOK'
    BY <1>1, <1>2, <1>4, FailedType DEF MetricsTypeOK, vmVars
  <2>2. new' = {} /\ hour' <= HourOf(now)'
    BY <1>2, <1>4, SameCounters DEF HourlyInv, NewInv, HoursInv
  <2>. QED BY <1>2, <1>4, <2>1, <2>2, RowsStay, RoundOver
<1>. QED BY <1>3, <1>4 DEF ReadRows

\* The row is stored over the one of its hour: it ends the chart.
LEMMA UpsertHourlyMetricsInv ==
  ASSUME HourlyInv, UpsertHourlyMetrics
  PROVE  HourlyInv'
<1>1. /\ MetricsTypeOK /\ hour \in Nat
      /\ \A r \in rows : r \in Row /\ r.hour \in Nat
  BY HourlyTyped
<1>2. /\ UNCHANGED <<now, vmVars, hour, sample>>
      /\ round = "storing" /\ round' = "purging" /\ new' = {}
  BY DEF UpsertHourlyMetrics
<1>3. hour' <= HourOf(now)'
  BY <1>2, SameCounters DEF HourlyInv, HoursInv
<1>4. CASE rows' = {r \in rows : r.hour # hour} \cup new /\ UNCHANGED failed
  <2>1. PICK n \in Row : /\ new = {n} /\ n.hour = hour /\ n.last = sample /\ Exact(n)
                         /\ \A r \in rows : r.hour < hour => Joined(r, n, rows)
    BY <1>2 DEF HourlyInv, NewInv
  <2>2. \A r \in rows' : r = n \/ (r \in rows /\ r.hour < hour)
    BY <1>1, <1>2, <1>4, <2>1 DEF HourlyInv, HoursInv
  <2>3. n \in rows' /\ \A r \in rows : r.hour < hour => r \in rows'
    BY <1>1, <1>4, <2>1
  <2>4. MetricsTypeOK'
    <3>1. rows' \subseteq Row
      BY <1>1, <2>2
    <3>2. \A r, s \in rows' : r.hour = s.hour => r = s
      BY <1>1, <2>1, <2>2 DEF MetricsTypeOK
    <3>. QED BY <1>1, <1>2, <1>4, <3>1, <3>2 DEF MetricsTypeOK, vmVars
  <2>5. RowsInv'
    BY <2>1, <2>2 DEF HourlyInv, RowsInv, Exact
  <2>6. ASSUME NEW r \in rows', NEW s \in rows', r.hour < s.hour
        PROVE  Joined(r, s, rows')
    <3>1. r \in rows /\ r.hour < hour
      BY <1>1, <2>1, <2>2, <2>6
    <3>2. Joined(r, s, rows) /\ s.hour <= hour /\ s.hour \in Nat
      BY <1>1, <2>1, <2>2, <2>6, <3>1 DEF HourlyInv, JoinedInv
    <3>3. ASSUME \A q \in rows' : q.hour <= r.hour \/ s.hour <= q.hour
          PROVE  \A q \in rows : q.hour <= r.hour \/ s.hour <= q.hour
      <4> TAKE q \in rows
      <4>1. CASE q.hour < hour
        BY <2>3, <3>3, <4>1
      <4>2. CASE ~(q.hour < hour)
        BY <1>1, <3>2, <4>2
      <4>. QED BY <4>1, <4>2
    <3>. QED BY <3>2, <3>3 DEF Joined
  <2>7. JoinedInv'
    BY <2>6 DEF JoinedInv, Joined
  <2>8. \A r \in rows' : Follows(Counters', r.last)
    BY <1>2, <2>1, <2>2, SameCounters DEF HourlyInv, ReadingsInv
  <2>9. \A r \in rows' : r.hour <= HourOf(now)'
    BY <1>2, <2>1, <2>2, SameCounters DEF HourlyInv, HoursInv
  <2>. QED BY <1>2, <1>3, <2>4, <2>5, <2>7, <2>8, <2>9, RoundOver
<1>5. CASE Fault /\ UNCHANGED rows
  <2>1. MetricsTypeOK'
    BY <1>1, <1>2, <1>5, FailedType DEF MetricsTypeOK, vmVars
  <2>. QED BY <1>2, <1>3, <1>5, <2>1, RowsStay, RoundOver
<1>. QED BY <1>4, <1>5 DEF UpsertHourlyMetrics

\* The purge takes the earliest hours: the rows between two that stay, stay.
LEMMA PurgeOldHourlyMetricsInv ==
  ASSUME HourlyInv, PurgeOldHourlyMetrics
  PROVE  HourlyInv'
<1> DEFINE limit == now - RetentionHours * TicksPerHour
           old == {r \in rows : r.hour * TicksPerHour < limit}
<1>1. /\ MetricsTypeOK
      /\ \A r \in rows : r \in Row /\ r.hour \in Nat
      /\ HourOf(now) \in Nat
  BY HourlyTyped, HourType DEF Tick, Hour
<1>2. UNCHANGED <<now, vmVars, new>> /\ round' = "waiting" /\ hour' = 0 /\ new' = {}
  BY DEF PurgeOldHourlyMetrics, HourlyInv, NewInv
<1>3. hour' <= HourOf(now)'
  BY <1>1, <1>2, SameCounters
<1>4. sample' \in Reading /\ hour' \in Hour
  <2>1. MaxTick \div TicksPerHour \in Nat
    BY <1>1, DivMonotone
  <2>2. 0 \in Tick /\ 0 \in 0..MaxRestarts
    BY <1>1 DEF Tick
  <2>. QED BY <1>2, <2>1, <2>2 DEF PurgeOldHourlyMetrics, NoReading, Reading, Hour
<1>5. CASE rows' = rows \ old /\ UNCHANGED failed
  <2>1. rows' \subseteq rows
    BY <1>5
  <2>2. MetricsTypeOK'
    BY <1>1, <1>2, <1>4, <1>5, <2>1 DEF MetricsTypeOK, vmVars
  <2>3. RowsInv'
    BY <2>1 DEF HourlyInv, RowsInv, Exact
  <2>4. ASSUME NEW r \in rows', NEW s \in rows', r.hour < s.hour
        PROVE  Joined(r, s, rows')
    <3>1. ASSUME NEW q \in rows, r.hour < q.hour
          PROVE  q \in rows'
      <4>1. r.hour \in Nat /\ q.hour \in Nat /\ r.hour <= q.hour /\ TicksPerHour \in Nat
        BY <1>1, <2>1, <3>1
      <4>2. /\ r.hour * TicksPerHour \in Nat /\ q.hour * TicksPerHour \in Nat
            /\ r.hour * TicksPerHour <= q.hour * TicksPerHour
        BY <4>1, ProductMonotone
      <4>3. limit \in Int
        BY <1>1 DEF MetricsTypeOK, Tick
      <4>4. ~(r.hour * TicksPerHour < limit)
        BY <1>5, <2>1
      <4>. HIDE DEF limit
      <4>5. ~(q.hour * TicksPerHour < limit)
        BY <4>2, <4>3, <4>4
      <4>. QED BY <1>5, <4>5
    <3>2. Joined(r, s, rows)
      BY <2>1, <2>4 DEF HourlyInv, JoinedInv
    <3>3. ASSUME \A q \in rows' : q.hour <= r.hour \/ s.hour <= q.hour
          PROVE  \A q \in rows : q.hour <= r.hour \/ s.hour <= q.hour
      BY <1>1, <2>1, <3>1, <3>3
    <3>. QED BY <3>2, <3>3 DEF Joined
  <2>5. JoinedInv'
    BY <2>4 DEF JoinedInv, Joined
  <2>6. /\ \A r \in rows' : Follows(Counters', r.last)
        /\ \A r \in rows' : r.hour <= HourOf(now)'
    BY <1>2, <2>1, SameCounters DEF HourlyInv, ReadingsInv, HoursInv
  <2>. QED BY <1>2, <1>3, <2>2, <2>3, <2>5, <2>6, RoundOver
<1>6. CASE Fault /\ UNCHANGED rows
  <2>1. MetricsTypeOK'
    BY <1>1, <1>2, <1>4, <1>6, FailedType DEF MetricsTypeOK, vmVars
  <2>. QED BY <1>2, <1>3, <1>6, <2>1, RowsStay, RoundOver
<1>. QED BY <1>5, <1>6 DEF PurgeOldHourlyMetrics

\* The server dies with its round.
LEMMA ServerCrashInv ==
  ASSUME HourlyInv, ServerCrash
  PROVE  HourlyInv'
<1>1. /\ MetricsTypeOK /\ HourOf(now) \in Nat
  BY HourlyTyped, HourType DEF Tick, Hour
<1>2. UNCHANGED <<now, vmVars, rows>> /\ round' = "down" /\ hour' = 0 /\ new' = {}
  BY DEF ServerCrash
<1>3. hour' <= HourOf(now)'
  BY <1>1, <1>2, SameCounters
<1>4. sample' \in Reading /\ hour' \in Hour
  <2>1. MaxTick \div TicksPerHour \in Nat
    BY <1>1, DivMonotone
  <2>2. 0 \in Tick /\ 0 \in 0..MaxRestarts
    BY <1>1 DEF Tick
  <2>. QED BY <1>2, <2>1, <2>2 DEF ServerCrash, NoReading, Reading, Hour
<1>5. MetricsTypeOK'
  BY <1>1, <1>2, <1>4, FailedType DEF MetricsTypeOK, vmVars, ServerCrash
<1>. QED BY <1>2, <1>3, <1>5, RowsStay, RoundOver

------------------------------------------------------------------------------
\* The invariant holds at first.
LEMMA HourlyInitInv ==
  ASSUME HourlyInit
  PROVE  HourlyInv
<1>1. MaxTick \div TicksPerHour \in Nat /\ 0 \div TicksPerHour \in Nat
  BY DivMonotone
<1>2. 0 \in Tick /\ 0 \in 0..MaxRestarts /\ 0 \in 0..MaxFailed
  BY DEF Tick
<1>3. MetricsTypeOK
  BY <1>1, <1>2 DEF HourlyInit, MetricsTypeOK, NoReading, Reading, Hour
<1>4. hour <= HourOf(now)
  BY <1>1 DEF HourlyInit, HourOf
<1>. QED BY <1>3, <1>4
         DEF HourlyInit, HourlyInv, ReadingsInv, RowsInv, JoinedInv, HoursInv, NewInv

\* Every step keeps the invariant.
LEMMA HourlyNextInv ==
  ASSUME HourlyInv, [HourlyNext]_hourlyVars
  PROVE  HourlyInv'
<1>1. CASE UNCHANGED hourlyVars
  <2>1. MetricsTypeOK /\ Counters \in Reading /\ now \in Tick
    BY HourlyTyped
  <2>2. Follows(Counters, Counters) /\ Counters' = Counters /\ now <= now'
    BY <1>1, <2>1, FollowsItself DEF hourlyVars, vmVars, Counters, ReadingOf, Tick
  <2>3. MetricsTypeOK' /\ UNCHANGED <<rows, round, roundVars>>
    BY <1>1, <2>1 DEF hourlyVars, vmVars, roundVars, MetricsTypeOK
  <2>. QED BY <2>1, <2>2, <2>3, GuestGoesOn
<1>2. CASE HourlyNext
  BY <1>2, PassInv, PowerCycleInv, BeginRoundInv, ResourceSampleInv, ReadRowsInv,
     UpsertHourlyMetricsInv, PurgeOldHourlyMetricsInv, ServerCrashInv
     DEF HourlyNext
<1>. QED BY <1>1, <1>2

\* HourlyMetrics keeps the invariant.
LEMMA HourlyInvariance == HourlySpec => []HourlyInv
<1>1. HourlyInit => HourlyInv
  BY HourlyInitInv
<1>2. HourlyInv /\ [HourlyNext]_hourlyVars => HourlyInv'
  BY HourlyNextInv
<1>. QED BY <1>1, <1>2, PTL DEF HourlySpec

\* The variables of HourlyMetrics have their types; above all, one row per hour:
\* UpsertHourlyMetrics replaces the row of the hour a second round samples.
THEOREM HourlyTypeCorrect == HourlySpec => []MetricsTypeOK
<1>1. HourlyInv => MetricsTypeOK
  BY DEF HourlyInv
<1>. QED BY <1>1, HourlyInvariance, PTL

\* The rows a chart shows are rows, and none between two of them is left out.
LEMMA ChartOfRows == HourlyInv => ChartConserves
<1>1. SUFFICES ASSUME HourlyInv, NEW n \in 1..(MaxTick + 1)
               PROVE  ShownOnce(GetHourlyMetrics(n)) /\ NothingMissed(GetHourlyMetrics(n))
  BY Zenon DEF ChartConserves
<1> DEFINE chart == GetHourlyMetrics(n)
<1>2. chart \subseteq rows
  BY DEF GetHourlyMetrics
<1>3. HourOf(now) \in Nat /\ n \in Nat /\ \A r \in rows : r.hour \in Nat
  BY <1>1, HourlyTyped, HourType DEF Tick, Hour
<1>4. \A r, s \in chart, q \in rows : r.hour < q.hour /\ q.hour < s.hour => q \in chart
  BY <1>2, <1>3 DEF GetHourlyMetrics
<1>. HIDE DEF chart
<1>5. \A r \in chart : Exact(r) /\ r.last.sent <= sent
  BY <1>1, <1>2, HourlyTyped, CountersType DEF HourlyInv, RowsInv, ReadingsInv, Follows
<1>6. \A r, s \in chart : r.hour < s.hour => Joined(r, s, rows)
  BY <1>1, <1>2 DEF HourlyInv, JoinedInv
<1>7. ShownOnce(chart)
  BY <1>5, <1>6 DEF ShownOnce, Exact, Joined
<1>8. NothingMissed(chart)
  <2>1. \A r \in chart : r.whole /\ r.known => r.bandwidth = r.last.sent - r.from
    BY <1>5 DEF Exact
  <2>2. ASSUME NEW r \in chart, NEW s \in chart, r.hour < s.hour,
               \A q \in chart : q.hour <= r.hour \/ s.hour <= q.hour
        PROVE  s.from = r.last.sent
    <3>1. \A q \in rows : q.hour <= r.hour \/ s.hour <= q.hour
      BY <1>2, <1>3, <1>4, <2>2
    <3>. QED BY <1>6, <2>2, <3>1 DEF Joined
  <2>. QED BY <2>1, <2>2 DEF NothingMissed
<1>. QED BY <1>7, <1>8 DEF chart

\* The hourly chart conserves bytes, for every retention, interval and number of
\* restarts: no stretch is in two rows, none between two rows is missing, and a row
\* whose readings lacked no counter shows no more bytes than its stretch has, and all
\* of them unless the guest restarted in it.
THEOREM HourlyChartConserves == HourlySpec => []ChartConserves
  BY ChartOfRows, HourlyInvariance, PTL

\* A percentage is of all of the instance's cores, however late the samples, unless
\* more time passed than the one it was computed for or the sample before lacked the
\* CPU usage; also when the allocation is a part of a core.
THEOREM HourlyCpuWithinAllocation == HourlySpec => []CpuWithinAllocation
<1>1. HourlyInv => CpuWithinAllocation
  BY DEF HourlyInv, RowsInv, Exact, CpuWithinAllocation
<1>. QED BY <1>1, HourlyInvariance, PTL
================================================================================
