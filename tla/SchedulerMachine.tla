-------------------------- MODULE SchedulerMachine --------------------------
(***************************************************************************)
(* One ReportScheduler driven by a monotonic clock: the automatic report   *)
(* of the Periodic policy and the bootstrap retry of the handshake both    *)
(* own one.  The clock may jump by any amount between two evaluations,     *)
(* which is what an overrun of the worker looks like to the scheduler.     *)
(***************************************************************************)
EXTENDS Scheduler

CONSTANTS MaxPeriod,    \* the longest period a caller asks for
          Horizon       \* bound on the clock, for TLC

ASSUME PeriodAssumption == MaxPeriod \in Nat
ASSUME HorizonAssumption == Horizon \in Nat /\ Horizon <= MaxInstant

VARIABLES
    now,        \* the clock
    period,     \* ReportScheduler.period; 0 while there is no scheduler
    next,       \* ReportScheduler.next_deadline
    started,    \* the instant `start` was called at
    ticks,      \* deadlines consumed so far: every Due and what it skipped
    last        \* the instant of the latest Due, -1 before the first

vars == <<now, period, next, started, ticks, last>>

TypeOK ==
    /\ now \in 0..Horizon
    /\ period \in 0..MaxPeriod
    /\ next \in 0..MaxInstant
    /\ started \in 0..Horizon
    /\ ticks \in Nat
    /\ last \in -1..Horizon

Init ==
    /\ now = 0 /\ period = 0 /\ next = 0 /\ started = 0
    /\ ticks = 0 /\ last = -1

Advance ==
    /\ \E t \in (now + 1)..Horizon : now' = t
    /\ UNCHANGED <<period, next, started, ticks, last>>

\* A refused start returns an error and leaves no scheduler.
Start ==
    /\ period = 0
    /\ \E p \in 0..MaxPeriod :
          IF StartOk(now, p)
          THEN /\ period' = p
               /\ next' = StartDeadline(now, p)
               /\ started' = now
          ELSE UNCHANGED <<period, next, started>>
    /\ UNCHANGED <<now, ticks, last>>

\* TickDecision::NotDue.
StepNotDue ==
    /\ period # 0
    /\ ~IsDue(now, next)
    /\ UNCHANGED vars

StepDue ==
    /\ period # 0
    /\ IsDue(now, next)
    /\ StepOk(now, next, period)
    /\ next' = StepDeadline(now, next, period)
    /\ ticks' = ticks + 1 + Skipped(now, next, period)
    /\ last' = now
    /\ UNCHANGED <<now, period, started>>

\* DeadlineOverflow: the scheduler stays as it was.
StepOverflow ==
    /\ period # 0
    /\ IsDue(now, next)
    /\ ~StepOk(now, next, period)
    /\ UNCHANGED vars

\* PeriodicPolicy::stop_session drops the scheduler.
Stop ==
    /\ period' = 0 /\ next' = 0 /\ started' = 0 /\ ticks' = 0 /\ last' = -1
    /\ UNCHANGED now

Next == Advance \/ Start \/ StepNotDue \/ StepDue \/ StepOverflow \/ Stop

Spec == Init /\ [][Next]_vars

-----------------------------------------------------------------------------
\* The deadline stays on the phase set by `start`, whatever overruns happened:
\* next_deadline is the start plus one period plus one period for each
\* deadline consumed, so no tick is lost from the count and none drifts.
PhaseKept == period # 0 => next = started + (ticks + 1) * period

\* After a Due decision the next deadline is ahead of it by at most one
\* period, so the caller neither reports twice for one instant nor leaves out
\* a deadline that was still to come.
OnTime == period # 0 /\ last >= 0 => last < next /\ next - last <= period

\* An overrun is answered by one Due decision, never by a burst of them: every
\* decision is taken at a later instant than the one before it.
NoBurst ==
    [][period' # 0 /\ (last' # last \/ ticks' # ticks)
         => last < now /\ last' = now]_vars
=============================================================================
