----------------------------- MODULE Scheduler -----------------------------
(***************************************************************************)
(* The absolute-deadline arithmetic of src/runtime/scheduler.rs and        *)
(* src/runtime/clock.rs.  Instants and durations are natural numbers of    *)
(* one time unit; MaxInstant is the largest instant a Duration can hold    *)
(* and MaxSkipped the largest u64, beyond which the code returns           *)
(* DeadlineOverflow and leaves the scheduler as it was.                    *)
(***************************************************************************)
EXTENDS Integers

CONSTANTS MaxInstant, MaxSkipped

ASSUME InstantAssumption == MaxInstant \in Nat
ASSUME SkippedAssumption == MaxSkipped \in Nat

\* Duration::checked_add yields a value.
Addable(t, d) == t + d <= MaxInstant

\* clock.rs: deadline_after, a saturating addition.
deadline_after(now, d) == IF Addable(now, d) THEN now + d ELSE MaxInstant

\* ReportScheduler::start: refused for a zero period and on overflow.
StartOk(startedAt, period) == period # 0 /\ Addable(startedAt, period)
StartDeadline(startedAt, period) == startedAt + period

\* Faulty variants of the arithmetic below, which the runs must tell from it:
\* re-arming a full period after an overrun, re-arming from the deadline that
\* was missed, adding the remainder instead of subtracting it, and adding
\* without a check.
DriftingDeadline(now, next, period) == now + period
BurstingDeadline(now, next, period) == next + period
LateUntilNext(now, next, period) == period + ((now - next) % period)

\* ReportScheduler::step at `now` for a scheduler whose next deadline is
\* `next`: how many whole periods were missed, and how long until the first
\* deadline of the same phase that lies in the future.
IsDue(now, next) == now >= next
Skipped(now, next, period) == (now - next) \div period
UntilNext(now, next, period) == period - ((now - next) % period)

UncheckedStepOk(now, next, period) == Skipped(now, next, period) <= MaxSkipped

StepOk(now, next, period) ==
    /\ Skipped(now, next, period) <= MaxSkipped
    /\ Addable(now, UntilNext(now, next, period))

\* The deadline after a step that is due and does not overflow.
StepDeadline(now, next, period) == now + UntilNext(now, next, period)
=============================================================================
