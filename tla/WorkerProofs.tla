---------------------------- MODULE WorkerProofs ----------------------------
(***************************************************************************)
(* The properties of the worker the runs check, for every value of the     *)
(* constants: any set of commands, buttons and output reports, any timing, *)
(* any modulus of the report timer and the session numbers, and whatever   *)
(* the bounds on time, events, commands and faults.                        *)
(*                                                                         *)
(* Type correctness and session coherence come first and are proved        *)
(* together.  TypeOK is not inductive by itself: that a disconnection      *)
(* leaves a lifecycle the status can show needs the session to have been   *)
(* open, which SessionCoherent says; and that the rest of a batch is a     *)
(* sequence needs an event to have been left in it.  Each later section    *)
(* adds the few facts its property needs to that invariant and shows that  *)
(* every step keeps them.                                                  *)
(***************************************************************************)
EXTENDS WorkerCore, TLAPS

\* Events are handled only while the batch still has one.
BatchInHand == pc = "event" => batch # <<>>

\* The inductive invariant.
IInv == TypeOK /\ SessionCoherent /\ BatchInHand

\* A remainder by a positive modulus.
LEMMA Remainder ==
    ASSUME NEW d \in Nat, NEW p \in Nat, p # 0
    PROVE  d % p \in Nat /\ d % p < p
  OBVIOUS

\* The number that stands for no session is a session number.
LEMMA NoSession == 0 \in SessionIds
  BY ModulusAssumption DEF SessionIds

\* What the environment and a transport fault may still do.
LEMMA BudgetSteps ==
    ASSUME left \in BudgetType
    PROVE  /\ left.commands > 0 => [left EXCEPT !.commands = @ - 1] \in BudgetType
           /\ left.events > 0 => [left EXCEPT !.events = @ - 1] \in BudgetType
           /\ \A n \in Nat : Afford(n) /\ Spend(n) => left' \in BudgetType
<1>1. left.commands > 0 => [left EXCEPT !.commands = @ - 1] \in BudgetType
  BY DEF BudgetType
<1>2. left.events > 0 => [left EXCEPT !.events = @ - 1] \in BudgetType
  BY DEF BudgetType
<1>3. ASSUME NEW n \in Nat, Afford(n), Spend(n) PROVE left' \in BudgetType
  BY <1>3 DEF BudgetType, Afford, Spend
<1> QED
  BY <1>1, <1>2, <1>3

\* Paying for the outcome of a send.
LEMMA CostSpent ==
    ASSUME left \in BudgetType, NEW o, Afford(Cost(o)), Spend(Cost(o))
    PROVE  left' \in BudgetType
<1>1. Cost(o) \in Nat
  BY DEF Cost
<1> QED
  BY <1>1, BudgetSteps

\* The environment touches nothing of the worker but the queue, the latch, the
\* inbox and the token.
LEMMA EnvironmentFrame ==
    ASSUME Tick \/ Client \/ Owner \/ Peer
    PROVE  UNCHANGED <<session, observed, output, input, reporting, inFlight,
                       status, pc, check, step, progress, repliedAt>>
  BY DEF Tick, Client, Owner, Peer, Enqueue, RequestShutdown, PeerEvent,
         PeerConnect, PeerOpenControl, PeerOpenInterrupt, PeerOutput,
         PeerDisconnect

\* Steps that only move the worker on leave the session and what the peer and
\* the readers of the status see alone.
LEMMA QuietFrame ==
    ASSUME NoTake \/ Poll \/ PollError \/ Finish \/ Proceed \/ Wake
    PROVE  UNCHANGED <<session, observed, output, input, reporting, status,
                       shutdown, repliedAt>>
  BY DEF NoTake, Poll, PollError, Finish, Proceed, Wake, Restart, environment

\* The steps of the environment.
LEMMA EnvironmentSteps ==
    ASSUME IInv, Tick \/ Client \/ Owner \/ Peer
    PROVE  IInv'
<1> USE DEF IInv, TypeOK, EnvironmentTypeOK
<1>1. UNCHANGED <<session, observed, output, input, reporting, inFlight, status,
                  pc, check, step, progress, repliedAt>>
  BY EnvironmentFrame
<1>2. EnvironmentTypeOK' /\ idle' \in 0..2
  <2>1. CASE Tick
     BY <2>1 DEF Tick, StepTypeOK
  <2>2. ASSUME NEW c \in Commands, Enqueue(c)
        PROVE  EnvironmentTypeOK' /\ idle' \in 0..2
     <3>1. left' \in BudgetType
        BY <2>2, BudgetSteps DEF Enqueue
     <3> QED
       BY <2>2, <3>1 DEF Enqueue, Notify, StepTypeOK
  <2>3. CASE Owner
     BY <2>3, BoundAssumption DEF Owner, RequestShutdown, Notify, StepTypeOK
  <2>4. ASSUME NEW e \in Event, NEW p \in {"down", "linked", "control", "open"},
               PeerEvent(e, p)
        PROVE  EnvironmentTypeOK' /\ idle' \in 0..2
     <3>1. left' \in BudgetType
        BY <2>4, BudgetSteps DEF PeerEvent
     <3>2. queue' \in Seq(Event)
        BY <2>4 DEF PeerEvent
     <3> QED
       BY <2>4, <3>1, <3>2 DEF PeerEvent, Notify, StepTypeOK
  <2>5. CASE Peer
     BY <2>4, <2>5, OutputAssumption
        DEF Peer, PeerConnect, PeerOpenControl, PeerOpenInterrupt,
            PeerOutput, PeerDisconnect, Event, Topology
  <2> QED
    BY <2>1, <2>2, <2>3, <2>5 DEF Client
<1>3. SessionTypeOK' /\ OutputTypeOK' /\ ReportingTypeOK' /\ StepTypeOK'
  BY <1>1, <1>2
     DEF SessionTypeOK, OutputTypeOK, ReportingTypeOK, StepTypeOK, session,
         output, reporting, step
<1>4. SessionCoherent' /\ BatchInHand'
  BY <1>1
     DEF SessionCoherent, BatchInHand, Connecting, TapPending, Ready,
         session, reporting, step
<1> QED
  BY <1>2, <1>3, <1>4

\* The deadlines the worker computes are instants.
LEMMA DeadlineType ==
    ASSUME now \in Nat, NEW d \in Nat
    PROVE  /\ deadline_after(now, d) \in Nat
           /\ StartDeadline(now, d) \in Nat
           /\ \A n \in Nat : IsDue(now, n) /\ d # 0 => StepDeadline(now, n, d) \in Nat
<1>1. deadline_after(now, d) \in Nat /\ StartDeadline(now, d) \in Nat
  BY InstantAssumption DEF deadline_after, StartDeadline
<1>2. ASSUME NEW n \in Nat, IsDue(now, n), d # 0
      PROVE  StepDeadline(now, n, d) \in Nat
  <2> DEFINE e == now - n
  <2>1. e \in Nat
    BY <1>2 DEF IsDue
  <2>2. e % d \in Nat /\ e % d < d
    BY <1>2, <2>1, Remainder
  <2> HIDE DEF e
  <2>3. now + (d - (e % d)) \in Nat
    BY <2>2
  <2> QED
    BY <2>3 DEF e, StepDeadline, UntilNext
<1> QED
  BY <1>1, <1>2

\* A send, accepted or not, leaves a sender and a report of the right type.
LEMMA TransmitKeepsOutput ==
    ASSUME OutputTypeOK, NEW k \in Sent, NEW b \in SUBSET Buttons,
           NEW ok \in BOOLEAN, NEW commit \in SenderType,
           Transmit(k, b, commit, ok)
    PROVE  sender' \in SenderType /\ wire' \in WireType /\ shown' \in SUBSET Buttons
<1>1. NextTimer \in 0..(TimerModulus - 1)
  <2>1. sender.timer + 1 \in Nat
    BY ModulusAssumption DEF OutputTypeOK, SenderType
  <2>2. /\ (sender.timer + 1) % TimerModulus \in Nat
        /\ (sender.timer + 1) % TimerModulus < TimerModulus
    BY <2>1, Remainder, ModulusAssumption
  <2> QED
    BY <2>2, ModulusAssumption DEF NextTimer
<1> QED
  BY <1>1 DEF Transmit, OutputTypeOK, output, SenderType, WireType, StatusType

\* Recording a result leaves a step progress.
LEMMA RecordType ==
    ASSUME NEW p \in ProgressType, NEW b \in BOOLEAN, NEW r \in {"ok", "err"}
    PROVE  Record(p, b, r) \in ProgressType
  BY DEF Record, ProgressType

\* One lemma per action of the worker: it keeps the inductive invariant.
LEMMA NoTakeStep ==
    ASSUME IInv, NoTake PROVE IInv'
<1> USE DEF IInv, TypeOK, NoTake
<1>1. EnvironmentTypeOK'
  BY DEF EnvironmentTypeOK, environment
<1>2. SessionTypeOK'
  BY DEF SessionTypeOK, session
<1>3. OutputTypeOK'
  BY DEF OutputTypeOK, output
<1>4. ReportingTypeOK'
  BY DEF ReportingTypeOK, reporting
<1>5. StepTypeOK'
  BY DEF StepTypeOK, step
<1>6. SessionCoherent' /\ BatchInHand'
   BY DEF SessionCoherent, BatchInHand, Connecting, TapPending, Ready, session,
          reporting, step
<1> QED
  BY <1>1, <1>2, <1>3, <1>4, <1>5, <1>6

\* begin_connection issues a number that is never 0.
LEMMA ConnectBegunStep ==
    ASSUME IInv, NEW c \in Commands, ConnectBegun(c) PROVE IInv'
<1> USE DEF IInv, TypeOK, ConnectBegun
<1> USE CommandsAssumption, ModulusAssumption
<1>9. c.time \in Nat
  BY DEF Command
<1>0. prepare_next \in SessionIds /\ prepare_next # 0
  <2>1. (lastIssued + 1) % SessionModulus \in 0..(SessionModulus - 1)
     BY Remainder DEF SessionTypeOK, SessionIds
  <2> QED
    BY <2>1 DEF prepare_next, SessionIds
<1>1. EnvironmentTypeOK'
  BY DEF EnvironmentTypeOK, environment
<1>2. SessionTypeOK'
  BY <1>0, <1>9, DeadlineType
     DEF SessionTypeOK, session, NoConn, EnvironmentTypeOK, NoTime, Time,
         ConnType
<1>3. OutputTypeOK'
  BY <1>0
     DEF OutputTypeOK, output, FreshSender, NoWire, Modes, SessionIds,
         SenderType, StatusType, WireType, Sent
<1>4. ReportingTypeOK'
  BY DEF ReportingTypeOK, reporting, Time
<1>5. StepTypeOK'
  BY DEF StepTypeOK, step, ProgressType
<1>6. SessionCoherent' /\ BatchInHand'
   BY <1>0
      DEF SessionCoherent, BatchInHand, Connecting, TapPending, Ready,
          session, reporting, step, NoConn
<1> QED
  BY <1>1, <1>2, <1>3, <1>4, <1>5, <1>6

\* What every taken command does to the step.
LEMMA TakeKeepsStep ==
    ASSUME StepTypeOK, NEW c, NEW r \in {"ok", "err", "pending"},
           NEW t \in BOOLEAN, Take(c, r, t)
    PROVE  StepTypeOK' /\ BatchInHand'
<1>1. progress' \in ProgressType
  <2>1. Record(progress, r # "pending", r) \in ProgressType
    BY RecordType DEF StepTypeOK, Record
  <2> QED
    BY <2>1 DEF Take, ProgressType
<1>2. pc' \in {"fail", "poll"} /\ check' = TRUE /\ inFlight' = TRUE
  BY DEF Take
<1> QED
  BY <1>1, <1>2 DEF Take, StepTypeOK, BatchInHand, step

\* A connection command that is refused.
LEMMA ConnectRefusedStep ==
    ASSUME IInv, NEW c \in Commands, NEW ok \in BOOLEAN, ConnectRefused(c, ok)
    PROVE  IInv'
<1> USE DEF IInv, TypeOK, ConnectRefused
<1>1. EnvironmentTypeOK'
  <2>1. left' \in BudgetType
    BY BudgetSteps DEF EnvironmentTypeOK, Spend, Afford, BudgetType
  <2> QED
    BY <2>1 DEF EnvironmentTypeOK, Take
<1>2. SessionTypeOK'
  BY DEF SessionTypeOK, Take
<1>3. OutputTypeOK'
  BY DEF OutputTypeOK, output
<1>4. ReportingTypeOK'
  BY DEF ReportingTypeOK, reporting
<1>5. StepTypeOK' /\ BatchInHand'
  BY TakeKeepsStep
<1>6. SessionCoherent'
  BY DEF SessionCoherent, Connecting, TapPending, Ready, reporting
<1> QED
  BY <1>1, <1>2, <1>3, <1>4, <1>5, <1>6

\* An input command that is refused.
LEMMA InputRefusedStep ==
    ASSUME IInv, NEW c \in Commands, InputRefused(c)
    PROVE  IInv'
<1> USE DEF IInv, TypeOK, InputRefused
<1>1. EnvironmentTypeOK'
  BY DEF EnvironmentTypeOK, Take
<1>2. SessionTypeOK'
  BY DEF SessionTypeOK, Take
<1>3. OutputTypeOK'
  BY DEF OutputTypeOK, output
<1>4. ReportingTypeOK'
  BY DEF ReportingTypeOK, reporting
<1>5. StepTypeOK' /\ BatchInHand'
  BY TakeKeepsStep
<1>6. SessionCoherent'
  BY DEF SessionCoherent, Connecting, TapPending, Ready, reporting
<1> QED
  BY <1>1, <1>2, <1>3, <1>4, <1>5, <1>6

\* What an input command commits is a set of buttons.
LEMMA CandidateType ==
    ASSUME input \in SUBSET Buttons, NEW c \in Commands
    PROVE  Candidate(c) \in SUBSET Buttons
  BY CommandsAssumption DEF Candidate, Command

\* A Periodic input command.
LEMMA PeriodicInputStep ==
    ASSUME IInv, NEW c \in Commands, PeriodicInput(c)
    PROVE  IInv'
<1> USE DEF IInv, TypeOK, PeriodicInput
<1>1. EnvironmentTypeOK'
  BY DEF EnvironmentTypeOK, Take
<1>2. SessionTypeOK'
  BY DEF SessionTypeOK, Take
<1>3. OutputTypeOK'
  BY CandidateType DEF OutputTypeOK, output, StatusType
<1>4. ReportingTypeOK'
  BY DEF ReportingTypeOK, reporting
<1>5. StepTypeOK' /\ BatchInHand'
  BY TakeKeepsStep
<1>6. SessionCoherent'
  BY DEF SessionCoherent, Connecting, TapPending, Ready, reporting
<1> QED
  BY <1>1, <1>2, <1>3, <1>4, <1>5, <1>6

\* A Direct input command.
LEMMA DirectInputStep ==
    ASSUME IInv, NEW c \in Commands, NEW o \in Outcomes, DirectInput(c, o)
    PROVE  IInv'
<1> USE DEF IInv, TypeOK, DirectInput
<1>1. EnvironmentTypeOK'
  BY CostSpent DEF EnvironmentTypeOK, Take
<1>2. SessionTypeOK'
  BY DEF SessionTypeOK, Take
<1>3. OutputTypeOK'
  <2>1. sender' \in SenderType /\ wire' \in WireType /\ shown' \in SUBSET Buttons
    BY CandidateType, TransmitKeepsOutput DEF OutputTypeOK, Sent
  <2>2. input' \in SUBSET Buttons
    BY CandidateType DEF OutputTypeOK
  <2>3. status' \in StatusType
    BY <2>1, <2>2 DEF OutputTypeOK, StatusType, SenderType
  <2> QED
    BY <2>1, <2>2, <2>3 DEF OutputTypeOK
<1>4. ReportingTypeOK'
  BY DEF ReportingTypeOK, reporting
<1>5. StepTypeOK' /\ BatchInHand'
  BY TakeKeepsStep
<1>6. SessionCoherent'
  BY DEF SessionCoherent, Connecting, TapPending, Ready, reporting
<1> QED
  BY <1>1, <1>2, <1>3, <1>4, <1>5, <1>6

\* A tap begins only while Ready, so the tap belongs to a session.
LEMMA BeginTapStep ==
    ASSUME IInv, NEW c \in Commands, NEW o \in Outcomes, BeginTap(c, o)
    PROVE  IInv'
<1> USE DEF IInv, TypeOK, BeginTap
<1>0. c.buttons \in SUBSET Buttons /\ c.time \in Nat
  BY CommandsAssumption DEF Command
<1>1. EnvironmentTypeOK'
  BY CostSpent DEF EnvironmentTypeOK, Take
<1>2. SessionTypeOK'
  BY DEF SessionTypeOK, Take
<1>3. OutputTypeOK'
  <2>1. sender' \in SenderType /\ wire' \in WireType /\ shown' \in SUBSET Buttons
    BY <1>0, TransmitKeepsOutput DEF OutputTypeOK, Sent
  <2>2. input' \in SUBSET Buttons
    BY <1>0 DEF OutputTypeOK
  <2>3. status' \in StatusType
    BY <2>1, <2>2 DEF OutputTypeOK, StatusType, SenderType
  <2> QED
    BY <2>1, <2>2, <2>3 DEF OutputTypeOK
<1>4. ReportingTypeOK'
  <2>1. deadline_after(now, c.time) \in Time
    BY <1>0, DeadlineType DEF EnvironmentTypeOK, Time
  <2>2. tap' \in TapType
    BY <1>0, <2>1 DEF ReportingTypeOK, TapType, OutputTypeOK
  <2> QED
    BY <2>2 DEF ReportingTypeOK
<1>5. StepTypeOK' /\ BatchInHand'
  BY TakeKeepsStep
<1>6. SessionCoherent'
  BY DEF SessionCoherent, Connecting, TapPending, Ready, reporting
<1> QED
  BY <1>1, <1>2, <1>3, <1>4, <1>5, <1>6

\* A poll that finds events hands them over; only then are events handled.
LEMMA PollStep ==
    ASSUME IInv, Poll
    PROVE  IInv'
<1> USE DEF IInv, TypeOK, Poll
<1>0. queue' \in Seq(Event)
  <2>1. queue' = <<>>
    OBVIOUS
  <2>2. <<>> \in Seq(Event)
    OBVIOUS
  <2> QED
    BY <2>1, <2>2
<1>1. EnvironmentTypeOK'
  BY <1>0 DEF EnvironmentTypeOK
<1>2. SessionTypeOK'
  BY DEF SessionTypeOK, session
<1>3. OutputTypeOK'
  BY DEF OutputTypeOK, output
<1>4. ReportingTypeOK'
  BY DEF ReportingTypeOK, reporting
<1>5. StepTypeOK'
  <2>1. tag' \in SessionIds /\ polled' \in Nat
    BY ModulusAssumption DEF StepTypeOK, SessionTypeOK, SessionIds
  <2>2. batch' \in Seq(Event)
    BY DEF StepTypeOK, EnvironmentTypeOK
  <2> QED
    BY <2>1, <2>2 DEF StepTypeOK
<1>6. SessionCoherent' /\ BatchInHand'
   BY DEF SessionCoherent, BatchInHand, Connecting, TapPending, Ready, session,
          reporting
<1> QED
  BY <1>1, <1>2, <1>3, <1>4, <1>5, <1>6

\* A failing poll.
LEMMA PollErrorStep ==
    ASSUME IInv, PollError
    PROVE  IInv'
<1> USE DEF IInv, TypeOK, PollError
<1>1. EnvironmentTypeOK'
  <2>1. left' \in BudgetType
    <3>1. left \in BudgetType /\ Afford(1) /\ Spend(1)
      BY DEF EnvironmentTypeOK
    <3> QED
      BY <3>1, BudgetSteps
  <2> QED
    BY <2>1 DEF EnvironmentTypeOK
<1>2. SessionTypeOK'
  BY DEF SessionTypeOK, session
<1>3. OutputTypeOK'
  BY DEF OutputTypeOK, output
<1>4. ReportingTypeOK'
  BY DEF ReportingTypeOK, reporting
<1>5. StepTypeOK'
  BY DEF StepTypeOK, step
<1>6. SessionCoherent' /\ BatchInHand'
   BY DEF SessionCoherent, BatchInHand, Connecting, TapPending, Ready, session,
          reporting, step
<1> QED
  BY <1>1, <1>2, <1>3, <1>4, <1>5, <1>6

\* What every event does to the step: one event less in the batch.
LEMMA EventStepKeepsStep ==
    ASSUME StepTypeOK, BatchInHand, Handling, NEW p \in ProgressType, EventStep(p)
    PROVE  /\ batch' \in Seq(Event) /\ progress' \in ProgressType
           /\ tag' \in SessionIds /\ polled' \in Nat
           /\ inFlight' \in BOOLEAN /\ check' \in BOOLEAN /\ idle' \in 0..2
           /\ batch' = Tail(batch)
           /\ AfterEvent(Tail(batch)) \in {"event", "drive", "poll"}
           /\ AfterEvent(Tail(batch)) = "event" => batch' # <<>>
<1>1. batch # <<>>
  BY DEF Handling, BatchInHand
<1>2. batch' \in Seq(Event) /\ batch' = Tail(batch)
  BY <1>1 DEF EventStep, StepTypeOK
<1>3. progress' \in ProgressType
  BY DEF EventStep, ProgressType, Exhausted
<1> QED
  BY <1>2, <1>3 DEF EventStep, StepTypeOK, AfterEvent

\* An event of a session that ended.
LEMMA EventDroppedStep ==
    ASSUME IInv, EventDropped
    PROVE  IInv'
<1> USE DEF IInv, TypeOK, EventDropped
<1>1. EnvironmentTypeOK'
  BY DEF EnvironmentTypeOK, EventStep
<1>2. SessionTypeOK'
  BY DEF SessionTypeOK, EventStep
<1>3. OutputTypeOK'
  BY DEF OutputTypeOK, output
<1>4. ReportingTypeOK'
  BY DEF ReportingTypeOK, reporting
<1>5. StepTypeOK' /\ BatchInHand'
  BY EventStepKeepsStep DEF StepTypeOK, BatchInHand
<1>6. SessionCoherent'
  BY DEF SessionCoherent, Connecting, TapPending, Ready, reporting
<1> QED
  BY <1>1, <1>2, <1>3, <1>4, <1>5, <1>6

\* Link and channel events.
LEMMA EventTopologyStep ==
    ASSUME IInv, EventTopology
    PROVE  IInv'
<1> USE DEF IInv, TypeOK, EventTopology
<1>1. EnvironmentTypeOK'
  BY DEF EnvironmentTypeOK, EventStep
<1>2. conn' \in ConnType /\ conn'.session = conn.session
  BY DEF SessionTypeOK, ConnType
<1>3. connected' \in BOOLEAN
  BY DEF SessionTypeOK
<1>4. SessionTypeOK'
  BY <1>2, <1>3 DEF SessionTypeOK, EventStep
<1>5. status' \in StatusType
  BY DEF OutputTypeOK, StatusType
<1>6. OutputTypeOK'
  BY <1>5 DEF OutputTypeOK, output
<1>7. ReportingTypeOK'
  BY DEF ReportingTypeOK, reporting
<1>8. StepTypeOK' /\ BatchInHand'
  BY EventStepKeepsStep DEF StepTypeOK, BatchInHand
<1>9. SessionCoherent'
  BY <1>2
     DEF SessionCoherent, Connecting, TapPending, Ready, reporting, Current,
         SessionTypeOK
<1> QED
  BY <1>1, <1>4, <1>6, <1>7, <1>8, <1>9

\* Outputs without a reply.
LEMMA EventSilentOutputStep ==
    ASSUME IInv, EventSilentOutput
    PROVE  IInv'
<1> USE DEF IInv, TypeOK, EventSilentOutput
<1>1. EnvironmentTypeOK'
  BY DEF EnvironmentTypeOK, EventStep
<1>2. SessionTypeOK'
  BY DEF SessionTypeOK, EventStep
<1>3. OutputTypeOK'
  BY DEF OutputTypeOK, output
<1>4. ReportingTypeOK'
  BY DEF ReportingTypeOK, reporting
<1>5. StepTypeOK' /\ BatchInHand'
  BY EventStepKeepsStep DEF StepTypeOK, BatchInHand
<1>6. SessionCoherent'
  BY DEF SessionCoherent, Connecting, TapPending, Ready, reporting
<1> QED
  BY <1>1, <1>2, <1>3, <1>4, <1>5, <1>6

\* An output with a reply, which can set the holdoff only in a session.
LEMMA EventOutputStep ==
    ASSUME IInv, NEW o \in Outcomes, EventOutput(o)
    PROVE  IInv'
<1> USE DEF IInv, TypeOK, EventOutput
<1>1. EnvironmentTypeOK'
  BY CostSpent DEF EnvironmentTypeOK, EventStep
<1>2. SessionTypeOK'
  BY DEF SessionTypeOK, EventStep
<1>3. OutputTypeOK'
  <2>1. next_session(sender, Head(batch)) \in SenderType
    BY DEF OutputTypeOK, next_session, SenderType, Modes
  <2>2. sender' \in SenderType /\ wire' \in WireType /\ shown' \in SUBSET Buttons
    BY <2>1, TransmitKeepsOutput DEF OutputTypeOK, Sent
  <2>3. status' \in StatusType
    BY <2>2 DEF OutputTypeOK, StatusType, SenderType
  <2> QED
    BY <2>2, <2>3 DEF OutputTypeOK
<1>4. ReportingTypeOK'
  <2>1. now + ReplyHoldoff \in Nat
    BY TimingAssumption DEF EnvironmentTypeOK
  <2>2. holdoff' \in Time /\ repliedAt' \in Time
    BY <2>1
       DEF ReportingTypeOK, record_output_completion, Later, Time,
           EnvironmentTypeOK
  <2> QED
    BY <2>2 DEF ReportingTypeOK
<1>5. StepTypeOK' /\ BatchInHand'
  BY EventStepKeepsStep DEF StepTypeOK, BatchInHand
<1>6. SessionCoherent'
  BY DEF SessionCoherent, Connecting, TapPending, Ready, Current
<1> QED
  BY <1>1, <1>2, <1>3, <1>4, <1>5, <1>6

\* The end of a session leaves a coherent open endpoint behind.
LEMMA EndSessionKeeps ==
    ASSUME SessionTypeOK, OutputTypeOK, ReportingTypeOK, SessionCoherent,
           EndSession, lifecycle \in {"Connecting", "Ready"},
           UNCHANGED <<lastIssued, observed, output, input, repliedAt>>
    PROVE  /\ SessionTypeOK' /\ OutputTypeOK' /\ ReportingTypeOK'
           /\ SessionCoherent'
<1> USE DEF EndSession
<1>1. lifecycle' = "Open" /\ pending' = FALSE
  BY DEF SessionCoherent
<1>2. conn' \in ConnType
  BY ModulusAssumption DEF NoConn, ConnType, SessionIds, Time, NoTime
<1>3. SessionTypeOK'
  BY <1>1, <1>2, NoSession DEF SessionTypeOK
<1>4. status' \in StatusType
  BY <1>1, NoSession DEF EndedStatus, StatusType, OutputTypeOK, Modes
<1>5. OutputTypeOK'
  BY <1>4 DEF OutputTypeOK, output
<1>6. ReportingTypeOK'
  BY DEF ReportingTypeOK, StopReporting, NoTap, TapType, Time
<1>7. SessionCoherent'
  BY <1>1
     DEF SessionCoherent, Connecting, TapPending, Ready, NoConn,
         StopReporting, NoTap
<1> QED
  BY <1>3, <1>5, <1>6, <1>7

\* A disconnection.
LEMMA EventDisconnectedStep ==
    ASSUME IInv, EventDisconnected
    PROVE  IInv'
<1> USE DEF IInv, TypeOK, EventDisconnected
<1>1. EnvironmentTypeOK'
  BY DEF EnvironmentTypeOK, EventStep
<1>2. lifecycle \in {"Connecting", "Ready"}
  BY DEF SessionCoherent, Current
<1>3. lastIssued' = lastIssued
  BY DEF EventStep
<1>4. SessionTypeOK' /\ OutputTypeOK' /\ ReportingTypeOK' /\ SessionCoherent'
  BY <1>2, <1>3, EndSessionKeeps
<1>5. Interrupted(progress) \in ProgressType
  <2> DEFINE p1 == Record(progress, TapPending, "err")
  <2> DEFINE p2 == Record(p1, Connecting /\ pending, "err")
  <2>1. p1 \in ProgressType
    BY RecordType DEF StepTypeOK, TapPending
  <2>2. p2 \in ProgressType
    BY <2>1, RecordType DEF SessionTypeOK, Connecting
  <2> HIDE DEF p2
  <2>3. \A b \in BOOLEAN : [p2 EXCEPT !.immediate = @ \/ b] \in ProgressType
    BY <2>2 DEF ProgressType
  <2>4. TapPending \/ (Connecting /\ pending) \in BOOLEAN
    BY DEF TapPending, Connecting
  <2> QED
    BY <2>3, <2>4 DEF Interrupted, p2
<1>6. StepTypeOK' /\ BatchInHand'
  BY <1>5, EventStepKeepsStep DEF StepTypeOK, BatchInHand
<1> QED
  BY <1>1, <1>4, <1>6

\* drive_connection without readiness work.
LEMMA DriveNothingStep ==
    ASSUME IInv, DriveNothing
    PROVE  IInv'
<1> USE DEF IInv, TypeOK, DriveNothing
<1>1. EnvironmentTypeOK'
  BY DEF EnvironmentTypeOK, environment
<1>2. SessionTypeOK'
  BY DEF SessionTypeOK, session
<1>3. OutputTypeOK'
  BY DEF OutputTypeOK, output
<1>4. ReportingTypeOK'
  BY DEF ReportingTypeOK, reporting
<1>5. StepTypeOK' /\ BatchInHand'
  BY DEF StepTypeOK, BatchInHand, step, AfterDrive, AfterEvent
<1>6. SessionCoherent'
   BY DEF SessionCoherent, Connecting, TapPending, Ready, session, reporting
<1> QED
  BY <1>1, <1>2, <1>3, <1>4, <1>5, <1>6

\* The operation deadline passed, or the session is another one.
LEMMA DriveAbortStep ==
    ASSUME IInv, DriveAbort
    PROVE  IInv'
<1> USE DEF IInv, TypeOK, DriveAbort
<1>1. EnvironmentTypeOK'
  BY DEF EnvironmentTypeOK, environment
<1>2. lifecycle \in {"Connecting", "Ready"}
  BY DEF SessionCoherent
<1>4. SessionTypeOK' /\ OutputTypeOK' /\ ReportingTypeOK' /\ SessionCoherent'
  BY <1>2, EndSessionKeeps
<1>5. progress' \in ProgressType
  <2>1. Record(progress, pending, "err") \in ProgressType
    BY RecordType DEF StepTypeOK, SessionTypeOK
  <2> QED
    BY <2>1 DEF ProgressType, SessionTypeOK
<1>6. StepTypeOK' /\ BatchInHand'
  BY <1>5 DEF StepTypeOK, BatchInHand, step, AfterDrive, AfterEvent
<1> QED
  BY <1>1, <1>4, <1>6

\* Nothing is due.
LEMMA DueNothingStep ==
    ASSUME IInv, DueNothing
    PROVE  IInv'
<1> USE DEF IInv, TypeOK, DueNothing
<1>1. EnvironmentTypeOK'
  BY DEF EnvironmentTypeOK, environment
<1>2. SessionTypeOK'
  BY DEF SessionTypeOK, session
<1>3. OutputTypeOK'
  BY DEF OutputTypeOK, output
<1>4. ReportingTypeOK'
  BY DEF ReportingTypeOK, reporting
<1>5. StepTypeOK' /\ BatchInHand'
  BY DEF StepTypeOK, BatchInHand, step, Eligible, Ready
<1>6. SessionCoherent'
   BY DEF SessionCoherent, Connecting, TapPending, Ready, session, reporting
<1> QED
  BY <1>1, <1>2, <1>3, <1>4, <1>5, <1>6

\* The release of a tap.
LEMMA TapReleaseStep ==
    ASSUME IInv, NEW o \in Outcomes, TapRelease(o)
    PROVE  IInv'
<1> USE DEF IInv, TypeOK, TapRelease
<1>1. EnvironmentTypeOK'
  BY CostSpent DEF EnvironmentTypeOK, DueStep
<1>2. SessionTypeOK'
  BY DEF SessionTypeOK, session, DueStep
<1>3. OutputTypeOK'
  <2>0. tap.released \in SUBSET Buttons
    BY DEF ReportingTypeOK, TapType
  <2>1. sender' \in SenderType /\ wire' \in WireType /\ shown' \in SUBSET Buttons
    BY <2>0, TransmitKeepsOutput DEF OutputTypeOK, Sent
  <2>2. input' \in SUBSET Buttons
    BY <2>0 DEF OutputTypeOK
  <2>3. status' \in StatusType
    BY <2>1, <2>2 DEF OutputTypeOK, StatusType, SenderType
  <2> QED
    BY <2>1, <2>2, <2>3 DEF OutputTypeOK
<1>4. ReportingTypeOK'
  BY DEF ReportingTypeOK, reporting, NoTap, TapType, Time, DueStep
<1>5. StepTypeOK' /\ BatchInHand'
  <2>1. \A r \in {"ok", "err"} : Record(progress, TRUE, r) \in ProgressType
    BY RecordType DEF StepTypeOK
  <2>2. progress' \in ProgressType
    BY <2>1 DEF ProgressType
  <2> QED
    BY <2>2 DEF StepTypeOK, BatchInHand, DueStep, step
<1>6. SessionCoherent'
  BY DEF SessionCoherent, Connecting, TapPending, Ready, session, NoTap, DueStep
<1> QED
  BY <1>1, <1>2, <1>3, <1>4, <1>5, <1>6

\* The next deadline of the automatic report is an instant.
LEMMA DueDeadline ==
    ASSUME EnvironmentTypeOK, ReportingTypeOK, AutoDue
    PROVE  StepDeadline(now, sched, Period) \in Nat
  BY DeadlineType, TimingAssumption
     DEF EnvironmentTypeOK, ReportingTypeOK, AutoDue, Time

\* The automatic report.
LEMMA AutomaticReportStep ==
    ASSUME IInv, NEW o \in Outcomes, AutomaticReport(o)
    PROVE  IInv'
<1> USE DEF IInv, TypeOK, AutomaticReport
<1>1. EnvironmentTypeOK'
  BY CostSpent DEF EnvironmentTypeOK, DueStep
<1>2. SessionTypeOK'
  BY DEF SessionTypeOK, session, DueStep
<1>3. OutputTypeOK'
  <2>1. sender' \in SenderType /\ wire' \in WireType /\ shown' \in SUBSET Buttons
    BY TransmitKeepsOutput DEF OutputTypeOK, Sent
  <2>3. status' \in StatusType
    BY <2>1 DEF OutputTypeOK, StatusType, SenderType
  <2> QED
    BY <2>1, <2>3 DEF OutputTypeOK
<1>0. sched' \in Nat
  BY DueDeadline
<1>4. ReportingTypeOK'
  BY <1>0 DEF ReportingTypeOK, Time, DueStep
<1>5. StepTypeOK' /\ BatchInHand'
  BY DEF StepTypeOK, BatchInHand, DueStep, step, ProgressType
<1>6. SessionCoherent'
  BY <1>0
     DEF SessionCoherent, Connecting, TapPending, Ready, session, NoTime,
         DueStep, AutoDue
<1> QED
  BY <1>1, <1>2, <1>3, <1>4, <1>5, <1>6

\* The automatic report without capacity.
LEMMA BackpressuredStep ==
    ASSUME IInv, Backpressured
    PROVE  IInv'
<1> USE DEF IInv, TypeOK, Backpressured
<1>1. EnvironmentTypeOK'
  <2>1. left \in BudgetType /\ Afford(1) /\ Spend(1)
    BY DEF EnvironmentTypeOK
  <2>2. left' \in BudgetType
    BY <2>1, BudgetSteps
  <2> QED
    BY <2>2 DEF EnvironmentTypeOK, DueStep
<1>2. SessionTypeOK'
  BY DEF SessionTypeOK, session, DueStep
<1>3. OutputTypeOK'
  BY DEF OutputTypeOK, output
<1>0. sched' \in Nat
  BY DueDeadline
<1>4. ReportingTypeOK'
  BY <1>0 DEF ReportingTypeOK, Time, DueStep
<1>5. StepTypeOK' /\ BatchInHand'
  BY DEF StepTypeOK, BatchInHand, DueStep, step
<1>6. SessionCoherent'
  BY <1>0
     DEF SessionCoherent, Connecting, TapPending, Ready, session, NoTime,
         DueStep, AutoDue
<1> QED
  BY <1>1, <1>2, <1>3, <1>4, <1>5, <1>6

\* minimum_deadline and the maximum of two deadlines yield deadlines.
LEMMA MinimumType ==
    ASSUME NEW a \in Time, NEW b \in Time
    PROVE  minimum_deadline(a, b) \in Time /\ Later(a, b) \in Time
  BY DEF minimum_deadline, Later

\* The deadline of the next wait.
LEMMA NextDeadlineType ==
    ASSUME SessionTypeOK, ReportingTypeOK
    PROVE  next_deadline \in Time
<1>1. PolicyDeadline \in Time /\ tap.at \in Time
  BY MinimumType DEF PolicyDeadline, ReportingTypeOK, TapType
<1>2. conn.deadline \in Time /\ conn.retry \in Time /\ NoTime \in Time
  BY DEF SessionTypeOK, ConnType, Time
<1> QED
  BY <1>1, <1>2, MinimumType DEF next_deadline

\* The delivery of the result.
LEMMA FinishStep ==
    ASSUME IInv, Finish
    PROVE  IInv'
<1> USE DEF IInv, TypeOK, Finish
<1>1. EnvironmentTypeOK'
  BY DEF EnvironmentTypeOK, environment
<1>2. SessionTypeOK'
  BY DEF SessionTypeOK, session
<1>3. OutputTypeOK'
  BY DEF OutputTypeOK, output
<1>4. ReportingTypeOK'
  BY DEF ReportingTypeOK, reporting
<1>5. StepTypeOK' /\ BatchInHand'
  <2>1. minimum_deadline(progress.deadline, next_deadline) \in Time
    BY NextDeadlineType, MinimumType DEF StepTypeOK, ProgressType
  <2>2. progress'.results \in Seq({"ok", "err"})
    BY DEF StepTypeOK, ProgressType
  <2>3. progress' \in ProgressType
    BY <2>1, <2>2 DEF StepTypeOK, ProgressType
  <2> QED
    BY <2>3 DEF StepTypeOK, BatchInHand, step
<1>6. SessionCoherent'
   BY DEF SessionCoherent, Connecting, TapPending, Ready, session, reporting
<1> QED
  BY <1>1, <1>2, <1>3, <1>4, <1>5, <1>6

\* The next step begins.
LEMMA RestartStep ==
    ASSUME IInv, Proceed \/ Wake
    PROVE  IInv'
<1> USE DEF IInv, TypeOK
<1>0. Restart /\ token' \in BOOLEAN /\ idle' \in 0..2
  <2>1. CASE Proceed
    <3>1. Restart /\ token' = token
      BY <2>1 DEF Proceed
    <3>2. idle' \in 0..2
      BY <2>1 DEF Proceed, StepTypeOK
    <3> QED
      BY <3>1, <3>2 DEF EnvironmentTypeOK
  <2>2. CASE Wake
    <3>1. Restart /\ token' \in BOOLEAN
      BY <2>2 DEF Wake
    <3>2. idle' \in 0..2
      BY <2>2 DEF Wake
    <3> QED
      BY <3>1, <3>2
  <2> QED
    BY <2>1, <2>2
<1> USE DEF Restart
<1>1. EnvironmentTypeOK'
  BY <1>0 DEF EnvironmentTypeOK
<1>2. SessionTypeOK'
  BY <1>0 DEF SessionTypeOK, session
<1>3. OutputTypeOK'
  BY <1>0 DEF OutputTypeOK, output
<1>4. ReportingTypeOK'
  BY <1>0 DEF ReportingTypeOK, reporting
<1>5. StepTypeOK' /\ BatchInHand'
  <2>1. progress' \in ProgressType
    BY <1>0 DEF FreshProgress, ProgressType, Time
  <2> QED
    BY <1>0, <2>1, NoSession DEF StepTypeOK, BatchInHand
<1>6. SessionCoherent'
   BY <1>0
      DEF SessionCoherent, Connecting, TapPending, Ready, session, reporting
<1> QED
  BY <1>1, <1>2, <1>3, <1>4, <1>5, <1>6

\* The cleanup leaves nothing of the session.
LEMMA ShutKeeps ==
    ASSUME EnvironmentTypeOK, SessionTypeOK, StepTypeOK, ReportingTypeOK, Shut
    PROVE  /\ SessionTypeOK' /\ ReportingTypeOK' /\ SessionCoherent' /\ BatchInHand'
           /\ UNCHANGED <<now, inbox, token, batch, tag, polled, idle, input>>
           /\ peer' = "down" /\ discoverable' = FALSE /\ queue' = <<>>
           /\ pc' = "done" /\ check' = FALSE
<1> USE DEF Shut
<1>1. conn' \in ConnType
  BY NoSession DEF NoConn, ConnType, Time, NoTime
<1>2. SessionTypeOK'
  BY <1>1, NoSession DEF SessionTypeOK
<1>3. ReportingTypeOK'
  BY DEF ReportingTypeOK, StopReporting, NoTap, TapType, Time
<1>4. SessionCoherent' /\ BatchInHand'
  BY DEF SessionCoherent, Connecting, TapPending, Ready, NoConn, StopReporting,
         NoTap, BatchInHand
<1> QED
  BY <1>2, <1>3, <1>4 DEF step

\* The status of an ended session.
LEMMA EndedStatusType ==
    ASSUME status \in StatusType, NEW l \in {"Open", "Closed", "Failed"}
    PROVE  EndedStatus(l) \in StatusType
  BY NoSession DEF EndedStatus, StatusType, Modes

\* A shutdown request is taken.
LEMMA CloseStep ==
    ASSUME IInv, NEW o \in Outcomes, Close(o)
    PROVE  IInv'
<1> USE DEF IInv, TypeOK
<1>1. /\ SessionTypeOK' /\ ReportingTypeOK' /\ SessionCoherent' /\ BatchInHand'
      /\ UNCHANGED <<now, inbox, token, batch, tag, polled, idle, input>>
      /\ peer' = "down" /\ discoverable' = FALSE /\ queue' = <<>>
      /\ pc' = "done" /\ check' = FALSE
  BY ShutKeeps DEF Close
<1>2. EnvironmentTypeOK'
  <2>1. left' \in BudgetType
    BY CostSpent DEF Close, EnvironmentTypeOK
  <2>2. shutdown' = "taken" /\ queue' \in Seq(Event)
    BY <1>1 DEF Close
  <2> QED
    BY <1>1, <2>1, <2>2 DEF EnvironmentTypeOK
<1>3. OutputTypeOK'
  <2>1. sender' \in SenderType /\ wire' \in WireType /\ shown' \in SUBSET Buttons
    <3>1. CASE Transmit("close", {}, sender, o = "ok")
      BY <3>1, TransmitKeepsOutput DEF OutputTypeOK, Sent
    <3>2. CASE UNCHANGED output
      BY <3>2 DEF OutputTypeOK, output
    <3> QED
      BY <3>1, <3>2 DEF Close
  <2>2. status' \in StatusType
    BY EndedStatusType DEF Close, OutputTypeOK
  <2> QED
    BY <1>1, <2>1, <2>2 DEF OutputTypeOK
<1>4. StepTypeOK'
  <2>1. Record(progress, pending, "err") \in ProgressType
    BY RecordType DEF StepTypeOK, SessionTypeOK
  <2>2. ClosedProgress \in ProgressType
    BY <2>1, RecordType DEF ClosedProgress, TapPending
  <2>3. progress' \in ProgressType /\ inFlight' \in BOOLEAN
    BY <2>2 DEF Close, StepTypeOK
  <2> QED
    BY <1>1, <2>3 DEF StepTypeOK
<1> QED
  BY <1>1, <1>2, <1>3, <1>4

\* A terminal failure.
LEMMA FailStep ==
    ASSUME IInv, Fail
    PROVE  IInv'
<1> USE DEF IInv, TypeOK
<1>1. /\ SessionTypeOK' /\ ReportingTypeOK' /\ SessionCoherent' /\ BatchInHand'
      /\ UNCHANGED <<now, inbox, token, batch, tag, polled, idle, input>>
      /\ peer' = "down" /\ discoverable' = FALSE /\ queue' = <<>>
      /\ pc' = "done" /\ check' = FALSE
  BY ShutKeeps DEF Fail
<1>2. EnvironmentTypeOK'
  <2>1. queue' \in Seq(Event)
    BY <1>1
  <2> QED
    BY <1>1, <2>1 DEF EnvironmentTypeOK, Fail
<1>3. OutputTypeOK'
  <2>1. status' \in StatusType
    <3>1. EndedStatus("Failed") \in StatusType
      BY EndedStatusType DEF OutputTypeOK
    <3> QED
      BY <3>1 DEF Fail, FailedStatus, OutputTypeOK, StatusType
  <2> QED
    BY <1>1, <2>1 DEF OutputTypeOK, Fail, output
<1>4. StepTypeOK'
  <2>1. progress' \in ProgressType
    BY RecordType DEF StepTypeOK, SessionTypeOK, Fail
  <2>2. inFlight' \in BOOLEAN
    BY DEF StepTypeOK, Fail
  <2> QED
    BY <1>1, <2>1, <2>2 DEF StepTypeOK
<1> QED
  BY <1>1, <1>2, <1>3, <1>4

\* The handshake and the readiness gate: Ready takes the place of Connecting
\* together with the end of the readiness work and, for Periodic, with an armed
\* report scheduler.
LEMMA DriveHandshakeStep ==
    ASSUME IInv, NEW o \in Outcomes, DriveHandshake(o)
    PROVE  IInv'
<1> USE DEF IInv, TypeOK
<1> DEFINE failed == o = "terminal" \/ (BecomesReady(o) /\ lifecycle # "Connecting")
           ready == ~failed /\ BecomesReady(o)
           kept == [conn EXCEPT !.retry = IF AttemptDue THEN RetryDeadline ELSE @,
                                !.accepted = @ \/ (AttemptDue /\ o = "ok")]
<1>1. EnvironmentTypeOK'
  BY CostSpent DEF DriveHandshake, EnvironmentTypeOK
<1>2. Connecting /\ lifecycle = "Connecting" /\ conn.session = current
  BY DEF DriveHandshake, SessionCoherent
<1>3. RetryDeadline \in Time \/ ~AttemptDue
  <2>1. conn.retry \in Time /\ now \in Nat
    BY DEF SessionTypeOK, ConnType, EnvironmentTypeOK
  <2>2. conn.retry # NoTime => conn.retry \in Nat
    BY <2>1 DEF Time
  <2>3. AttemptDue /\ conn.retry # NoTime => IsDue(now, conn.retry)
    BY DEF AttemptDue, IsDue
  <2> QED
    BY <2>1, <2>2, <2>3, DeadlineType, TimingAssumption DEF RetryDeadline, Time
<1>4. kept \in ConnType /\ kept.session = conn.session
  <2>1. AttemptDue \in BOOLEAN
    BY DEF AttemptDue, Bootstrapping
  <2> QED
    BY <1>3, <2>1 DEF SessionTypeOK, ConnType
<1>5. /\ conn' = IF ready THEN NoConn
                 ELSE IF o # "terminal" /\ HandshakeDone(o)
                      THEN [kept EXCEPT !.collected = TRUE, !.retry = NoTime]
                      ELSE kept
      /\ sched' = IF o # "terminal" /\ StartsReporting(o) /\ sched = NoTime
                  THEN StartDeadline(now, Period) ELSE sched
      /\ lifecycle' = IF ready THEN "Ready" ELSE lifecycle
      /\ status' = [status EXCEPT !.mode = sender'.mode,
                       !.lifecycle = IF ready THEN "Ready" ELSE @]
      /\ pending' = (pending /\ ~ready)
      /\ progress' =
           [Record(progress, ready /\ pending, "ok") EXCEPT
               !.immediate = @ \/ (ready /\ pending),
               !.active = @ \/ AttemptDue \/ ready,
               !.deadline = IF Bootstrapping /\ ~AttemptDue
                            THEN minimum_deadline(@, conn.retry) ELSE @]
      /\ pc' = IF failed THEN "fail" ELSE AfterDrive
      /\ check' = TRUE
      /\ UNCHANGED <<connected, current, lastIssued, observed, input, tap,
                     holdoff, inFlight, batch, tag, polled, repliedAt, idle>>
  BY DEF DriveHandshake, step
<1>6. ready \in BOOLEAN
  BY DEF BecomesReady
<1> HIDE DEF kept, failed, ready
<1>7. SessionTypeOK'
  <2>1. conn' \in ConnType
    BY <1>4, <1>5, NoSession DEF NoConn, ConnType, Time
  <2> QED
    BY <1>5, <1>6, <2>1 DEF SessionTypeOK
<1>8. OutputTypeOK'
  <2>1. sender' \in SenderType /\ wire' \in WireType /\ shown' \in SUBSET Buttons
    <3>1. CASE Transmit("bootstrap", {}, sender, o = "ok")
      BY <3>1, TransmitKeepsOutput DEF OutputTypeOK, Sent
    <3>2. CASE UNCHANGED output
      BY <3>2 DEF OutputTypeOK, output
    <3> QED
      BY <3>1, <3>2 DEF DriveHandshake
  <2>2. status' \in StatusType
    BY <1>5, <2>1 DEF OutputTypeOK, StatusType, SenderType
  <2> QED
    BY <1>5, <2>1, <2>2 DEF OutputTypeOK
<1>9. sched' \in Time /\ (sched # NoTime => sched' = sched)
  BY <1>5, DeadlineType, TimingAssumption
     DEF ReportingTypeOK, EnvironmentTypeOK, Time
<1>10. ReportingTypeOK'
  BY <1>5, <1>9 DEF ReportingTypeOK
<1>11. StepTypeOK'
  <2>1. Record(progress, ready /\ pending, "ok") \in ProgressType
    BY <1>6, RecordType DEF StepTypeOK, SessionTypeOK
  <2>2. minimum_deadline(progress.deadline, conn.retry) \in Time
    BY MinimumType DEF StepTypeOK, ProgressType, SessionTypeOK, ConnType
  <2>3. Record(progress, ready /\ pending, "ok").deadline = progress.deadline
    BY DEF Record, StepTypeOK, ProgressType
  <2>4. AttemptDue \in BOOLEAN
    BY DEF AttemptDue, Bootstrapping
  <2>5. progress' \in ProgressType
    BY <1>5, <1>6, <2>1, <2>2, <2>3, <2>4 DEF ProgressType, SessionTypeOK
  <2>6. pc' \in {"fail", "due", "event", "drive", "poll"}
    BY <1>5 DEF AfterDrive, AfterEvent
  <2> QED
    BY <1>5, <2>5, <2>6 DEF StepTypeOK
<1>12. BatchInHand'
  BY <1>5 DEF BatchInHand, AfterDrive, AfterEvent
<1>13. SessionCoherent'
  <2>1. CASE ready
    <3>1. Mode = "Periodic" => sched' # NoTime
      <4>1. Mode = "Periodic" => o # "terminal" /\ StartsReporting(o)
        BY <2>1 DEF ready, failed, BecomesReady
      <4>2. StartDeadline(now, Period) \in Nat
        BY DeadlineType, TimingAssumption DEF EnvironmentTypeOK
      <4> QED
        BY <1>5, <4>1, <4>2 DEF NoTime
    <3> QED
      BY <1>2, <1>5, <2>1, <3>1
         DEF SessionCoherent, Connecting, TapPending, Ready, NoConn
  <2>2. CASE ~ready
    <3>1. conn'.session = conn.session
      BY <1>4, <1>5, <2>2 DEF ConnType
    <3> QED
      BY <1>2, <1>5, <2>2, <3>1
         DEF SessionCoherent, Connecting, TapPending, Ready
  <2> QED
    BY <2>1, <2>2
<1> QED
  BY <1>1, <1>7, <1>8, <1>10, <1>11, <1>12, <1>13

\* The state from_open_transport sets up.
LEMMA InitIInv ==
    ASSUME Init
    PROVE  IInv
<1> USE DEF Init, NoTime
<1>1. EnvironmentTypeOK
  <2>1. left \in BudgetType
    BY BoundAssumption DEF BudgetType
  <2>2. queue \in Seq(Event)
    OBVIOUS
  <2> QED
    BY <2>1, <2>2 DEF EnvironmentTypeOK
<1>2. SessionTypeOK
  BY NoSession DEF SessionTypeOK, NoConn, ConnType, Time
<1>3. OutputTypeOK
  <2>1. 0 \in 0..(TimerModulus - 1)
    BY ModulusAssumption
  <2>2. sender \in SenderType /\ wire \in WireType
    BY <2>1, NoSession DEF FreshSender, SenderType, NoWire, WireType, Modes
  <2>3. status \in StatusType
    BY NoSession, BoundAssumption DEF StatusType, Modes
  <2> QED
    BY <2>2, <2>3 DEF OutputTypeOK
<1>4. ReportingTypeOK
  BY DEF ReportingTypeOK, NoTap, TapType, Time
<1>5. StepTypeOK
  <2>1. progress \in ProgressType
    BY DEF FreshProgress, ProgressType, Time
  <2>2. batch \in Seq(Event) /\ tag \in SessionIds
    BY NoSession
  <2>3. polled \in Nat /\ idle \in 0..2
    OBVIOUS
  <2>4. inFlight \in BOOLEAN /\ check \in BOOLEAN /\ pc = "begin"
    OBVIOUS
  <2> QED
    BY <2>1, <2>2, <2>3, <2>4 DEF StepTypeOK
<1>6. SessionCoherent /\ BatchInHand
  BY DEF SessionCoherent, Connecting, TapPending, Ready, NoConn, NoTap,
         BatchInHand
<1> QED
  BY <1>1, <1>2, <1>3, <1>4, <1>5, <1>6 DEF IInv, TypeOK

\* Stuttering.
LEMMA StutterStep ==
    ASSUME IInv, UNCHANGED vars
    PROVE  IInv'
<1> USE DEF vars
<1>1. EnvironmentTypeOK'
  BY DEF IInv, TypeOK, EnvironmentTypeOK, environment
<1>2. SessionTypeOK'
  BY DEF IInv, TypeOK, SessionTypeOK, session
<1>3. OutputTypeOK'
  BY DEF IInv, TypeOK, OutputTypeOK, output
<1>4. ReportingTypeOK'
  BY DEF IInv, TypeOK, ReportingTypeOK, reporting
<1>5. StepTypeOK'
  BY DEF IInv, TypeOK, StepTypeOK, step
<1>6. SessionCoherent' /\ BatchInHand'
  BY DEF IInv, SessionCoherent, BatchInHand, Connecting, TapPending, Ready,
         session, reporting, step
<1> QED
  BY <1>1, <1>2, <1>3, <1>4, <1>5, <1>6 DEF IInv, TypeOK

\* Every step of the worker and of its environment keeps the invariant.
LEMMA StepKeepsIInv ==
    ASSUME IInv, [Next]_vars
    PROVE  IInv'
<1>1. CASE Tick \/ Client \/ Owner \/ Peer
  BY <1>1, EnvironmentSteps
<1>2. CASE TakeCommand
  BY <1>2, ConnectRefusedStep, ConnectBegunStep, InputRefusedStep,
     PeriodicInputStep, DirectInputStep, BeginTapStep
     DEF TakeCommand
<1>3. CASE HandleEvent
  BY <1>3, EventDroppedStep, EventTopologyStep, EventSilentOutputStep,
     EventDisconnectedStep, EventOutputStep
     DEF HandleEvent
<1>4. CASE Drive
  BY <1>4, DriveNothingStep, DriveAbortStep, DriveHandshakeStep DEF Drive
<1>5. CASE Due
  BY <1>5, DueNothingStep, BackpressuredStep, TapReleaseStep,
     AutomaticReportStep
     DEF Due
<1>6. CASE Worker
  BY <1>2, <1>3, <1>4, <1>5, <1>6, NoTakeStep, PollStep, PollErrorStep,
     FinishStep, RestartStep, FailStep, CloseStep
     DEF Worker
<1>7. CASE Ended \/ UNCHANGED vars
  BY <1>7, StutterStep DEF Ended
<1> QED
  BY <1>1, <1>6, <1>7 DEF Next

\* The inductive invariant holds in every reachable state of the worker.
THEOREM Inductive == Spec => []IInv
<1>1. Init => IInv
  BY InitIInv
<1>2. IInv /\ [Next]_vars => IInv'
  BY StepKeepsIInv
<1> QED
  BY <1>1, <1>2, PTL DEF Spec

\* Every variable of the worker keeps its type: deadlines never become
\* negative, session numbers and report timers stay below their modulus, and
\* the step is always at one of its named places.
THEOREM TypeIsCorrect == Spec => []TypeOK
<1>1. IInv => TypeOK
  BY DEF IInv
<1> QED
  BY <1>1, Inductive, PTL

\* Across every path that starts or ends a connection (begin_connection,
\* end_connection, abort_connection, mark_ready, close, fail) lifecycle,
\* session, readiness work, connection command, tap and reporting timers agree.
THEOREM SessionsAreCoherent == Spec => []SessionCoherent
<1>1. IInv => SessionCoherent
  BY DEF IInv
<1> QED
  BY <1>1, Inductive, PTL


-----------------------------------------------------------------------------
(* Which actions touch what *)

\* The actions that may put a report on the wire, or start with a fresh one.
Sends ==
    \/ \E c \in Commands : ConnectBegun(c)
    \/ \E c \in Commands, o \in Outcomes : DirectInput(c, o)
    \/ \E c \in Commands, o \in Outcomes : BeginTap(c, o)
    \/ \E o \in Outcomes : EventOutput(o)
    \/ \E o \in Outcomes : DriveHandshake(o)
    \/ \E o \in Outcomes : TapRelease(o)
    \/ \E o \in Outcomes : AutomaticReport(o)
    \/ \E o \in Outcomes : Close(o)

\* Every other step leaves the sender and the wire alone.
LEMMA OnlySendsSend ==
    ASSUME [Next]_vars, ~Sends
    PROVE  UNCHANGED output
<1>1. CASE Tick \/ Client \/ Owner \/ Peer
  BY <1>1, EnvironmentFrame
<1>2. CASE TakeCommand
  BY <1>2 DEF TakeCommand, Sends, ConnectRefused, InputRefused, PeriodicInput
<1>3. CASE HandleEvent
  BY <1>3
     DEF HandleEvent, Sends, EventDropped, EventTopology, EventSilentOutput,
         EventDisconnected
<1>4. CASE Drive
  BY <1>4 DEF Drive, Sends, DriveNothing, DriveAbort
<1>5. CASE Due
  BY <1>5 DEF Due, Sends, DueNothing, Backpressured
<1>6. CASE NoTake \/ Poll \/ PollError \/ Finish \/ Proceed \/ Wake \/ Fail
  BY <1>6, QuietFrame DEF Fail
<1>7. CASE \E o \in Outcomes : Close(o)
  BY <1>7 DEF Sends
<1>8. CASE Ended \/ UNCHANGED vars
  BY <1>8 DEF Ended, vars
<1> QED
  BY <1>1, <1>2, <1>3, <1>4, <1>5, <1>6, <1>7, <1>8 DEF Next, Worker

\* The timer after a report differs from the one it carried.
LEMMA Modulus ==
    ASSUME NEW x \in 0..(TimerModulus - 1)
    PROVE  (x + 1) % TimerModulus # x
<1>1. CASE x + 1 < TimerModulus
  <2>1. (x + 1) % TimerModulus = x + 1
    BY <1>1, ModulusAssumption
  <2> QED
    BY <2>1
<1>2. CASE x + 1 = TimerModulus
  <2>1. (x + 1) % TimerModulus = 0
    BY <1>2, ModulusAssumption
  <2> QED
    BY <1>2, <2>1, ModulusAssumption
<1> QED
  BY <1>1, <1>2, ModulusAssumption

-----------------------------------------------------------------------------
(* Report timers *)

\* The sender's timer is the one after the latest accepted report.
TimerInv == sender.timer = IF wire.kind = "none" THEN 0
                           ELSE (wire.timer + 1) % TimerModulus

\* An accepted report carries the sender's timer and the session of the
\* projection; a rejected one changes nothing.
LEMMA TransmitTimers ==
    ASSUME OutputTypeOK, TimerInv, NEW k \in Sent, NEW b, NEW ok \in BOOLEAN,
           NEW commit \in SenderType, Transmit(k, b, commit, ok)
    PROVE  /\ TimerInv'
           /\ ok => wire'.timer = sender.timer /\ wire'.kind = k /\ wire' # wire
           /\ ok => wire'.session = status.session
           /\ ~ok => UNCHANGED output
<1>1. CASE ok
  <2>1. sender'.timer = NextTimer
    BY <1>1 DEF Transmit, SenderType
  <2>2. wire'.kind = k /\ wire'.timer = sender.timer /\ wire'.session = status.session
    BY <1>1 DEF Transmit
  <2>3. k # "none"
    BY DEF Sent
  <2>4. sender.timer \in 0..(TimerModulus - 1) /\ wire.timer \in 0..(TimerModulus - 1)
    BY DEF OutputTypeOK, SenderType, WireType
  <2>5. wire' # wire
    <3>1. wire'.timer # wire.timer \/ wire'.kind # wire.kind
      BY <2>2, <2>3, <2>4, Modulus DEF TimerInv
    <3> QED
      BY <3>1
  <2> QED
    BY <1>1, <2>1, <2>2, <2>3, <2>5 DEF TimerInv, NextTimer
<1>2. CASE ~ok
  BY <1>2 DEF Transmit, TimerInv, output
<1> QED
  BY <1>1, <1>2

\* Nothing happens after the worker has ended.
Final == pc = "done" => ~check /\ current = 0

\* After the worker has ended nothing changes.
LEMMA DoneIsFinal ==
    ASSUME Final, pc = "done", [Next]_vars
    PROVE  UNCHANGED vars
<1>1. ~Claimed
  BY DEF Final, Claimed
<1>2. CASE Tick \/ Client \/ Owner \/ Peer
  BY <1>2
     DEF Tick, Client, Owner, Peer, Enqueue, RequestShutdown, PeerEvent,
         PeerConnect, PeerOpenControl, PeerOpenInterrupt, PeerOutput,
         PeerDisconnect
<1>3. CASE TakeCommand
  BY <1>3
     DEF TakeCommand, ConnectRefused, ConnectBegun, InputRefused,
         PeriodicInput, DirectInput, BeginTap, Take
<1>4. CASE HandleEvent
  BY <1>4
     DEF HandleEvent, EventDropped, EventTopology, EventSilentOutput,
         EventDisconnected, EventOutput, Handling
<1>5. CASE Drive
  BY <1>5 DEF Drive, DriveNothing, DriveAbort, DriveHandshake, Driving
<1>6. CASE Due
  BY <1>6
     DEF Due, DueNothing, Backpressured, TapRelease, AutomaticReport, DueStep
<1>7. CASE \/ NoTake \/ Poll \/ PollError \/ Finish \/ Proceed \/ Wake \/ Fail
           \/ \E o \in Outcomes : Close(o)
  BY <1>1, <1>7
     DEF NoTake, Poll, PollError, Finish, Proceed, Wake, Restart, Fail, Close
<1>8. CASE Ended \/ UNCHANGED vars
  BY <1>8 DEF Ended
<1> QED
  BY <1>2, <1>3, <1>4, <1>5, <1>6, <1>7, <1>8 DEF Next, Worker

\* Only the two cleanups end the worker.
LEMMA OnlyShutEnds ==
    ASSUME pc # "done", pc' = "done", [Next]_vars, IInv
    PROVE  Shut
<1>2. CASE Tick \/ Client \/ Owner \/ Peer
  BY <1>2, EnvironmentFrame
<1>3. CASE TakeCommand
  BY <1>3
     DEF TakeCommand, ConnectRefused, ConnectBegun, InputRefused,
         PeriodicInput, DirectInput, BeginTap, Take
<1>4. CASE HandleEvent
  BY <1>4
     DEF HandleEvent, EventDropped, EventTopology, EventSilentOutput,
         EventDisconnected, EventOutput, AfterEvent
<1>5. CASE Drive
  BY <1>5
     DEF Drive, DriveNothing, DriveAbort, DriveHandshake, AfterDrive,
         AfterEvent
<1>6. CASE Due
  BY <1>6
     DEF Due, DueNothing, Backpressured, TapRelease, AutomaticReport, DueStep
<1>7. CASE \/ NoTake \/ Poll \/ PollError \/ Finish \/ Proceed \/ Wake \/ Fail
           \/ \E o \in Outcomes : Close(o)
  BY <1>7
     DEF NoTake, Poll, PollError, Finish, Proceed, Wake, Restart, Fail, Close
<1>8. CASE Ended \/ UNCHANGED vars
  BY <1>8 DEF Ended, vars
<1> QED
  BY <1>2, <1>3, <1>4, <1>5, <1>6, <1>7, <1>8 DEF Next, Worker

\* Final is an invariant.
LEMMA FinalStep ==
    ASSUME IInv, Final, [Next]_vars
    PROVE  Final'
<1>1. CASE pc = "done"
  BY <1>1, DoneIsFinal DEF Final, vars, session
<1>2. CASE pc # "done" /\ pc' = "done"
  BY <1>2, OnlyShutEnds DEF Final, Shut
<1> QED
  BY <1>1, <1>2 DEF Final

\* Every step of the system that shows the peer something is either a
\* transmission while the session is current, or the start of a new session.
LEMMA StepSends ==
    ASSUME IInv, Final, [Next]_vars
    PROVE  \/ UNCHANGED output
           \/ \E c \in Commands : ConnectBegun(c)
           \/ /\ current # 0 /\ pc # "done"
              /\ \E k \in Sent, b \in SUBSET Buttons, commit \in SenderType :
                     Transmit(k, b, commit, TRUE)
<1> DEFINE Goal == \/ UNCHANGED output
                   \/ /\ current # 0 /\ pc # "done"
                      /\ \E k \in Sent, b \in SUBSET Buttons, commit \in SenderType :
                            Transmit(k, b, commit, TRUE)
<1>0. sender \in SenderType /\ input \in SUBSET Buttons /\ {} \in SUBSET Buttons
      /\ tap.released \in SUBSET Buttons
  BY DEF IInv, TypeOK, OutputTypeOK, ReportingTypeOK, TapType
<1>a. ASSUME NEW k \in Sent, NEW b \in SUBSET Buttons, NEW commit \in SenderType,
             NEW o \in Outcomes, Transmit(k, b, commit, o = "ok"),
             current # 0, pc # "done"
      PROVE  Goal
  <2>1. CASE o = "ok"
    <3>1. Transmit(k, b, commit, TRUE)
      BY <1>a, <2>1
    <3> QED
      BY <1>a, <3>1
  <2>2. CASE o # "ok"
    BY <1>a, <2>2 DEF Transmit
  <2> QED
    BY <2>1, <2>2
<1>1. ASSUME NEW c \in Commands, NEW o \in Outcomes, DirectInput(c, o) PROVE Goal
  <2>1. /\ Transmit("direct", Candidate(c), sender, o = "ok")
        /\ Candidate(c) \in SUBSET Buttons
        /\ current # 0 /\ pc # "done"
    BY <1>0, <1>1, CandidateType
       DEF DirectInput, IInv, SessionCoherent, Ready, Take
  <2> QED
    BY <1>0, <2>1, <1>a DEF Sent
<1>2. ASSUME NEW c \in Commands, NEW o \in Outcomes, BeginTap(c, o) PROVE Goal
  <2>1. PICK k \in Sent : Transmit(k, input \cup c.buttons, sender, o = "ok")
    BY <1>2 DEF BeginTap, Sent
  <2>2. input \cup c.buttons \in SUBSET Buttons
    BY <1>0, CommandsAssumption DEF Command
  <2>3. current # 0 /\ pc # "done"
    BY <1>2 DEF BeginTap, IInv, SessionCoherent, Ready, Take
  <2> QED
    BY <1>0, <2>1, <2>2, <2>3, <1>a DEF Sent
<1>3. ASSUME NEW o \in Outcomes, EventOutput(o) PROVE Goal
  <2>1. PICK b \in SUBSET Buttons :
          Transmit("reply", b, next_session(sender, Head(batch)), o = "ok")
    BY <1>0, <1>3 DEF EventOutput
  <2>2. next_session(sender, Head(batch)) \in SenderType
    BY <1>0 DEF next_session, SenderType, Modes
  <2>3. current # 0 /\ pc # "done"
    BY <1>3 DEF EventOutput, Current, Handling
  <2> QED
    BY <2>1, <2>2, <2>3, <1>a DEF Sent
<1>4. ASSUME NEW o \in Outcomes, DriveHandshake(o) PROVE Goal
  <2>1. UNCHANGED output \/ Transmit("bootstrap", {}, sender, o = "ok")
    BY <1>4 DEF DriveHandshake
  <2>2. current # 0 /\ pc # "done"
    BY <1>4 DEF DriveHandshake, Driving, IInv, SessionCoherent
  <2> QED
    BY <1>0, <2>1, <2>2, <1>a DEF Sent
<1>5. ASSUME NEW o \in Outcomes, TapRelease(o) PROVE Goal
  <2>1. PICK k \in Sent : Transmit(k, tap.released, sender, o = "ok")
    BY <1>5 DEF TapRelease, Sent
  <2>2. current # 0 /\ pc # "done"
    BY <1>5 DEF TapRelease, DueStep, Eligible, Ready, IInv, SessionCoherent
  <2> QED
    BY <1>0, <2>1, <2>2, <1>a DEF Sent
<1>6. ASSUME NEW o \in Outcomes, AutomaticReport(o) PROVE Goal
  <2>1. Transmit("auto", input, sender, o = "ok")
    BY <1>6 DEF AutomaticReport
  <2>2. current # 0 /\ pc # "done"
    BY <1>6 DEF AutomaticReport, DueStep, Eligible, Ready, IInv, SessionCoherent
  <2> QED
    BY <1>0, <2>1, <2>2, <1>a DEF Sent
<1>7. ASSUME NEW o \in Outcomes, Close(o) PROVE Goal
  <2>1. UNCHANGED output \/ (connected /\ Transmit("close", {}, sender, o = "ok"))
    BY <1>7 DEF Close
  <2>2. connected => current # 0 /\ pc # "done"
    BY DEF IInv, SessionCoherent, Final
  <2> QED
    BY <1>0, <2>1, <2>2, <1>a DEF Sent
<1> QED
  BY <1>1, <1>2, <1>3, <1>4, <1>5, <1>6, <1>7, OnlySendsSend DEF Sends

-----------------------------------------------------------------------------
(* The status projection *)

\* Every path that changes the worker's own state changes the projection alike.
LEMMA StatusStep ==
    ASSUME IInv, Final, StatusCoherent, [Next]_vars
    PROVE  StatusCoherent'
<1> SUFFICES ASSUME pc' # "done" PROVE StatusCoherent'
  BY DEF StatusCoherent
<1>0. pc # "done"
  BY DoneIsFinal DEF vars
<1> USE <1>0 DEF StatusCoherent
<1>t. /\ status \in StatusType /\ sender \in SenderType
  BY DEF IInv, TypeOK, OutputTypeOK
<1>e. ASSUME UNCHANGED <<lastIssued, input>>, status'.snapshot = status.snapshot
      PROVE  status'.snapshot = input' \/ EarlierInput'
  BY <1>e DEF EarlierInput
<1>1. CASE UNCHANGED <<lifecycle, connected, current, lastIssued, sender, input, status>>
  BY <1>1, <1>e
<1>2. ASSUME NEW c \in Commands, ConnectBegun(c) PROVE StatusCoherent'
  BY <1>2 DEF ConnectBegun, FreshSender
<1>3. ASSUME NEW c \in Commands, PeriodicInput(c) PROVE StatusCoherent'
  BY <1>3, <1>t DEF PeriodicInput, StatusType, output
<1>4. ASSUME NEW c \in Commands, NEW o \in Outcomes, DirectInput(c, o)
      PROVE  StatusCoherent'
  BY <1>4, <1>t DEF DirectInput, StatusType
<1>5. ASSUME NEW c \in Commands, NEW o \in Outcomes, BeginTap(c, o)
      PROVE  StatusCoherent'
  BY <1>5, <1>t DEF BeginTap, StatusType
<1>6. CASE EventTopology
  <2>1. /\ UNCHANGED <<lifecycle, current, lastIssued, sender, input>>
        /\ status' = [status EXCEPT !.connected = connected']
    BY <1>6 DEF EventTopology, EventStep, output
  <2>2. status'.snapshot = status.snapshot
    BY <2>1, <1>t DEF StatusType
  <2>3. /\ status'.lifecycle = status.lifecycle /\ status'.session = status.session
        /\ status'.mode = status.mode /\ status'.connected = connected'
    BY <2>1, <1>t DEF StatusType
  <2> QED
    BY <1>e, <2>1, <2>2, <2>3
<1>7. ASSUME NEW o \in Outcomes, EventOutput(o) PROVE StatusCoherent'
  <2>1. /\ UNCHANGED <<lifecycle, connected, current, lastIssued, input>>
        /\ status' = [status EXCEPT !.mode = sender'.mode]
    BY <1>7 DEF EventOutput, EventStep
  <2>2. status'.snapshot = status.snapshot
    BY <2>1, <1>t DEF StatusType
  <2>3. /\ status'.lifecycle = status.lifecycle /\ status'.session = status.session
        /\ status'.connected = status.connected /\ status'.mode = sender'.mode
    BY <2>1, <1>t DEF StatusType
  <2> QED
    BY <1>e, <2>1, <2>2, <2>3
<1>8. CASE EventDisconnected
  <2>1. /\ UNCHANGED <<lastIssued, input>> /\ status' = EndedStatus(lifecycle')
        /\ current' = 0 /\ connected' = FALSE
    BY <1>8 DEF EventDisconnected, EventStep, EndSession
  <2>2. /\ status'.snapshot = status.snapshot /\ status'.lifecycle = lifecycle'
        /\ status'.session = 0 /\ status'.connected = FALSE
    BY <2>1, <1>t DEF EndedStatus, StatusType
  <2> QED
    BY <1>e, <2>1, <2>2
<1>9. CASE DriveAbort
  <2>1. /\ UNCHANGED <<lastIssued, input>> /\ status' = EndedStatus(lifecycle')
        /\ current' = 0 /\ connected' = FALSE
    BY <1>9 DEF DriveAbort, EndSession
  <2>2. /\ status'.snapshot = status.snapshot /\ status'.lifecycle = lifecycle'
        /\ status'.session = 0 /\ status'.connected = FALSE
    BY <2>1, <1>t DEF EndedStatus, StatusType
  <2> QED
    BY <1>e, <2>1, <2>2
<1>10. ASSUME NEW o \in Outcomes, DriveHandshake(o) PROVE StatusCoherent'
  <2>1. status'.lifecycle = lifecycle'
    BY <1>10, <1>t DEF DriveHandshake, StatusType
  <2>2. /\ status'.mode = sender'.mode /\ status'.session = status.session
        /\ status'.connected = status.connected /\ status'.snapshot = status.snapshot
    BY <1>10, <1>t DEF DriveHandshake, StatusType
  <2>3. UNCHANGED <<current, connected, lastIssued, input>>
    BY <1>10 DEF DriveHandshake
  <2> QED
    BY <1>e, <2>1, <2>2, <2>3
<1>11. ASSUME NEW o \in Outcomes, TapRelease(o) PROVE StatusCoherent'
  BY <1>11, <1>t DEF TapRelease, DueStep, session, StatusType
<1>12. ASSUME NEW o \in Outcomes, AutomaticReport(o) PROVE StatusCoherent'
  <2>1. UNCHANGED <<lifecycle, connected, current, lastIssued, input>>
    BY <1>12 DEF AutomaticReport, DueStep, session
  <2>2. /\ status'.snapshot = status.snapshot /\ status'.lifecycle = status.lifecycle
        /\ status'.session = status.session /\ status'.connected = status.connected
        /\ status'.mode = sender'.mode
    BY <1>12, <1>t DEF AutomaticReport, StatusType
  <2> QED
    BY <1>e, <2>1, <2>2
<1>13. CASE Tick \/ Client \/ Owner \/ Peer
  BY <1>1, <1>13, EnvironmentFrame DEF session, output
<1>14. CASE TakeCommand
  BY <1>1, <1>2, <1>3, <1>4, <1>5, <1>14
     DEF TakeCommand, ConnectRefused, InputRefused, Take, session, output
<1>15. CASE HandleEvent
  BY <1>1, <1>6, <1>7, <1>8, <1>15
     DEF HandleEvent, EventDropped, EventSilentOutput, EventStep, output
<1>16. CASE Drive
  BY <1>1, <1>9, <1>10, <1>16 DEF Drive, DriveNothing, session, output
<1>17. CASE Due
  BY <1>1, <1>11, <1>12, <1>17
     DEF Due, DueNothing, Backpressured, DueStep, session, output
<1>18. CASE NoTake \/ Poll \/ PollError \/ Finish \/ Proceed \/ Wake
  BY <1>1, <1>18, QuietFrame DEF session, output
<1>19. CASE Fail \/ \E o \in Outcomes : Close(o)
  BY <1>19 DEF Fail, Close, Shut
<1>20. CASE Ended \/ UNCHANGED vars
  BY <1>1, <1>20 DEF Ended, vars, session, output
<1> QED
  BY <1>13, <1>14, <1>15, <1>16, <1>17, <1>18, <1>19, <1>20 DEF Next, Worker

\* The worker stays ended.
LEMMA AlwaysFinal == Spec => []Final
<1>1. Init => Final
  BY DEF Init, Final
<1>2. IInv /\ Final /\ [Next]_vars => Final'
  BY FinalStep
<1> QED
  BY <1>1, <1>2, Inductive, PTL DEF Spec

\* A reader of the status projection sees the worker's own lifecycle, session,
\* link, report mode and input after every step, although sender, input store
\* and core each write their piece of it.
THEOREM StatusIsCoherent == Spec => []StatusCoherent
<1>1. ASSUME Init PROVE StatusCoherent
  <2>1. /\ status.snapshot = IF StaleFailure THEN Buttons ELSE {}
        /\ input = {} /\ lastIssued = 0
    BY <1>1 DEF Init
  <2>2. status.snapshot = input \/ EarlierInput
    BY <2>1 DEF EarlierInput
  <2>3. /\ status.lifecycle = lifecycle /\ status.session = current
        /\ status.connected = connected /\ current = 0
    BY <1>1 DEF Init
  <2> QED
    BY <2>2, <2>3 DEF StatusCoherent
<1>2. IInv /\ Final /\ StatusCoherent /\ [Next]_vars => StatusCoherent'
  BY StatusStep
<1> QED
  BY <1>1, <1>2, Inductive, AlwaysFinal, PTL DEF Spec

\* Timers stay consecutive across accepted, rejected and skipped reports.
LEMMA TimerStep ==
    ASSUME IInv, Final, TimerInv, [Next]_vars
    PROVE  /\ TimerInv'
           /\ wire' # wire /\ wire'.kind # "none"
                => wire'.timer = IF wire.kind = "none" THEN 0
                                 ELSE (wire.timer + 1) % TimerModulus
<1>1. CASE UNCHANGED output
  BY <1>1 DEF output, TimerInv
<1>2. ASSUME NEW c \in Commands, ConnectBegun(c)
      PROVE  TimerInv' /\ wire'.kind = "none"
  BY <1>2 DEF ConnectBegun, TimerInv, FreshSender, NoWire
<1>3. ASSUME NEW k \in Sent, NEW b \in SUBSET Buttons, NEW commit \in SenderType,
             Transmit(k, b, commit, TRUE)
      PROVE  TimerInv' /\ wire'.timer = sender.timer
  BY <1>3, TransmitTimers DEF IInv, TypeOK
<1> QED
  BY <1>1, <1>2, <1>3, StepSends DEF TimerInv

\* The sender's timer follows the one on the wire.
LEMMA AlwaysTimerInv == Spec => []TimerInv
<1>1. Init => TimerInv
  BY DEF Init, TimerInv, FreshSender, NoWire
<1>2. IInv /\ Final /\ TimerInv /\ [Next]_vars => TimerInv'
  BY TimerStep
<1> QED
  BY <1>1, <1>2, Inductive, AlwaysFinal, PTL DEF Spec

\* ReportSender: accepted reports of a session carry consecutive timers, modulo
\* the width of the timer; a rejected or backpressured report consumes none.
THEOREM TimersAreConsecutive == Spec => TimersConsecutive
<1>1. IInv /\ Final /\ TimerInv /\ [Next]_vars
        => [wire' # wire /\ wire'.kind # "none"
              => wire'.timer = IF wire.kind = "none" THEN 0
                               ELSE (wire.timer + 1) % TimerModulus]_vars
  BY TimerStep
<1> QED
  BY <1>1, Inductive, AlwaysFinal, AlwaysTimerInv, PTL
     DEF Spec, TimersConsecutive

\* StatusPublisher::set_sender_state never finds a session missing: no report
\* is accepted outside one, whatever the numbering of sessions.
THEOREM AcceptedReportsHaveASession == Spec => []AcceptedInSession
<1>1. Init => AcceptedInSession
  BY DEF Init, AcceptedInSession, NoWire
<1>2. IInv /\ Final /\ StatusCoherent /\ TimerInv /\ AcceptedInSession /\ [Next]_vars
        => AcceptedInSession'
  <2> SUFFICES ASSUME IInv, Final, StatusCoherent, TimerInv, AcceptedInSession, [Next]_vars
               PROVE  AcceptedInSession'
    OBVIOUS
  <2>1. CASE UNCHANGED output
    BY <2>1 DEF output, AcceptedInSession
  <2>2. ASSUME NEW c \in Commands, ConnectBegun(c) PROVE AcceptedInSession'
    BY <2>2 DEF ConnectBegun, AcceptedInSession, NoWire
  <2>3. ASSUME NEW k \in Sent, NEW b \in SUBSET Buttons, NEW commit \in SenderType,
               current # 0, pc # "done", Transmit(k, b, commit, TRUE)
        PROVE  AcceptedInSession'
    <3>1. wire'.session = status.session
      BY <2>3, TransmitTimers DEF IInv, TypeOK
    <3>2. status.session # 0
      BY <2>3 DEF StatusCoherent
    <3> QED
      BY <3>1, <3>2 DEF AcceptedInSession
  <2> QED
    BY <2>1, <2>2, <2>3, StepSends
<1> QED
  BY <1>1, <1>2, Inductive, AlwaysFinal, StatusIsCoherent, AlwaysTimerInv, PTL
     DEF Spec

-----------------------------------------------------------------------------
(* The reply holdoff *)

\* The holdoff covers the latest reply of the session.
HoldoffInv ==
    repliedAt # NoTime /\ current # 0
        => holdoff # NoTime /\ holdoff >= repliedAt + ReplyHoldoff

\* A reply extends the holdoff with the instant it was accepted at.
LEMMA HoldoffStep ==
    ASSUME IInv, HoldoffInv, [Next]_vars
    PROVE  HoldoffInv'
<1>1. CASE /\ UNCHANGED <<repliedAt, holdoff>>
           /\ current' = current \/ current' = 0
  BY <1>1 DEF HoldoffInv
<1>2. CASE current' = 0 \/ repliedAt' = NoTime
  BY <1>2 DEF HoldoffInv
<1>3. ASSUME NEW o \in Outcomes, EventOutput(o) PROVE HoldoffInv'
  <2>1. current' = current
    BY <1>3 DEF EventOutput
  <2>2. now \in Nat /\ ReplyHoldoff \in Nat /\ holdoff \in Time /\ repliedAt \in Time
    BY TimingAssumption DEF IInv, TypeOK, EnvironmentTypeOK, ReportingTypeOK
  <2>3. CASE o = "ok" /\ Mode = "Periodic"
    <3>1. repliedAt' = now /\ holdoff' = Later(holdoff, now + ReplyHoldoff)
      BY <1>3, <2>3 DEF EventOutput, record_output_completion
    <3> QED
      BY <2>2, <3>1 DEF HoldoffInv, Later, Time, NoTime
  <2>4. CASE ~(o = "ok" /\ Mode = "Periodic")
    <3>1. UNCHANGED <<repliedAt, holdoff>>
      BY <1>3, <2>4 DEF EventOutput, record_output_completion
    <3> QED
      BY <1>1, <2>1, <3>1
  <2> QED
    BY <2>3, <2>4
<1>4. CASE Tick \/ Client \/ Owner \/ Peer
  BY <1>1, <1>4, EnvironmentFrame DEF session, reporting
<1>5. CASE TakeCommand
  BY <1>1, <1>2, <1>5, ZenonT(40)
     DEF TakeCommand, ConnectRefused, ConnectBegun, InputRefused,
         PeriodicInput, DirectInput, BeginTap, reporting
<1>6. CASE HandleEvent
  BY <1>1, <1>2, <1>3, <1>6
     DEF HandleEvent, EventDropped, EventTopology, EventSilentOutput,
         EventDisconnected, EndSession, reporting
<1>7. CASE Drive
  BY <1>1, <1>2, <1>7
     DEF Drive, DriveNothing, DriveAbort, EndSession, DriveHandshake,
         session, reporting
<1>8. CASE Due
  BY <1>1, <1>8
     DEF Due, DueNothing, Backpressured, TapRelease, AutomaticReport,
         DueStep, session, reporting
<1>9. CASE NoTake \/ Poll \/ PollError \/ Finish \/ Proceed \/ Wake
  BY <1>1, <1>9, QuietFrame DEF session, reporting
<1>10. CASE Fail \/ \E o \in Outcomes : Close(o)
  BY <1>2, <1>10 DEF Fail, Close, Shut
<1>11. CASE Ended \/ UNCHANGED vars
  BY <1>1, <1>11 DEF Ended, vars, session, reporting
<1> QED
  BY <1>4, <1>5, <1>6, <1>7, <1>8, <1>9, <1>10, <1>11 DEF Next, Worker

\* A report on the wire that was not there before, by the kind of its sender.
LEMMA OnlyAutomaticReportsAreAutomatic ==
    ASSUME IInv, [Next]_vars, wire' # wire, wire'.kind = "auto"
    PROVE  \E o \in Outcomes : AutomaticReport(o)
<1>1. Sends
  BY OnlySendsSend DEF output
<1>2. ASSUME NEW c \in Commands, ConnectBegun(c) PROVE FALSE
  BY <1>2 DEF ConnectBegun, NoWire
<1>3. ASSUME NEW c \in Commands, NEW o \in Outcomes, DirectInput(c, o) PROVE FALSE
  BY <1>3 DEF DirectInput, Transmit, output
<1>4. ASSUME NEW c \in Commands, NEW o \in Outcomes, BeginTap(c, o) PROVE FALSE
  BY <1>4 DEF BeginTap, Transmit, output
<1>5. ASSUME NEW o \in Outcomes, EventOutput(o) PROVE FALSE
  BY <1>5 DEF EventOutput, Transmit, output
<1>6. ASSUME NEW o \in Outcomes, DriveHandshake(o) PROVE FALSE
  <2>1. UNCHANGED output \/ Transmit("bootstrap", {}, sender, o = "ok")
    BY <1>6 DEF DriveHandshake
  <2> QED
    BY <2>1 DEF Transmit, output
<1>7. ASSUME NEW o \in Outcomes, TapRelease(o) PROVE FALSE
  BY <1>7 DEF TapRelease, Transmit, output
<1>8. ASSUME NEW o \in Outcomes, Close(o) PROVE FALSE
  <2>1. UNCHANGED output \/ Transmit("close", {}, sender, o = "ok")
    BY <1>8 DEF Close
  <2> QED
    BY <2>1 DEF Transmit, output
<1> QED
  BY <1>1, <1>2, <1>3, <1>4, <1>5, <1>6, <1>7, <1>8 DEF Sends

\* PeriodicPolicy: no automatic report leaves within REPLY_HOLDOFF of a reply.
THEOREM HoldoffIsRespected == Spec => HoldoffRespected
<1>1. Init => HoldoffInv
  BY DEF Init, HoldoffInv
<1>2. IInv /\ HoldoffInv /\ [Next]_vars => HoldoffInv'
  BY HoldoffStep
<1>3. IInv /\ HoldoffInv /\ [Next]_vars
        => [wire' # wire /\ wire'.kind = "auto"
              => repliedAt = NoTime \/ now >= repliedAt + ReplyHoldoff]_vars
  <2> SUFFICES ASSUME IInv, HoldoffInv, [Next]_vars, wire' # wire, wire'.kind = "auto",
                      repliedAt # NoTime
               PROVE  now >= repliedAt + ReplyHoldoff
    OBVIOUS
  <2>1. PICK o \in Outcomes : AutomaticReport(o)
    BY OnlyAutomaticReportsAreAutomatic
  <2>2. Eligible /\ Unheld
    BY <2>1 DEF AutomaticReport, AutoDue, DueStep
  <2>3. current # 0
    BY <2>2 DEF Eligible, Ready, IInv, SessionCoherent
  <2>4. now >= holdoff /\ holdoff >= repliedAt + ReplyHoldoff
    BY <2>2, <2>3 DEF HoldoffInv, Unheld
  <2>5. now \in Nat /\ holdoff \in Int /\ repliedAt \in Int /\ ReplyHoldoff \in Nat
    BY TimingAssumption
       DEF IInv, TypeOK, EnvironmentTypeOK, ReportingTypeOK, Time, NoTime
  <2> QED
    BY <2>4, <2>5
<1> QED
  BY <1>1, <1>2, <1>3, Inductive, PTL DEF Spec, HoldoffRespected

-----------------------------------------------------------------------------
(* Readiness *)

\* A handshake is collected only when topology and bootstrap are done.
CollectedInv == conn.collected => conn.topo = Topology /\ conn.accepted

\* CollectedInv is an invariant.
LEMMA CollectedStep ==
    ASSUME IInv, CollectedInv, [Next]_vars
    PROVE  CollectedInv'
<1> USE DEF CollectedInv
<1>t. conn \in ConnType
  BY DEF IInv, TypeOK, SessionTypeOK
<1>1. CASE UNCHANGED conn
  BY <1>1
<1>2. CASE conn' = NoConn
  BY <1>2 DEF NoConn
<1>3. ASSUME NEW c \in Commands, ConnectBegun(c) PROVE CollectedInv'
  BY <1>3 DEF ConnectBegun, NoConn
<1>4. CASE EventTopology
  BY <1>t, <1>4 DEF EventTopology, ConnType
<1>5. ASSUME NEW o \in Outcomes, DriveHandshake(o) PROVE CollectedInv'
  <2> DEFINE ready == ~(o = "terminal" \/ (BecomesReady(o) /\ lifecycle # "Connecting"))
                        /\ BecomesReady(o)
             kept == [conn EXCEPT !.retry = IF AttemptDue THEN RetryDeadline ELSE @,
                                  !.accepted = @ \/ (AttemptDue /\ o = "ok")]
  <2>1. conn' = IF ready THEN NoConn
                ELSE IF o # "terminal" /\ HandshakeDone(o)
                     THEN [kept EXCEPT !.collected = TRUE, !.retry = NoTime]
                     ELSE kept
    BY <1>5 DEF DriveHandshake
  <2>2. /\ kept.collected = conn.collected /\ kept.topo = conn.topo
        /\ kept.accepted = (conn.accepted \/ (AttemptDue /\ o = "ok"))
    BY <1>t DEF ConnType
  <2>3. [kept EXCEPT !.collected = TRUE, !.retry = NoTime].topo = kept.topo
        /\ [kept EXCEPT !.collected = TRUE, !.retry = NoTime].accepted = kept.accepted
    BY <1>t DEF ConnType
  <2>4. HandshakeDone(o)
          => conn.topo = Topology /\ (conn.accepted \/ (AttemptDue /\ o = "ok"))
    BY DEF HandshakeDone, topology_ready
  <2> HIDE DEF ready, kept
  <2> QED
    BY <1>2, <2>1, <2>2, <2>3, <2>4
<1>6. CASE Tick \/ Client \/ Owner \/ Peer
  BY <1>1, <1>6, EnvironmentFrame DEF session
<1>7. CASE TakeCommand
  BY <1>1, <1>3, <1>7
     DEF TakeCommand, ConnectRefused, InputRefused, PeriodicInput,
         DirectInput, BeginTap
<1>8. CASE HandleEvent
  BY <1>1, <1>2, <1>4, <1>8
     DEF HandleEvent, EventDropped, EventSilentOutput, EventOutput,
         EventDisconnected, EndSession
<1>9. CASE Drive
  BY <1>1, <1>2, <1>5, <1>9
     DEF Drive, DriveNothing, DriveAbort, EndSession, session
<1>10. CASE Due
  BY <1>1, <1>10
     DEF Due, DueNothing, Backpressured, TapRelease, AutomaticReport,
         DueStep, session
<1>11. CASE NoTake \/ Poll \/ PollError \/ Finish \/ Proceed \/ Wake
  BY <1>1, <1>11, QuietFrame DEF session
<1>12. CASE Fail \/ \E o \in Outcomes : Close(o)
  BY <1>2, <1>12 DEF Fail, Close, Shut
<1>13. CASE Ended \/ UNCHANGED vars
  BY <1>1, <1>13 DEF Ended, vars, session
<1> QED
  BY <1>6, <1>7, <1>8, <1>9, <1>10, <1>11, <1>12, <1>13 DEF Next, Worker

\* Only drive_connection makes the endpoint Ready.
LEMMA OnlyHandshakesMakeReady ==
    ASSUME IInv, [Next]_vars, Ready', ~Ready
    PROVE  \E o \in Outcomes : DriveHandshake(o)
<1> USE DEF Ready
<1>1. lifecycle' # lifecycle /\ lifecycle' = "Ready"
  OBVIOUS
<1>2. CASE Tick \/ Client \/ Owner \/ Peer
  BY <1>1, <1>2, EnvironmentFrame DEF session
<1>3. CASE TakeCommand
  BY <1>1, <1>3, ZenonT(40)
     DEF TakeCommand, ConnectRefused, ConnectBegun, InputRefused,
         PeriodicInput, DirectInput, BeginTap
<1>4. CASE HandleEvent
  BY <1>1, <1>4
     DEF HandleEvent, EventDropped, EventTopology, EventSilentOutput,
         EventOutput, EventDisconnected, EndSession
<1>5. CASE Drive
  BY <1>1, <1>5 DEF Drive, DriveNothing, DriveAbort, EndSession, session
<1>6. CASE Due
  BY <1>1, <1>6
     DEF Due, DueNothing, Backpressured, TapRelease, AutomaticReport,
         DueStep, session
<1>7. CASE NoTake \/ Poll \/ PollError \/ Finish \/ Proceed \/ Wake
  BY <1>1, <1>7, QuietFrame DEF session
<1>8. CASE Fail \/ \E o \in Outcomes : Close(o)
  BY <1>1, <1>8 DEF Fail, Close, Shut
<1>9. CASE Ended \/ UNCHANGED vars
  BY <1>1, <1>9 DEF Ended, vars, session
<1> QED
  BY <1>2, <1>3, <1>4, <1>5, <1>6, <1>7, <1>8, <1>9 DEF Next, Worker

\* ReadinessGate: Ready follows from the topology, an accepted bootstrap report,
\* the peer's mode and lights and, for Periodic, armed reporting, before the
\* operation deadline.
THEOREM ReadinessIsEarned == Spec => ReadyIsEarned
<1>1. Init => CollectedInv
  BY DEF Init, CollectedInv, NoConn
<1>2. IInv /\ CollectedInv /\ [Next]_vars => CollectedInv'
  BY CollectedStep
<1>3. IInv /\ TimerInv /\ CollectedInv /\ [Next]_vars
        => [Ready' /\ ~Ready
              => /\ conn.topo = Topology
                 /\ now < conn.deadline
                 /\ conn.accepted \/ (wire' # wire /\ wire'.kind = "bootstrap")
                 /\ protocol_ready(sender)
                 /\ Mode = "Periodic" => sched' # NoTime /\ Unheld]_vars
  <2> SUFFICES ASSUME IInv, TimerInv, CollectedInv, [Next]_vars, Ready', ~Ready
               PROVE  /\ conn.topo = Topology
                      /\ now < conn.deadline
                      /\ conn.accepted \/ (wire' # wire /\ wire'.kind = "bootstrap")
                      /\ protocol_ready(sender)
                      /\ Mode = "Periodic" => sched' # NoTime /\ Unheld
    OBVIOUS
  <2>1. PICK o \in Outcomes : DriveHandshake(o)
    BY OnlyHandshakesMakeReady
  <2>2. Active /\ BecomesReady(o) /\ o # "terminal"
    BY <2>1 DEF DriveHandshake, Ready
  <2>3. HandshakeDone(o) /\ protocol_ready(sender)
    BY <2>2 DEF BecomesReady
  <2>4. conn.topo = Topology /\ (conn.accepted \/ (AttemptDue /\ o = "ok"))
    BY <2>3 DEF HandshakeDone, topology_ready, CollectedInv
  <2>5. AttemptDue /\ o = "ok" => wire' # wire /\ wire'.kind = "bootstrap"
    <3> SUFFICES ASSUME AttemptDue, o = "ok" PROVE wire' # wire /\ wire'.kind = "bootstrap"
      OBVIOUS
    <3>1. Transmit("bootstrap", {}, sender, TRUE)
      BY <2>1 DEF DriveHandshake
    <3>2. sender \in SenderType /\ "bootstrap" \in Sent
      BY DEF IInv, TypeOK, OutputTypeOK, Sent
    <3> QED
      BY <3>1, <3>2, TransmitTimers DEF IInv, TypeOK
  <2>6. Mode = "Periodic" => sched' # NoTime /\ Unheld
    <3> SUFFICES ASSUME Mode = "Periodic" PROVE sched' # NoTime /\ Unheld
      OBVIOUS
    <3>1. StartsReporting(o)
      BY <2>2 DEF BecomesReady
    <3>2. StartDeadline(now, Period) # NoTime
      BY DeadlineType, TimingAssumption
         DEF IInv, TypeOK, EnvironmentTypeOK, NoTime
    <3>3. sched' = IF sched = NoTime THEN StartDeadline(now, Period) ELSE sched
      BY <2>1, <2>2, <3>1 DEF DriveHandshake
    <3> QED
      BY <3>1, <3>2, <3>3 DEF StartsReporting
  <2> QED
    BY <2>2, <2>3, <2>4, <2>5, <2>6 DEF Active
<1> QED
  BY <1>1, <1>2, <1>3, Inductive, AlwaysTimerInv, PTL DEF Spec, ReadyIsEarned

-----------------------------------------------------------------------------
(* Answers *)

\* What the worker still owes: the connection command, or the tap.
Owes == pending \/ TapPending

\* Every command in flight is owed an answer or has it in the step's result,
\* never both and never two.
Accounts ==
    /\ pc # "done" => (inFlight <=> (Owes \/ progress.results # <<>>))
    /\ Len(progress.results) <= 1
    /\ pc # "done" => ~(Owes /\ progress.results # <<>>)
    /\ pc \in {"begin", "wait"} => progress.results = <<>>
    /\ shutdown = "taken" => pc = "done" /\ ~inFlight

\* The first result of a step.
LEMMA OneRecord ==
    ASSUME NEW p \in ProgressType, p.results = <<>>, NEW r \in {"ok", "err"}
    PROVE  /\ Record(p, TRUE, r).results # <<>>
           /\ Len(Record(p, TRUE, r).results) = 1
           /\ Record(p, FALSE, r) = p
  BY DEF Record, ProgressType

\* Every step keeps the account.
LEMMA AccountsStep ==
    ASSUME IInv, Final, Accounts, [Next]_vars
    PROVE  Accounts'
<1>t. progress \in ProgressType
  BY DEF IInv, TypeOK, StepTypeOK
<1>0. CASE pc = "done"
  <2>1. UNCHANGED <<pc, inFlight, pending, tap, progress, shutdown>>
    BY <1>0, DoneIsFinal DEF vars, environment, session, reporting
  <2> QED
    BY <2>1 DEF Accounts, Owes, TapPending
<1> SUFFICES ASSUME pc # "done" PROVE Accounts'
  BY <1>0
<1>u. shutdown # "taken"
  BY DEF Accounts
<1>c. Owes => progress.results = <<>>
  BY DEF Accounts
\* The account is untouched.
<1>1. ASSUME UNCHANGED <<inFlight, pending, tap>>,
             progress'.results = progress.results, shutdown' # "taken", pc' # "done",
             pc' \in {"begin", "wait"} => pc \in {"begin", "wait"}
      PROVE  Accounts'
  BY <1>1 DEF Accounts, Owes, TapPending
\* What was owed is answered.
<1>2. ASSUME Owes, ~Owes', UNCHANGED inFlight, shutdown' # "taken",
             pc' \notin {"begin", "wait", "done"},
             NEW r \in {"ok", "err"},
             progress'.results = Record(progress, TRUE, r).results
      PROVE  Accounts'
  <2>1. progress'.results # <<>> /\ Len(progress'.results) = 1
    BY <1>c, <1>t, <1>2, OneRecord
  <2>2. inFlight'
    BY <1>2 DEF Accounts
  <2>3. Len(progress'.results) <= 1
    BY <2>1
  <2> QED
    BY <1>2, <2>1, <2>2, <2>3 DEF Accounts
\* A command is taken: nothing was in flight.
<1>3. ASSUME CanTake, inFlight', shutdown' # "taken", pc' \in {"poll", "fail"},
             NEW r \in {"ok", "err", "pending"},
             progress'.results = Record(progress, r # "pending", r).results,
             Owes' <=> r = "pending"
      PROVE  Accounts'
  <2>1. progress.results = <<>>
    BY <1>3 DEF Accounts, Owes, CanTake
  <2>2. CASE r = "pending"
    BY <1>3, <1>t, <2>1, <2>2 DEF Accounts, Record
  <2>3. CASE r # "pending"
    <3>1. progress'.results # <<>> /\ Len(progress'.results) = 1
      BY <1>3, <1>t, <2>1, <2>3, OneRecord DEF Record
    <3>2. Len(progress'.results) <= 1
      BY <3>1
    <3> QED
      BY <1>3, <2>3, <3>1, <3>2 DEF Accounts
  <2> QED
    BY <2>2, <2>3
<1>4. ASSUME NEW c, NEW r \in {"ok", "err", "pending"}, NEW t \in BOOLEAN, Take(c, r, t),
             Owes' <=> r = "pending" \/ Owes
      PROVE  Accounts'
  <2>1. ~Owes /\ CanTake
    BY <1>4 DEF Take, CanTake, Owes
  <2>2. progress'.results = Record(progress, r # "pending", r).results
    <3>1. Record(progress, r # "pending", r) \in ProgressType
      BY <1>t, RecordType DEF Record
    <3> QED
      BY <1>4, <3>1 DEF Take, ProgressType
  <2>3. inFlight' /\ shutdown' # "taken" /\ pc' \in {"poll", "fail"}
    BY <1>4, <1>u DEF Take
  <2> QED
    BY <1>3, <1>4, <2>1, <2>2, <2>3
<1>5. ASSUME NEW c \in Commands, ConnectBegun(c) PROVE Accounts'
  <2>1. CanTake /\ inFlight' /\ shutdown' # "taken" /\ pc' = "poll" /\ pending'
    BY <1>5, <1>u DEF ConnectBegun
  <2>2. progress'.results = Record(progress, FALSE, "pending").results
    BY <1>5, <1>t DEF ConnectBegun, Record, ProgressType
  <2> QED
    BY <1>3, <2>1, <2>2 DEF Owes
<1>6. ASSUME NEW c \in Commands, NEW o \in Outcomes, BeginTap(c, o)
      PROVE  Accounts'
  <2>1. deadline_after(now, c.time) # NoTime
    BY DeadlineType, CommandsAssumption
       DEF Command, IInv, TypeOK, EnvironmentTypeOK, NoTime
  <2>2. TapBegins(o) => TapPending'
    BY <1>6, <2>1 DEF BeginTap, TapPending
  <2>3. Take(c, IF TapBegins(o) THEN "pending" ELSE "err", o = "terminal")
        /\ pending' = pending /\ (~TapBegins(o) => tap' = tap)
    BY <1>6 DEF BeginTap
  <2> QED
    BY <1>4, <2>2, <2>3 DEF Owes, TapPending
<1>7. CASE TakeCommand
  <2>1. ASSUME NEW c \in Commands, NEW ok \in BOOLEAN, ConnectRefused(c, ok)
      PROVE  Accounts'
    BY <1>4, <2>1 DEF ConnectRefused, Owes, TapPending, reporting
  <2>2. ASSUME NEW c \in Commands, InputRefused(c) PROVE Accounts'
    BY <1>4, <2>2 DEF InputRefused, Owes, TapPending, reporting
  <2>3. ASSUME NEW c \in Commands, PeriodicInput(c) PROVE Accounts'
    BY <1>4, <2>3 DEF PeriodicInput, Owes, TapPending, reporting
  <2>4. ASSUME NEW c \in Commands, NEW o \in Outcomes, DirectInput(c, o)
      PROVE  Accounts'
    BY <1>4, <2>4 DEF DirectInput, Owes, TapPending, reporting
  <2> QED
    BY <1>5, <1>6, <1>7, <2>1, <2>2, <2>3, <2>4 DEF TakeCommand
<1>8. CASE HandleEvent
  <2>1. ASSUME NEW p \in ProgressType, EventStep(p), p.results = progress.results,
               UNCHANGED <<pending, tap>>, pc' \notin {"begin", "wait", "done"}
        PROVE  Accounts'
    BY <1>1, <1>u, <2>1 DEF EventStep, ProgressType
  <2>2. AfterEvent(Tail(batch)) \notin {"begin", "wait", "done"}
    BY DEF AfterEvent
  <2>3. CASE EventDropped
    BY <1>t, <2>1, <2>2, <2>3 DEF EventDropped, reporting
  <2>4. CASE EventTopology
    BY <1>t, <2>1, <2>2, <2>4 DEF EventTopology, reporting
  <2>5. CASE EventSilentOutput
    BY <1>t, <2>1, <2>2, <2>5 DEF EventSilentOutput, reporting
  <2>6. ASSUME NEW o \in Outcomes, EventOutput(o) PROVE Accounts'
    BY <1>t, <2>1, <2>2, <2>6 DEF EventOutput
  <2>7. CASE EventDisconnected
    <3>1. Connecting /\ pending <=> pending
      BY DEF IInv, SessionCoherent
    <3>2. ~(pending /\ TapPending)
      BY DEF IInv, SessionCoherent, Ready
    <3>3. ~pending' /\ ~TapPending'
      BY <2>7, <3>1
         DEF EventDisconnected, EndSession, StopReporting, TapPending, NoTap,
             NoTime
    <3>4. UNCHANGED inFlight /\ shutdown' # "taken" /\ pc' \notin {"begin", "wait", "done"}
      BY <1>u, <2>2, <2>7 DEF EventDisconnected, EventStep
    <3>5. progress'.results = Interrupted(progress).results
      <4>1. Record(Record(progress, TapPending, "err"), Connecting /\ pending, "err")
              \in ProgressType
        BY <1>t, RecordType
           DEF TapPending, Connecting, IInv, TypeOK, SessionTypeOK
      <4>2. Interrupted(progress) \in ProgressType
        BY <4>1 DEF Interrupted, ProgressType
      <4> QED
        BY <2>7, <4>2 DEF EventDisconnected, EventStep, ProgressType
    <3>6. Interrupted(progress).results = Record(progress, Owes, "err").results
      BY <1>t, <3>1, <3>2 DEF Interrupted, Record, Owes, ProgressType
    <3>7. CASE Owes
      BY <1>2, <3>3, <3>4, <3>5, <3>6, <3>7 DEF Owes, Record
    <3>8. CASE ~Owes
      <4>1. progress'.results = progress.results
        BY <3>5, <3>6, <3>8 DEF Record
      <4> QED
        BY <3>3, <3>4, <3>8, <4>1 DEF Accounts, Owes
    <3> QED
      BY <3>7, <3>8
  <2> QED
    BY <1>8, <2>3, <2>4, <2>5, <2>6, <2>7 DEF HandleEvent
<1>9. CASE Drive
  <2>1. AfterDrive \notin {"begin", "wait", "done"}
    BY DEF AfterDrive, AfterEvent
  <2>2. CASE DriveNothing
    BY <1>1, <1>u, <2>1, <2>2 DEF DriveNothing, session, reporting, environment
  <2>3. CASE DriveAbort
    <3>1. Connecting /\ (Owes <=> pending)
      BY <2>3 DEF DriveAbort, IInv, SessionCoherent, Owes, Ready
    <3>2. ~pending' /\ ~TapPending'
      BY <2>3, <3>1
         DEF DriveAbort, EndSession, StopReporting, TapPending, NoTap, NoTime
    <3>3. UNCHANGED inFlight /\ shutdown' # "taken" /\ pc' \notin {"begin", "wait", "done"}
      BY <1>u, <2>1, <2>3 DEF DriveAbort, environment
    <3>4. progress'.results = Record(progress, pending, "err").results
      <4>1. Record(progress, pending, "err") \in ProgressType
        BY <1>t, RecordType DEF IInv, TypeOK, SessionTypeOK
      <4> QED
        BY <2>3, <4>1 DEF DriveAbort, ProgressType
    <3>5. CASE pending
      BY <1>2, <3>1, <3>2, <3>3, <3>4, <3>5 DEF Owes, Record
    <3>6. CASE ~pending
      <4>1. progress'.results = progress.results
        BY <3>4, <3>6 DEF Record
      <4> QED
        BY <3>1, <3>2, <3>3, <3>6, <4>1 DEF Accounts, Owes
    <3> QED
      BY <3>5, <3>6
  <2>4. ASSUME NEW o \in Outcomes, DriveHandshake(o) PROVE Accounts'
    <3> DEFINE ready == ~(o = "terminal" \/ (BecomesReady(o) /\ lifecycle # "Connecting"))
                          /\ BecomesReady(o)
    <3>1. /\ pending' = (pending /\ ~ready)
          /\ progress' =
                [Record(progress, ready /\ pending, "ok") EXCEPT
                    !.immediate = @ \/ (ready /\ pending),
                    !.active = @ \/ AttemptDue \/ ready,
                    !.deadline = IF Bootstrapping /\ ~AttemptDue
                                 THEN minimum_deadline(@, conn.retry) ELSE @]
          /\ pc' \in {"fail", AfterDrive}
          /\ UNCHANGED <<inFlight, shutdown, tap>>
      BY <2>4 DEF DriveHandshake
    <3>2. ready \in BOOLEAN
      BY DEF BecomesReady
    <3>3. ~TapPending
      BY <2>4 DEF DriveHandshake, IInv, SessionCoherent, Ready
    <3> HIDE DEF ready
    <3>4. progress'.results = Record(progress, ready /\ pending, "ok").results
      <4>1. Record(progress, ready /\ pending, "ok") \in ProgressType
        BY <1>t, <3>2, RecordType DEF IInv, TypeOK, SessionTypeOK
      <4> QED
        BY <3>1, <4>1 DEF ProgressType
    <3>5. ~TapPending' /\ shutdown' # "taken" /\ pc' \notin {"begin", "wait", "done"}
      BY <1>u, <2>1, <3>1, <3>3 DEF TapPending
    <3>6. CASE ready /\ pending
      BY <1>2, <3>1, <3>4, <3>5, <3>6 DEF Owes, Record
    <3>7. CASE ~(ready /\ pending)
      <4>1. progress'.results = progress.results
        BY <3>4, <3>7 DEF Record
      <4>2. pending' = pending
        BY <3>1, <3>7 DEF IInv, TypeOK, SessionTypeOK
      <4> QED
        BY <1>1, <3>1, <3>5, <4>1, <4>2
    <3> QED
      BY <3>6, <3>7
  <2> QED
    BY <1>9, <2>2, <2>3, <2>4 DEF Drive
<1>10. CASE Due
  <2>1. CASE DueNothing
    BY <1>1, <1>u, <2>1 DEF DueNothing, session, reporting, environment
  <2>2. CASE Backpressured
    BY <1>1, <1>u, <2>2 DEF Backpressured, DueStep, session
  <2>3. ASSUME NEW o \in Outcomes, AutomaticReport(o) PROVE Accounts'
    BY <1>1, <1>t, <1>u, <2>3
       DEF AutomaticReport, DueStep, session, ProgressType
  <2>4. ASSUME NEW o \in Outcomes, TapRelease(o) PROVE Accounts'
    <3>1. TapPending /\ ~pending
      BY <2>4 DEF TapRelease, TapDue, IInv, SessionCoherent, Ready
    <3>2. ~pending' /\ ~TapPending'
      BY <2>4, <3>1 DEF TapRelease, DueStep, session, TapPending, NoTap, NoTime
    <3>3. UNCHANGED inFlight /\ shutdown' # "taken" /\ pc' \notin {"begin", "wait", "done"}
      BY <1>u, <2>4 DEF TapRelease, DueStep
    <3>4. PICK r \in {"ok", "err"} : progress' = [Record(progress, TRUE, r)
                        EXCEPT !.immediate = TRUE, !.active = TRUE]
      BY <2>4 DEF TapRelease
    <3>5. progress'.results = Record(progress, TRUE, r).results
      <4>1. Record(progress, TRUE, r) \in ProgressType
        BY <1>t, RecordType
      <4> QED
        BY <3>4, <4>1 DEF ProgressType
    <3> QED
      BY <1>2, <3>1, <3>2, <3>3, <3>5 DEF Owes
  <2> QED
    BY <1>10, <2>1, <2>2, <2>3, <2>4 DEF Due
<1>11. CASE Tick \/ Client \/ Owner \/ Peer
  <2>1. shutdown' # "taken"
    BY <1>11, <1>u, BoundAssumption
       DEF Tick, Client, Owner, Peer, Enqueue, RequestShutdown, PeerEvent,
           PeerConnect, PeerOpenControl, PeerOpenInterrupt, PeerOutput,
           PeerDisconnect, Requests
  <2>2. UNCHANGED <<inFlight, pending, tap, progress, pc>>
    BY <1>11, EnvironmentFrame DEF session, reporting
  <2> QED
    BY <1>1, <2>1, <2>2
<1>12. CASE NoTake \/ Poll \/ PollError
  BY <1>1, <1>u, <1>12
     DEF NoTake, Poll, PollError, session, reporting, environment
<1>13. CASE Finish
  <2>1. UNCHANGED <<pending, tap, shutdown>>
    BY <1>13 DEF Finish, session, reporting, environment
  <2>2. progress.results # <<>> => inFlight
    BY DEF Accounts
  <2>3. progress'.results = <<>>
    BY <1>13, <1>t, <2>2 DEF Finish, ProgressType
  <2>4. pc' = "wait"
    BY <1>13, <2>2 DEF Finish
  <2>5. inFlight' <=> Owes'
    BY <1>13, <2>1 DEF Finish, Accounts, Owes, TapPending
  <2> QED
    BY <1>u, <2>1, <2>3, <2>4, <2>5 DEF Accounts
<1>14. CASE Proceed \/ Wake
  <2>1. /\ UNCHANGED <<pending, tap, shutdown, inFlight>>
        /\ progress' = FreshProgress /\ pc' = "begin" /\ pc = "wait"
    BY <1>14 DEF Proceed, Wake, Restart, session, reporting
  <2>2. progress.results = <<>> /\ progress'.results = <<>>
    BY <2>1 DEF Accounts, FreshProgress
  <2> QED
    BY <1>1, <1>u, <2>1, <2>2
<1>15. CASE Fail
  <2>1. /\ progress'.results = Record(progress, pending, "err").results
        /\ pc' = "done" /\ shutdown' = shutdown
    BY <1>15 DEF Fail, Shut
  <2>2. Len(progress'.results) <= 1
    <3>1. CASE pending
      BY <1>c, <1>t, <2>1, <3>1, OneRecord DEF Owes, Record
    <3>2. CASE ~pending
      BY <2>1, <3>2 DEF Record, Accounts
    <3> QED
      BY <3>1, <3>2
  <2> QED
    BY <1>u, <2>1, <2>2 DEF Accounts
<1>16. ASSUME NEW o \in Outcomes, Close(o) PROVE Accounts'
  <2>1. progress' = ClosedProgress /\ pc' = "done" /\ shutdown' = "taken"
        /\ inFlight' = (inFlight /\ ClosedProgress.results = <<>>)
    BY <1>16 DEF Close, Shut
  <2>2. ~(pending /\ TapPending)
    BY DEF IInv, SessionCoherent, Ready
  <2>3. ClosedProgress = Record(progress, Owes, "err")
    BY <2>2 DEF ClosedProgress, Record, Owes
  <2>4. Len(ClosedProgress.results) <= 1 /\ (Owes => ClosedProgress.results # <<>>)
    <3>1. CASE Owes
      BY <1>c, <1>t, <2>3, <3>1, OneRecord DEF Record
    <3>2. CASE ~Owes
      BY <2>3, <3>2 DEF Record, Accounts
    <3> QED
      BY <3>1, <3>2
  <2>5. ~inFlight'
    <3>1. CASE Owes
      BY <2>1, <2>4, <3>1
    <3>2. CASE ~Owes
      BY <2>1, <2>3, <3>2 DEF Accounts, Record
    <3> QED
      BY <3>1, <3>2
  <2> QED
    BY <2>1, <2>4, <2>5 DEF Accounts
<1>17. CASE Ended \/ UNCHANGED vars
  BY <1>1, <1>u, <1>17 DEF Ended, vars, session, reporting, environment
<1> QED
  BY <1>7, <1>8, <1>9, <1>10, <1>11, <1>12, <1>13, <1>14, <1>15, <1>16, <1>17
     DEF Next, Worker

\* The account is kept for ever.
LEMMA AlwaysAccounts == Spec => []Accounts
<1>1. ASSUME Init PROVE Accounts
  BY <1>1 DEF Init, Accounts, Owes, TapPending, NoTap, FreshProgress
<1>2. IInv /\ Final /\ Accounts /\ [Next]_vars => Accounts'
  BY AccountsStep
<1> QED
  BY <1>1, <1>2, Inductive, AlwaysFinal, PTL DEF Spec

\* record_command_progress never panics on a second result, and a result always
\* has a client waiting for it.
THEOREM AtMostOneResult == Spec => []OneResult
<1>1. Accounts => OneResult
  BY DEF Accounts, OneResult
<1> QED
  BY <1>1, AlwaysAccounts, PTL

\* Between steps a command is in flight exactly while the worker holds the work
\* that answers it.
THEOREM OwedWorkIsPending == Spec => []OwedIsPending
<1>1. Accounts => OwedIsPending
  BY DEF Accounts, OwedIsPending, Owes
<1> QED
  BY <1>1, AlwaysAccounts, PTL

\* WorkerCore::close leaves no taken command unanswered.
THEOREM OrderlyCloseAnswersAll == Spec => []ClosedAnswersAll
<1>1. Accounts => ClosedAnswersAll
  BY DEF Accounts, ClosedAnswersAll
<1> QED
  BY <1>1, AlwaysAccounts, PTL

-----------------------------------------------------------------------------
(* Waking in time *)

\* The minimum of two deadlines is not later than either.
LEMMA MinimumCovers ==
    ASSUME NEW a \in Time, NEW b \in Time
    PROVE  LET m == minimum_deadline(a, b)
           IN  /\ a # NoTime => m # NoTime /\ m <= a
               /\ b # NoTime => m # NoTime /\ m <= b
  BY DEF minimum_deadline, Time, NoTime

\* The wait covers every deadline when it is computed, and nothing moves a
\* deadline while the worker waits.
LEMMA WakesStep ==
    ASSUME IInv, WakesInTime, [Next]_vars
    PROVE  WakesInTime'
<1> SUFFICES ASSUME pc' = "wait" PROVE WakesInTime'
  BY DEF WakesInTime
<1>1. CASE /\ pc = "wait"
           /\ UNCHANGED <<conn, tap, sched, holdoff, sender, observed, progress>>
  BY <1>1
     DEF WakesInTime, Connecting, Bootstrapping, topology_ready,
         CompletionCondition, protocol_ready
<1>2. CASE Finish
  <2>1. UNCHANGED <<conn, tap, sched, holdoff, sender, observed>>
    BY <1>2 DEF Finish, session, reporting, output
  <2>2. /\ conn.deadline \in Nat /\ conn.retry \in Time /\ tap.at \in Time
        /\ sched \in Time /\ holdoff \in Time
        /\ progress.deadline \in Time /\ NoTime \in Time
    BY DEF IInv, TypeOK, SessionTypeOK, ConnType, ReportingTypeOK, TapType,
           StepTypeOK, ProgressType, Time
  <2> DEFINE c == IF Connecting
                  THEN minimum_deadline(conn.deadline,
                                        IF conn.collected THEN NoTime ELSE conn.retry)
                  ELSE NoTime
             pt == minimum_deadline(PolicyDeadline, tap.at)
             d == minimum_deadline(pt, c)
             e == minimum_deadline(progress.deadline, d)
  <2>3. c \in Time /\ PolicyDeadline \in Time
    BY <2>2, MinimumType DEF PolicyDeadline, Time
  <2>4. pt \in Time
    BY <2>2, <2>3, MinimumType
  <2>5. d \in Time
    BY <2>3, <2>4, MinimumType
  <2>6. e \in Time /\ progress'.deadline = e
    <3>1. next_deadline = d
      BY DEF next_deadline
    <3>2. e \in Time
      BY <2>2, <2>5, MinimumType
    <3> QED
      BY <1>2, <3>1, <3>2 DEF Finish, IInv, TypeOK, StepTypeOK, ProgressType
  <2> DEFINE covers(t) == t # NoTime => e # NoTime /\ e <= t
  <2>7. \A t \in Time : (t # NoTime => d # NoTime /\ d <= t) => covers(t)
    <3>1. d # NoTime => e # NoTime /\ e <= d
      BY <2>2, <2>5, MinimumCovers
    <3> HIDE DEF d, e
    <3> QED
      BY <2>5, <2>6, <3>1 DEF Time, NoTime
  <2>8. covers(PolicyDeadline) /\ covers(tap.at)
    <3>1. PolicyDeadline # NoTime => pt # NoTime /\ pt <= PolicyDeadline
      BY <2>2, <2>3, MinimumCovers
    <3>2. tap.at # NoTime => pt # NoTime /\ pt <= tap.at
      BY <2>2, <2>3, MinimumCovers
    <3>3. pt # NoTime => d # NoTime /\ d <= pt
      BY <2>3, <2>4, MinimumCovers
    <3> HIDE DEF pt, d, c, e
    <3> QED
      BY <2>2, <2>3, <2>4, <2>5, <2>6, <2>7, <3>1, <3>2, <3>3 DEF Time, NoTime
  <2>9. Connecting => covers(conn.deadline) /\ (~conn.collected => covers(conn.retry))
    <3> SUFFICES ASSUME Connecting
                 PROVE  covers(conn.deadline) /\ (~conn.collected => covers(conn.retry))
      OBVIOUS
    <3>1. c # NoTime /\ c <= conn.deadline
      BY <2>2, MinimumCovers DEF Time, NoTime
    <3>2. ~conn.collected /\ conn.retry # NoTime => c <= conn.retry
      BY <2>2, MinimumCovers DEF Time, NoTime
    <3>3. d # NoTime /\ d <= c
      BY <2>3, <2>4, <3>1, MinimumCovers
    <3> HIDE DEF pt, d, c, e
    <3> QED
      BY <2>2, <2>3, <2>4, <2>5, <2>6, <2>7, <3>1, <3>2, <3>3 DEF Time, NoTime
  <2> HIDE DEF c, pt, d, e
  <2>10. /\ sched # NoTime => covers(Later(sched, holdoff))
         /\ sched = NoTime => covers(holdoff)
    BY <2>8 DEF PolicyDeadline
  <2> QED
    BY <2>1, <2>6, <2>8, <2>9, <2>10 DEF WakesInTime, Connecting, Bootstrapping
<1>3. CASE Tick \/ Client \/ Owner \/ Peer
  BY <1>1, <1>3, EnvironmentFrame DEF session, reporting, output
<1>4. CASE TakeCommand
  BY <1>4
     DEF TakeCommand, ConnectRefused, ConnectBegun, InputRefused,
         PeriodicInput, DirectInput, BeginTap, Take
<1>5. CASE HandleEvent
  BY <1>5
     DEF HandleEvent, EventDropped, EventTopology, EventSilentOutput,
         EventDisconnected, EventOutput, AfterEvent
<1>6. CASE Drive
  BY <1>6
     DEF Drive, DriveNothing, DriveAbort, DriveHandshake, AfterDrive,
         AfterEvent
<1>7. CASE Due
  BY <1>7
     DEF Due, DueNothing, Backpressured, TapRelease, AutomaticReport, DueStep
<1>8. CASE \/ NoTake \/ Poll \/ PollError \/ Proceed \/ Wake \/ Fail
           \/ \E o \in Outcomes : Close(o)
  BY <1>8 DEF NoTake, Poll, PollError, Proceed, Wake, Restart, Fail, Close, Shut
<1>9. CASE Ended \/ UNCHANGED vars
  BY <1>1, <1>9 DEF Ended, vars, session, reporting, output
<1> QED
  BY <1>2, <1>3, <1>4, <1>5, <1>6, <1>7, <1>8, <1>9 DEF Next, Worker

\* next_deadline and wait_request: the worker never sleeps past a timeout, a
\* retry, a release, a holdoff or a report.
THEOREM WorkerWakesInTime == Spec => []WakesInTime
<1>1. Init => WakesInTime
  BY DEF Init, WakesInTime
<1>2. IInv /\ WakesInTime /\ [Next]_vars => WakesInTime'
  BY WakesStep
<1> QED
  BY <1>1, <1>2, Inductive, PTL DEF Spec

-----------------------------------------------------------------------------
(* Input *)

\* No command is taken while a tap is held.
LEMMA TapOwnsStep ==
    ASSUME IInv, TapOwnsInput, [Next]_vars
    PROVE  TapOwnsInput'
<1>1. CASE UNCHANGED <<tap, input>>
  BY <1>1 DEF TapOwnsInput, TapPending
<1>2. CASE tap' = tap /\ ~TapPending
  BY <1>2 DEF TapOwnsInput, TapPending
<1>3. CASE tap' = NoTap
  BY <1>3 DEF TapOwnsInput, TapPending, NoTap
<1>4. ASSUME NEW c \in Commands, NEW o \in Outcomes, BeginTap(c, o)
      PROVE  TapOwnsInput'
  <2>1. ~TapPending
    BY <1>4 DEF BeginTap, Take, CanTake
  <2>2. CASE TapBegins(o)
    <3>1. tap'.buttons = c.buttons /\ tap'.released = (input \cup c.buttons) \ c.buttons
      BY <1>4, <2>2 DEF BeginTap
    <3>2. input' = input \cup c.buttons
      BY <1>4, <2>2 DEF BeginTap, TapBegins, CommitDirect
    <3> QED
      BY <3>1, <3>2 DEF TapOwnsInput
  <2>3. CASE ~TapBegins(o)
    BY <1>2, <1>4, <2>1, <2>3 DEF BeginTap
  <2> QED
    BY <2>2, <2>3
<1>5. CASE Tick \/ Client \/ Owner \/ Peer
  BY <1>1, <1>5, EnvironmentFrame DEF reporting
<1>6. CASE TakeCommand
  BY <1>1, <1>2, <1>4, <1>6
     DEF TakeCommand, ConnectRefused, ConnectBegun, InputRefused,
         PeriodicInput, DirectInput, Take, CanTake, reporting
<1>7. CASE HandleEvent
  BY <1>1, <1>3, <1>7
     DEF HandleEvent, EventDropped, EventTopology, EventSilentOutput,
         EventOutput, EventDisconnected, EndSession, StopReporting, reporting
<1>8. CASE Drive
  BY <1>1, <1>3, <1>8
     DEF Drive, DriveNothing, DriveAbort, EndSession, StopReporting,
         DriveHandshake, reporting
<1>9. CASE Due
  BY <1>1, <1>3, <1>9
     DEF Due, DueNothing, Backpressured, TapRelease, AutomaticReport,
         DueStep, reporting
<1>10. CASE NoTake \/ Poll \/ PollError \/ Finish \/ Proceed \/ Wake
  BY <1>1, <1>10, QuietFrame DEF reporting
<1>11. CASE Fail \/ \E o \in Outcomes : Close(o)
  BY <1>3, <1>11 DEF Fail, Close, Shut, StopReporting
<1>12. CASE Ended \/ UNCHANGED vars
  BY <1>1, <1>12 DEF Ended, vars, reporting
<1> QED
  BY <1>5, <1>6, <1>7, <1>8, <1>9, <1>10, <1>11, <1>12 DEF Next, Worker

\* From its press to its release a tap is alone with the input.
THEOREM TapsOwnTheInput == Spec => []TapOwnsInput
<1>1. Init => TapOwnsInput
  BY DEF Init, TapOwnsInput, TapPending, NoTap
<1>2. IInv /\ TapOwnsInput /\ [Next]_vars => TapOwnsInput'
  BY TapOwnsStep
<1> QED
  BY <1>1, <1>2, Inductive, PTL DEF Spec

\* Direct reporting never arms the automatic report, the input is neutral
\* until the session is ready, and what was committed was shown.
DirectInv ==
    Mode = "Direct" => /\ sched = NoTime
                       /\ Connecting => input = {}
                       /\ current # 0 => input = shown

\* DirectInv is an invariant.
LEMMA DirectStep ==
    ASSUME IInv, DirectInv, [Next]_vars
    PROVE  DirectInv'
<1> SUFFICES ASSUME Mode = "Direct" PROVE DirectInv'
  BY DEF DirectInv
<1>0. sched = NoTime /\ (Connecting => input = {}) /\ (current # 0 => input = shown)
  BY DEF DirectInv
<1>1. CASE UNCHANGED <<sched, input, shown>> /\ (current' # 0 => current # 0)
           /\ (conn'.session # 0 => conn.session # 0)
  BY <1>0, <1>1 DEF DirectInv, Connecting
<1>2. CASE sched' = NoTime /\ current' = 0 /\ conn' = NoConn
  BY <1>2 DEF DirectInv, Connecting, NoConn
<1>3. ASSUME NEW c \in Commands, ConnectBegun(c) PROVE DirectInv'
  BY <1>3 DEF ConnectBegun, DirectInv
<1>4. ASSUME NEW c \in Commands, NEW o \in Outcomes, DirectInput(c, o)
      PROVE  DirectInv'
  <2>1. ~Connecting
    BY <1>4 DEF DirectInput, IInv, SessionCoherent, Ready
  <2>2. UNCHANGED <<sched, conn, current>> /\ current # 0
    BY <1>4 DEF DirectInput, reporting, IInv, SessionCoherent, Ready
  <2>3. input' = shown'
    BY <1>0, <1>4, <2>2 DEF DirectInput, CommitDirect, Transmit, output
  <2> QED
    BY <1>0, <2>1, <2>2, <2>3 DEF DirectInv, Connecting
<1>5. ASSUME NEW c \in Commands, NEW o \in Outcomes, BeginTap(c, o)
      PROVE  DirectInv'
  <2>1. ~Connecting
    BY <1>5 DEF BeginTap, IInv, SessionCoherent, Ready
  <2>2. UNCHANGED <<sched, conn, current>> /\ current # 0
    BY <1>5 DEF BeginTap, IInv, SessionCoherent, Ready
  <2>3. input' = shown'
    BY <1>0, <1>5, <2>2 DEF BeginTap, CommitDirect, Transmit, output
  <2> QED
    BY <1>0, <2>1, <2>2, <2>3 DEF DirectInv, Connecting
<1>6. ASSUME NEW o \in Outcomes, EventOutput(o) PROVE DirectInv'
  BY <1>0, <1>1, <1>6 DEF EventOutput, Transmit, output
<1>7. ASSUME NEW o \in Outcomes, DriveHandshake(o) PROVE DirectInv'
  <2>1. Connecting /\ input = {} /\ shown = {}
    BY <1>0, <1>7 DEF DriveHandshake, IInv, SessionCoherent
  <2>2. sched' = NoTime /\ current' = current /\ input' = input
    BY <1>0, <1>7 DEF DriveHandshake, StartsReporting
  <2>3. shown' = {}
    <3>1. UNCHANGED output \/ Transmit("bootstrap", {}, sender, o = "ok")
      BY <1>7 DEF DriveHandshake
    <3> QED
      BY <2>1, <3>1 DEF Transmit, output
  <2> QED
    BY <2>1, <2>2, <2>3 DEF DirectInv
<1>8. ASSUME NEW o \in Outcomes, TapRelease(o) PROVE DirectInv'
  <2>1. ~Connecting /\ current # 0
    BY <1>8 DEF TapRelease, TapDue, IInv, SessionCoherent, Ready
  <2>2. UNCHANGED <<sched, conn, current>>
    BY <1>8 DEF TapRelease, DueStep, session
  <2>3. input' = shown'
    BY <1>0, <1>8, <2>1 DEF TapRelease, CommitDirect, Transmit, output
  <2> QED
    BY <1>0, <2>1, <2>2, <2>3 DEF DirectInv, Connecting
<1>9. CASE Tick \/ Client \/ Owner \/ Peer
  BY <1>1, <1>9, EnvironmentFrame DEF reporting, output, session
<1>10. CASE TakeCommand
  BY <1>1, <1>3, <1>4, <1>5, <1>10
     DEF TakeCommand, ConnectRefused, InputRefused, PeriodicInput, reporting,
         output
<1>11. CASE HandleEvent
  <2>1. CASE EventTopology
    <3>1. conn'.session = conn.session
      BY <2>1 DEF EventTopology, IInv, TypeOK, SessionTypeOK, ConnType
    <3> QED
      BY <1>1, <2>1, <3>1 DEF EventTopology, reporting, output
  <2> QED
    BY <1>1, <1>2, <1>6, <1>11, <2>1
       DEF HandleEvent, EventDropped, EventSilentOutput, EventDisconnected,
           EndSession, StopReporting, reporting, output
<1>12. CASE Drive
  BY <1>1, <1>2, <1>7, <1>12
     DEF Drive, DriveNothing, DriveAbort, EndSession, StopReporting,
         reporting, session, output
<1>13. CASE Due
  <2>1. ~AutoDue
    BY <1>0 DEF AutoDue
  <2> QED
    BY <1>1, <1>8, <1>13, <2>1
       DEF Due, DueNothing, Backpressured, AutomaticReport, reporting,
           session, output
<1>14. CASE NoTake \/ Poll \/ PollError \/ Finish \/ Proceed \/ Wake
  BY <1>1, <1>14, QuietFrame DEF reporting, session, output
<1>15. CASE Fail \/ \E o \in Outcomes : Close(o)
  BY <1>2, <1>15 DEF Fail, Close, Shut, StopReporting
<1>16. CASE Ended \/ UNCHANGED vars
  BY <1>1, <1>16 DEF Ended, vars, reporting, session, output
<1> QED
  BY <1>9, <1>10, <1>11, <1>12, <1>13, <1>14, <1>15, <1>16 DEF Next, Worker

\* DirectInv holds throughout.
LEMMA AlwaysDirect == Spec => []DirectInv
<1>1. Init => DirectInv
  BY DEF Init, DirectInv, NoConn, Connecting
<1>2. IInv /\ DirectInv /\ [Next]_vars => DirectInv'
  BY DirectStep
<1> QED
  BY <1>1, <1>2, Inductive, PTL DEF Spec

\* Direct: the committed input is what the peer was last shown.
THEOREM DirectIsTransactional == Spec => []DirectShowsCommitted
<1>1. DirectInv => DirectShowsCommitted
  BY DEF DirectInv, DirectShowsCommitted
<1> QED
  BY <1>1, AlwaysDirect, PTL

-----------------------------------------------------------------------------
(* The invariants and action properties a run checks together *)

\* The session, the work that belongs to it and what a reader sees of it agree
\* whenever the worker is between two steps of its code, for every budget,
\* period and set of clients.
THEOREM SessionAndStatusAgree == Spec => []Coherent
  BY SessionsAreCoherent, StatusIsCoherent, PTL DEF Coherent

\* A command that was taken is answered once at most, and never while the
\* worker waits without the work that will answer it.
THEOREM EveryAnswerIsOwed == Spec => []AnswersAreOwed
  BY AtMostOneResult, OwedWorkIsPending, PTL DEF AnswersAreOwed

\* A held tap owns the input, and Direct commits only what the peer was shown.
THEOREM InputIsHeldAsAsked == Spec => []InputIsHeld
  BY TapsOwnTheInput, DirectIsTransactional, PTL DEF InputIsHeld

\* Reports of one session carry consecutive timers and keep the holdoff.
THEOREM SpacingIsKept == Spec => ReportsAreSpaced
  BY TimersAreConsecutive, HoldoffIsRespected DEF ReportsAreSpaced

-----------------------------------------------------------------------------
(***************************************************************************)
(* What arrives at the worker and what it believes because of it: the link *)
(* it thinks is up, the failure it shows, and the activity it must not     *)
(* sleep on.                                                               *)
(*                                                                         *)
(* ConnectedIsReal is not inductive: that a link event still to come is    *)
(* either true or followed by its disconnection needs the order of the     *)
(* events in the queue and in the batch, and that a disconnection the      *)
(* worker drops is not the one it is waiting for needs the tag of the      *)
(* batch.  ArrivalsAreNoticed needs to know what the last poll left.       *)
(***************************************************************************)

-----------------------------------------------------------------------------
(* Events in order *)

\* A disconnection at `k` or later.
Ends(s, k) == \E j \in k..Len(s) : s[j] = "disconnected"

\* Handling the first event moves the others up by one.
LEMMA EndsTail ==
    ASSUME NEW s \in Seq(Event), s # <<>>, NEW k \in Nat, k >= 1, Ends(s, k + 1)
    PROVE  Ends(Tail(s), k)
<1>1. PICK j \in (k + 1)..Len(s) : s[j] = "disconnected"
  BY DEF Ends
<1>2. j - 1 \in k..Len(Tail(s)) /\ Tail(s)[j - 1] = s[j]
  BY <1>1
<1> QED
  BY <1>1, <1>2 DEF Ends

\* A new event keeps the disconnections before it.
LEMMA EndsAppend ==
    ASSUME NEW s \in Seq(Event), NEW e \in Event, NEW k \in Nat, k >= 1
    PROVE  /\ Ends(s, k) => Ends(Append(s, e), k)
           /\ e = "disconnected" /\ k <= Len(s) + 1 => Ends(Append(s, e), k)
<1>1. ASSUME Ends(s, k) PROVE Ends(Append(s, e), k)
  <2>1. PICK j \in k..Len(s) : s[j] = "disconnected"
    BY <1>1 DEF Ends
  <2>2. j \in k..Len(Append(s, e)) /\ Append(s, e)[j] = s[j]
    BY <2>1
  <2> QED
    BY <2>1, <2>2 DEF Ends
<1>2. ASSUME e = "disconnected", k <= Len(s) + 1 PROVE Ends(Append(s, e), k)
  <2>1. /\ Len(s) + 1 \in k..Len(Append(s, e))
        /\ Append(s, e)[Len(s) + 1] = "disconnected"
    BY <1>2
  <2> QED
    BY <2>1 DEF Ends
<1> QED
  BY <1>1, <1>2

\* Where a step has no events in hand, and where it has.
Empty == {"begin", "poll", "drive", "due", "finish", "wait"}
Full == {"event", "event_drive"}

\* A link that is still to be reported is up or its end is reported later.
QueueTells ==
    \A i \in 1..Len(queue) :
        queue[i] = "link" => peer # "down" \/ Ends(queue, i + 1)
BatchTells ==
    \A i \in 1..Len(batch) :
        batch[i] = "link" => \/ peer # "down"
                             \/ Ends(batch, i + 1) \/ Ends(queue, 1)
LinkTells == connected => peer # "down" \/ Ends(batch, 1) \/ Ends(queue, 1)

\* The batch is empty between polls, and while it is handled the session it
\* was polled in is the current one or has ended.
BatchKept == pc \in Empty => batch = <<>>
TagKept == pc \in Full => tag = current \/ current = 0

LinkInv == pc # "done" => QueueTells /\ BatchTells /\ LinkTells /\ BatchKept /\ TagKept

\* Taking a command ends in front of the poll and leaves the events alone.
LEMMA TakeFrame ==
    ASSUME IInv, TakeCommand
    PROVE  /\ UNCHANGED <<peer, queue, batch, shutdown, token, idle, now>>
           /\ connected' => connected
           /\ pc = "begin" /\ pc' \in {"poll", "fail"} /\ ~Claimed /\ check'
           /\ inbox' = NoCommand /\ progress'.active
<1> DEFINE Frame == /\ UNCHANGED <<peer, queue, batch, shutdown, token, idle, now>>
                    /\ connected' => connected
                    /\ pc = "begin" /\ pc' \in {"poll", "fail"} /\ ~Claimed /\ check'
                    /\ inbox' = NoCommand /\ progress'.active
<1>t. progress \in ProgressType
  BY DEF IInv, TypeOK, StepTypeOK
<1>1. ASSUME NEW c \in Commands, NEW r, NEW f, Take(c, r, f), connected' => connected
      PROVE  Frame
  <2>1. progress'.active
    BY <1>1, <1>t DEF Take, Record, ProgressType
  <2> QED
    BY <1>1, <2>1 DEF Take, step
<1>2. ASSUME NEW c \in Commands, NEW ok \in BOOLEAN, ConnectRefused(c, ok)
      PROVE  Frame
  BY <1>1, <1>2 DEF ConnectRefused
<1>3. ASSUME NEW c \in Commands, ConnectBegun(c)
      PROVE  Frame
  <2>1. progress'.active
    BY <1>3, <1>t DEF ConnectBegun, ProgressType
  <2> QED
    BY <1>3, <2>1 DEF ConnectBegun, step
<1>4. ASSUME NEW c \in Commands, InputRefused(c) \/ PeriodicInput(c)
      PROVE  Frame
  <2>1. CASE InputRefused(c)
    BY <1>1, <2>1 DEF InputRefused
  <2>2. CASE PeriodicInput(c)
    BY <1>1, <2>2 DEF PeriodicInput
  <2> QED
    BY <1>4, <2>1, <2>2
<1>5. ASSUME NEW c \in Commands, NEW o \in Outcomes, DirectInput(c, o) \/ BeginTap(c, o)
      PROVE  Frame
  <2>1. CASE DirectInput(c, o)
    BY <1>1, <2>1 DEF DirectInput
  <2>2. CASE BeginTap(c, o)
    BY <1>1, <2>2 DEF BeginTap
  <2> QED
    BY <1>5, <2>1, <2>2
<1> QED
  BY <1>2, <1>3, <1>4, <1>5 DEF TakeCommand

\* Driving the connection ends no session but the current one and leaves the
\* events alone.
LEMMA DriveFrame ==
    ASSUME Drive
    PROVE  /\ UNCHANGED <<peer, queue, batch, tag, polled, shutdown, inbox, token,
                          inFlight, idle, now>>
           /\ connected' => connected
           /\ current' = current \/ current' = 0
           /\ ~Claimed
<1>1. CASE DriveNothing
  BY <1>1 DEF DriveNothing, Driving, environment, session, step
<1>2. CASE DriveAbort
  BY <1>2 DEF DriveAbort, Driving, EndSession, environment, step
<1>3. CASE \E o \in Outcomes : DriveHandshake(o)
  BY <1>3 DEF DriveHandshake, Driving, step
<1> QED
  BY <1>1, <1>2, <1>3 DEF Drive

\* Where a drive leads.
LEMMA DrivePlaces ==
    ASSUME Drive
    PROVE  \/ pc = "drive" /\ pc' \in {"due", "fail"}
           \/ pc = "event_drive" /\ pc' \in {AfterEvent(batch), "fail"}
<1>1. pc \in {"event_drive", "drive"} /\ pc' \in {AfterDrive, "fail"}
  BY DEF Drive, DriveNothing, DriveAbort, DriveHandshake, Driving
<1> QED
  BY <1>1 DEF AfterDrive

\* Every step keeps the order of link and disconnection.
LEMMA LinkStep ==
    ASSUME IInv, Final, LinkInv, [Next]_vars
    PROVE  LinkInv'
<1> SUFFICES ASSUME pc' # "done"
             PROVE  (QueueTells /\ BatchTells /\ LinkTells /\ BatchKept /\ TagKept)'
  BY DEF LinkInv
<1> USE DEF Empty, Full
<1>0. pc # "done"
  BY DoneIsFinal DEF vars
<1>i. QueueTells /\ BatchTells /\ LinkTells /\ BatchKept /\ TagKept
  BY <1>0 DEF LinkInv
<1>t. queue \in Seq(Event) /\ batch \in Seq(Event)
  BY DEF IInv, TypeOK, EnvironmentTypeOK, StepTypeOK
<1>g. /\ "disconnected" \in Event /\ Topology \subseteq Event /\ Outputs \subseteq Event
  BY DEF Event
\* Steps that leave the events alone.
<1>1. ASSUME UNCHANGED <<peer, queue, batch>>,
             connected' => connected,
             pc' \in Empty => batch = <<>>,
             pc' \in Full => /\ pc \in Full /\ tag' = tag
                             /\ current' = current \/ current' = 0
      PROVE  (QueueTells /\ BatchTells /\ LinkTells /\ BatchKept /\ TagKept)'
  BY <1>1, <1>i DEF QueueTells, BatchTells, LinkTells, BatchKept, TagKept, Ends
\* Steps that handle the first event.
<1>2. ASSUME UNCHANGED <<peer, queue, tag>>, batch # <<>>, batch' = Tail(batch),
             current' = current \/ current' = 0,
             pc \in Full,
             pc' \in Empty => Tail(batch) = <<>>,
             connected' => \/ connected /\ Head(batch) # "disconnected"
                           \/ Head(batch) = "link"
      PROVE  (QueueTells /\ BatchTells /\ LinkTells /\ BatchKept /\ TagKept)'
  <2>1. QueueTells'
    BY <1>2, <1>i DEF QueueTells, Ends
  <2>2. BatchTells'
    <3> SUFFICES ASSUME NEW i \in 1..Len(Tail(batch)), Tail(batch)[i] = "link"
                 PROVE  peer # "down" \/ Ends(Tail(batch), i + 1) \/ Ends(queue, 1)
      BY <1>2 DEF BatchTells, Ends
    <3>1. i + 1 \in 1..Len(batch) /\ batch[i + 1] = "link"
      BY <1>2, <1>t
    <3>2. peer # "down" \/ Ends(batch, (i + 1) + 1) \/ Ends(queue, 1)
      BY <3>1, <1>i DEF BatchTells
    <3> QED
      BY <3>2, <1>2, <1>t, EndsTail
  <2>3. LinkTells'
    <3> SUFFICES ASSUME connected' PROVE peer # "down" \/ Ends(Tail(batch), 1) \/ Ends(queue, 1)
      BY <1>2 DEF LinkTells, Ends
    <3>1. CASE Head(batch) = "link"
      <4>1. 1 \in 1..Len(batch) /\ batch[1] = "link"
        BY <1>2, <1>t, <3>1
      <4>2. peer # "down" \/ Ends(batch, 1 + 1) \/ Ends(queue, 1)
        BY <4>1, <1>i DEF BatchTells
      <4> QED
        BY <4>2, <1>2, <1>t, EndsTail
    <3>2. CASE connected /\ Head(batch) # "disconnected"
      <4>1. Ends(batch, 1) => Ends(batch, 1 + 1)
        BY <1>2, <1>t, <3>2 DEF Ends
      <4> QED
        BY <4>1, <3>2, <1>i, <1>2, <1>t, EndsTail DEF LinkTells
    <3> QED
      BY <3>1, <3>2, <1>2
  <2>4. BatchKept' /\ TagKept'
    BY <1>2, <1>i DEF BatchKept, TagKept
  <2> QED
    BY <2>1, <2>2, <2>3, <2>4
\* Steps in which the peer opens something.
<1>3. ASSUME peer' # "down", UNCHANGED <<batch, tag, current, pc>>
      PROVE  (QueueTells /\ BatchTells /\ LinkTells /\ BatchKept /\ TagKept)'
  BY <1>3, <1>i DEF QueueTells, BatchTells, LinkTells, BatchKept, TagKept
<1>4. CASE Tick \/ Client \/ Owner
  <2>1. UNCHANGED <<peer, queue, batch, connected, pc, tag, current>>
    BY <1>4
       DEF Tick, Client, Owner, Enqueue, RequestShutdown, session, step
  <2> QED
    BY <2>1, <1>1, <1>i DEF BatchKept
<1>5. CASE PeerConnect \/ PeerOpenControl \/ PeerOpenInterrupt
           \/ \E o \in OutputReports : PeerOutput(o)
  <2>1. peer' # "down" /\ UNCHANGED <<batch, tag, current, pc>>
    BY <1>5
       DEF PeerConnect, PeerOpenControl, PeerOpenInterrupt, PeerOutput,
           PeerEvent, session, step
  <2> QED
    BY <2>1, <1>3
<1>6. CASE PeerDisconnect
  <2>1. /\ queue' = Append(queue, "disconnected")
        /\ UNCHANGED <<batch, tag, current, pc, connected>>
    BY <1>6 DEF PeerDisconnect, PeerEvent, session, step
  <2>2. Ends(queue', 1)
    BY <2>1, <1>t, <1>g, EndsAppend
  <2>3. QueueTells'
    <3> SUFFICES ASSUME NEW i \in 1..Len(queue'), queue'[i] = "link"
                 PROVE  Ends(queue', i + 1)
      BY DEF QueueTells, Ends
    <3>1. i + 1 <= Len(queue) + 1
      BY <2>1, <1>t
    <3> QED
      BY <2>1, <3>1, <1>t, <1>g, EndsAppend
  <2> QED
    BY <2>1, <2>2, <2>3, <1>i DEF BatchTells, LinkTells, BatchKept, TagKept
<1>7. CASE NoTake
  BY <1>7, <1>1, <1>i DEF NoTake, BatchKept, environment, session, step
<1>8. CASE TakeCommand
  BY <1>8, TakeFrame, <1>1, <1>i DEF BatchKept
<1>9. CASE Poll
  <2>1. CASE queue = <<>>
    <3>1. /\ UNCHANGED <<peer, queue, batch, connected>>
          /\ pc = "poll" /\ pc' = "drive"
      BY <1>9, <2>1 DEF Poll, session
    <3> QED
      BY <3>1, <1>1, <1>i DEF BatchKept
  <2>2. CASE queue # <<>>
    <3>1. /\ batch' = queue /\ queue' = <<>> /\ tag' = current /\ pc' = "event"
          /\ pc = "poll" /\ UNCHANGED <<peer, connected, current>>
      BY <1>9, <2>2 DEF Poll, session
    <3>2. ~Ends(batch, 1)
      BY <3>1, <1>i DEF BatchKept, Ends
    <3> QED
      BY <3>1, <3>2, <1>i DEF QueueTells, BatchTells, LinkTells, BatchKept, TagKept, Ends
  <2> QED
    BY <2>1, <2>2
<1>10. CASE PollError
  BY <1>10, <1>1 DEF PollError, session, step
<1>11. CASE HandleEvent
  <2>1. /\ pc = "event" /\ batch # <<>> /\ batch' = Tail(batch)
        /\ UNCHANGED <<peer, queue, tag>>
    BY <1>11
       DEF HandleEvent, EventDropped, EventTopology, EventSilentOutput,
           EventOutput, EventDisconnected, EventStep, Handling, IInv, BatchInHand
  <2>2. connected /\ pc = "event" => Current
    BY <2>1, <1>i DEF TagKept, IInv, SessionCoherent, Current
  <2>3. current' = current \/ current' = 0
    BY <1>11
       DEF HandleEvent, EventDropped, EventTopology, EventSilentOutput,
           EventOutput, EventDisconnected, EndSession
  <2>4. pc' \in Empty => Tail(batch) = <<>>
    BY <1>11
       DEF HandleEvent, EventDropped, EventTopology, EventSilentOutput,
           EventOutput, EventDisconnected, AfterEvent
  <2>5. connected' => (connected /\ Head(batch) # "disconnected") \/ Head(batch) = "link"
    BY <1>11, <2>1, <2>2
       DEF HandleEvent, EventDropped, EventTopology, EventSilentOutput,
           EventOutput, EventDisconnected, EndSession, Topology, Outputs
  <2> QED
    BY <2>1, <2>3, <2>4, <2>5, <1>2
<1>12. CASE Drive
  <2>1. /\ UNCHANGED <<peer, queue, batch, tag>>
        /\ connected' => connected
        /\ current' = current \/ current' = 0
    BY <1>12, DriveFrame
  <2>2. \/ pc = "drive" /\ pc' \in {"due", "fail"}
        \/ pc = "event_drive" /\ pc' \in {AfterEvent(batch), "fail"}
    BY <1>12, DrivePlaces
  <2> QED
    BY <2>1, <2>2, <1>1, <1>i DEF BatchKept, AfterEvent
<1>13. CASE Due
  <2>1. /\ UNCHANGED <<peer, queue, batch, tag, connected, current>>
        /\ pc = "due" /\ pc' \in {"finish", "fail"}
    BY <1>13
       DEF Due, DueNothing, DueStep, Backpressured, TapRelease, AutomaticReport,
           environment, session, step
  <2> QED
    BY <2>1, <1>1, <1>i DEF BatchKept
<1>14. CASE Finish
  <2>1. /\ UNCHANGED <<peer, queue, batch, connected>>
        /\ pc = "finish" /\ pc' \in {"wait", "fail"}
    BY <1>14 DEF Finish, environment, session, step
  <2> QED
    BY <2>1, <1>1, <1>i DEF BatchKept
<1>15. CASE Proceed \/ Wake
  <2>1. /\ UNCHANGED <<peer, queue, connected>> /\ batch' = <<>>
        /\ pc = "wait" /\ pc' = "begin"
    BY <1>15 DEF Proceed, Wake, Restart, session
  <2> QED
    BY <2>1, <1>1, <1>i DEF BatchKept
<1>16. CASE Fail \/ \E o \in Outcomes : Close(o)
  BY <1>16 DEF Fail, Close, Shut
<1>17. CASE Ended \/ UNCHANGED vars
  <2>1. UNCHANGED <<peer, queue, batch, tag, connected, current, pc>>
    BY <1>17 DEF Ended, vars, environment, session, step
  <2> QED
    BY <2>1, <1>1, <1>i DEF BatchKept
<1> QED
  BY <1>4, <1>5, <1>6, <1>7, <1>8, <1>9, <1>10, <1>11, <1>12, <1>13, <1>14,
     <1>15, <1>16, <1>17
     DEF Next, Peer, Worker

\* LinkInv is an invariant.
LEMMA AlwaysLinkInv == Spec => []LinkInv
<1>1. Init => LinkInv
  BY DEF Init, LinkInv, QueueTells, BatchTells, LinkTells, BatchKept, TagKept, Full
<1> QED
  BY <1>1, LinkStep, Inductive, AlwaysFinal, PTL DEF Spec

\* The link an endpoint believes in is up, or its end is on the way: whatever
\* the peer does, and whenever its events are polled, dropped or overtaken.
THEOREM LinkIsThere == Spec => []ConnectedIsReal
<1>2. IInv /\ Final /\ LinkInv => ConnectedIsReal
  <2> SUFFICES ASSUME IInv, Final, LinkInv, connected PROVE ConnectedIsReal
    BY DEF ConnectedIsReal
  <2>1. LinkTells
    BY DEF LinkInv, Final, IInv, SessionCoherent
  <2> QED
    BY <2>1 DEF LinkTells, Ends, ConnectedIsReal
<1> QED
  BY <1>2, Inductive, AlwaysFinal, AlwaysLinkInv, PTL

-----------------------------------------------------------------------------
(* The failure of a worker that started on a fresh status *)

\* No failure is shown before the worker ends.
Unfailed == pc # "done" => ~status.failure
\* And a worker that has ended was closed or is seen to have failed.
FailureInv == Unfailed /\ FailureIsVisible

\* Only the end of the worker writes a failure.
LEMMA FailureKept ==
    ASSUME IInv, [Next]_vars, pc # "done", pc' # "done"
    PROVE  status'.failure => status.failure
<1>t. status \in StatusType
  BY DEF IInv, TypeOK, OutputTypeOK
<1> USE DEF StatusType
<1>1. CASE Tick \/ Client \/ Owner \/ Peer
  BY <1>1, EnvironmentFrame
<1>2. CASE TakeCommand
  <2>1. ASSUME NEW c \in Commands, NEW ok \in BOOLEAN, ConnectRefused(c, ok)
        PROVE  status' = status
    BY <2>1 DEF ConnectRefused
  <2>2. ASSUME NEW c \in Commands, ConnectBegun(c)
        PROVE  status'.failure = FALSE
    BY <2>2 DEF ConnectBegun
  <2>3. ASSUME NEW c \in Commands, InputRefused(c)
        PROVE  status' = status
    BY <2>3 DEF InputRefused
  <2>4. ASSUME NEW c \in Commands, PeriodicInput(c)
        PROVE  status'.failure = status.failure
    BY <2>4, <1>t DEF PeriodicInput
  <2>5. ASSUME NEW c \in Commands, NEW o \in Outcomes, DirectInput(c, o)
        PROVE  status'.failure = status.failure
    BY <2>5, <1>t DEF DirectInput
  <2>6. ASSUME NEW c \in Commands, NEW o \in Outcomes, BeginTap(c, o)
        PROVE  status'.failure = status.failure
    BY <2>6, <1>t DEF BeginTap
  <2> QED
    BY <1>2, <2>1, <2>2, <2>3, <2>4, <2>5, <2>6 DEF TakeCommand
<1>3. CASE HandleEvent
  BY <1>3, <1>t
     DEF HandleEvent, EventDropped, EventTopology, EventSilentOutput, EventOutput,
         EventDisconnected, EndSession, EndedStatus
<1>4. CASE Drive
  <2>1. CASE DriveNothing
    BY <2>1 DEF DriveNothing
  <2>2. CASE DriveAbort
    BY <2>2, <1>t DEF DriveAbort, EndSession, EndedStatus
  <2>3. ASSUME NEW o \in Outcomes, DriveHandshake(o)
        PROVE  status'.failure = status.failure
    BY <2>3, <1>t DEF DriveHandshake
  <2> QED
    BY <1>4, <2>1, <2>2, <2>3 DEF Drive
<1>5. CASE Due
  BY <1>5, <1>t DEF Due, DueNothing, Backpressured, TapRelease, AutomaticReport
<1>6. CASE NoTake \/ Poll \/ PollError \/ Finish \/ Proceed \/ Wake
  BY <1>6, QuietFrame
<1>7. CASE Fail \/ \E o \in Outcomes : Close(o)
  BY <1>7 DEF Fail, Close, Shut
<1>8. CASE Ended \/ UNCHANGED vars
  BY <1>8 DEF Ended, vars
<1> QED
  BY <1>1, <1>2, <1>3, <1>4, <1>5, <1>6, <1>7, <1>8 DEF Next, Worker

\* What ends a worker is a close, which takes the request, or a failure.
LEMMA EndsTold ==
    ASSUME IInv, [Next]_vars, pc # "done", pc' = "done", ~status.failure
    PROVE  shutdown' = "taken" \/ status'.lifecycle = "Failed"
<1>t. status \in StatusType
  BY DEF IInv, TypeOK, OutputTypeOK
<1>2. CASE \E o \in Outcomes : Close(o)
  BY <1>2 DEF Close
<1>3. CASE Fail
  BY <1>3, <1>t DEF Fail, FailedStatus, EndedStatus, StatusType
<1>4. CASE Tick \/ Client \/ Owner \/ Peer
  BY <1>4, EnvironmentFrame
<1>5. CASE TakeCommand
  BY <1>5, TakeFrame
<1>6. CASE HandleEvent
  BY <1>6
     DEF HandleEvent, EventDropped, EventTopology, EventSilentOutput, EventOutput,
         EventDisconnected, AfterEvent
<1>7. CASE Drive
  BY <1>7, DrivePlaces DEF AfterEvent
<1>8. CASE Due
  BY <1>8
     DEF Due, DueNothing, Backpressured, TapRelease, AutomaticReport, DueStep
<1>9. CASE NoTake \/ Poll \/ PollError \/ Finish \/ Proceed \/ Wake
  BY <1>9 DEF NoTake, Poll, PollError, Finish, Proceed, Wake, Restart
<1>10. CASE Ended \/ UNCHANGED vars
  BY <1>10 DEF Ended, vars
<1> QED
  BY <1>2, <1>3, <1>4, <1>5, <1>6, <1>7, <1>8, <1>9, <1>10 DEF Next, Worker

\* On a fresh status, what the worker believes of the link is true, reports are
\* accepted within a session only, and a worker that failed is seen as Failed.
THEOREM LinkAndItsEndAreReal ==
    ASSUME StaleFailure = FALSE
    PROVE  Spec => []LinkIsReal
<1>1. Init => FailureInv
  BY DEF Init, FailureInv, Unfailed, FailureIsVisible
<1>2. IInv /\ Final /\ FailureInv /\ [Next]_vars => FailureInv'
  <2> SUFFICES ASSUME IInv, Final, FailureInv, [Next]_vars PROVE FailureInv'
    OBVIOUS
  <2>1. CASE pc = "done"
    <3>1. UNCHANGED <<pc, status, shutdown>>
      BY <2>1, DoneIsFinal DEF vars, environment
    <3> QED
      BY <3>1 DEF FailureInv, Unfailed, FailureIsVisible
  <2>2. CASE pc # "done" /\ pc' = "done"
    <3>1. ~status.failure
      BY <2>2 DEF FailureInv, Unfailed
    <3> QED
      BY <2>2, <3>1, EndsTold DEF FailureInv, Unfailed, FailureIsVisible
  <2>3. CASE pc # "done" /\ pc' # "done"
    BY <2>3, FailureKept DEF FailureInv, Unfailed, FailureIsVisible
  <2> QED
    BY <2>1, <2>2, <2>3
<1>3. FailureInv => FailureIsVisible
  BY DEF FailureInv
<1> QED
  BY <1>1, <1>2, <1>3, Inductive, AlwaysFinal, LinkIsThere,
     AcceptedReportsHaveASession, PTL DEF Spec, LinkIsReal

-----------------------------------------------------------------------------
(* What the worker must not sleep on *)

\* A request that was not taken is about to be looked for, or left a token.
RequestNoticed == shutdown \in Requests => IF pc = "wait" THEN token ELSE check

\* After the polls nothing is left in the queue without a token, except at the
\* budget, where the next step follows at once.
Polled == {"drive", "due", "finish", "wait"}
QueueNoticed ==
    /\ pc \in Polled => queue = <<>> \/ token \/ progress.immediate
    /\ pc = "event_drive" /\ Exhausted(batch) => progress.immediate

\* A command the step left behind waits for another's answer or left a token,
\* and an answer makes the next step follow at once.
Stepping == {"poll", "event", "event_drive", "drive", "due", "finish"}
CommandNoticed ==
    /\ pc \in Stepping /\ inbox # NoCommand => inFlight \/ token
    /\ pc = "wait" /\ inbox # NoCommand => inFlight \/ token \/ progress.immediate
    /\ pc # "done" /\ progress.results # <<>> => progress.immediate

NoticeInv == RequestNoticed /\ QueueNoticed /\ CommandNoticed

\* A command that is answered at once makes the next step immediate.
LEMMA TakeAnswers ==
    ASSUME IInv, progress.results = <<>>, TakeCommand
    PROVE  progress'.results # <<>> => progress'.immediate
<1>t. progress \in ProgressType
  BY DEF IInv, TypeOK, StepTypeOK
<1>1. ASSUME NEW c, NEW r \in {"ok", "err", "pending"}, NEW f, Take(c, r, f)
      PROVE  progress'.results # <<>> => progress'.immediate
  BY <1>1, <1>t DEF Take, Record, ProgressType
<1>2. ASSUME NEW c \in Commands, ConnectBegun(c)
      PROVE  progress'.results = progress.results
  BY <1>2, <1>t DEF ConnectBegun, ProgressType
<1>3. ASSUME NEW c \in Commands, ~ConnectBegun(c),
             \/ \E ok \in BOOLEAN : ConnectRefused(c, ok)
             \/ InputRefused(c) \/ PeriodicInput(c)
             \/ \E o \in Outcomes : DirectInput(c, o) \/ BeginTap(c, o)
      PROVE  \E r \in {"ok", "err", "pending"}, f \in BOOLEAN : Take(c, r, f)
  BY <1>3 DEF ConnectRefused, InputRefused, PeriodicInput, DirectInput, BeginTap
<1> QED
  BY <1>1, <1>2, <1>3 DEF TakeCommand

\* The events of a batch and what they leave behind.
LEMMA EventFrame ==
    ASSUME IInv, HandleEvent
    PROVE  /\ pc = "event" /\ ~Claimed /\ check'
           /\ UNCHANGED <<queue, shutdown, inbox, token, inFlight, polled, idle, now>>
           /\ batch' = Tail(batch)
           /\ pc' \in {"event_drive", "fail", AfterEvent(Tail(batch))}
           /\ progress'.active
           /\ progress.immediate \/ Exhausted(Tail(batch)) => progress'.immediate
           /\ \/ progress'.results = progress.results
              \/ progress'.immediate
<1>t. progress \in ProgressType
  BY DEF IInv, TypeOK, StepTypeOK
<1>1. ASSUME NEW p \in ProgressType, EventStep(p), p.immediate <=> progress.immediate,
             p.results = progress.results
      PROVE  /\ progress'.active
             /\ progress.immediate \/ Exhausted(Tail(batch)) => progress'.immediate
             /\ progress'.results = progress.results
  BY <1>1 DEF EventStep, ProgressType
<1>2. ASSUME EventDisconnected
      PROVE  /\ progress'.active
             /\ progress.immediate \/ Exhausted(Tail(batch)) => progress'.immediate
             /\ progress'.results = progress.results \/ progress'.immediate
  <2>1. Interrupted(progress) \in ProgressType
    <3>1. Record(progress, TapPending, "err") \in ProgressType
      BY <1>t, RecordType DEF TapPending
    <3>2. Record(Record(progress, TapPending, "err"), Connecting /\ pending, "err")
            \in ProgressType
      BY <3>1, RecordType
    <3> QED
      BY <3>2 DEF Interrupted, ProgressType
  <2>2. /\ progress.immediate => Interrupted(progress).immediate
        /\ \/ Interrupted(progress).results = progress.results
           \/ Interrupted(progress).immediate
    BY <1>t DEF Interrupted, Record, ProgressType
  <2>3. progress' = [Interrupted(progress) EXCEPT
                        !.active = TRUE, !.immediate = @ \/ Exhausted(Tail(batch))]
    BY <1>2 DEF EventDisconnected, EventStep
  <2> QED
    BY <2>1, <2>2, <2>3 DEF ProgressType
<1>3. CASE \/ EventDropped \/ EventTopology \/ EventSilentOutput
           \/ \E o \in Outcomes : EventOutput(o)
  <2>1. EventStep(progress)
    BY <1>3 DEF EventDropped, EventTopology, EventSilentOutput, EventOutput
  <2>2. pc = "event" /\ ~Claimed /\ pc' \in {"event_drive", "fail", AfterEvent(Tail(batch))}
    BY <1>3 DEF EventDropped, EventTopology, EventSilentOutput, EventOutput, Handling
  <2>3. /\ progress'.active
        /\ progress.immediate \/ Exhausted(Tail(batch)) => progress'.immediate
        /\ progress'.results = progress.results
    BY <2>1, <1>1, <1>t
  <2> QED
    BY <2>1, <2>2, <2>3 DEF EventStep
<1>4. CASE EventDisconnected
  <2>1. pc = "event" /\ ~Claimed /\ pc' = AfterEvent(Tail(batch))
    BY <1>4 DEF EventDisconnected, Handling
  <2>2. /\ check' /\ batch' = Tail(batch)
        /\ UNCHANGED <<queue, shutdown, inbox, token, inFlight, polled, idle, now>>
    BY <1>4 DEF EventDisconnected, EventStep
  <2> QED
    BY <2>1, <2>2, <1>2, <1>4
<1> QED
  BY <1>3, <1>4 DEF HandleEvent

\* A drive makes the next step immediate when it answers, and never takes
\* that back.
LEMMA DriveProgress ==
    ASSUME IInv, Drive
    PROVE  /\ progress.immediate => progress'.immediate
           /\ progress'.results = progress.results \/ progress'.immediate
           /\ progress.active => progress'.active
<1>t. progress \in ProgressType
  BY DEF IInv, TypeOK, StepTypeOK
<1>1. CASE DriveNothing
  BY <1>1 DEF DriveNothing
<1>2. CASE DriveAbort
  BY <1>2, <1>t DEF DriveAbort, Record, ProgressType
<1>3. ASSUME NEW o \in Outcomes, DriveHandshake(o)
      PROVE  /\ progress.immediate => progress'.immediate
             /\ progress'.results = progress.results \/ progress'.immediate
             /\ progress.active => progress'.active
  BY <1>3, <1>t DEF DriveHandshake, Record, ProgressType
<1> QED
  BY <1>1, <1>2, <1>3 DEF Drive

\* A due step that answers makes the next step immediate.
LEMMA DueFrame ==
    ASSUME IInv, Due
    PROVE  /\ pc = "due" /\ ~Claimed /\ pc' \in {"finish", "fail"}
           /\ UNCHANGED <<queue, batch, polled, shutdown, inbox, token, inFlight, idle, now>>
           /\ progress.immediate => progress'.immediate
           /\ progress'.results = progress.results \/ progress'.immediate
           /\ progress.active => progress'.active
<1>t. progress \in ProgressType
  BY DEF IInv, TypeOK, StepTypeOK
<1>1. CASE DueNothing
  BY <1>1 DEF DueNothing, environment, step
<1>2. ASSUME NEW o \in Outcomes, TapRelease(o)
      PROVE  /\ DueStep(o)
             /\ progress'.immediate /\ progress'.active
  BY <1>2, <1>t DEF TapRelease, Record, ProgressType
<1>3. ASSUME NEW o \in Outcomes, AutomaticReport(o)
      PROVE  /\ DueStep(o)
             /\ progress'.immediate = progress.immediate
             /\ progress'.results = progress.results /\ progress'.active
  BY <1>3, <1>t DEF AutomaticReport, ProgressType
<1>4. CASE Backpressured
  BY <1>4 DEF Backpressured, DueStep, step
<1>5. ASSUME NEW o \in Outcomes, DueStep(o)
      PROVE  /\ pc = "due" /\ ~Claimed /\ pc' \in {"finish", "fail"}
             /\ UNCHANGED <<queue, batch, polled, shutdown, inbox, token, inFlight, idle, now>>
  BY <1>5 DEF DueStep, step
<1> QED
  BY <1>1, <1>2, <1>3, <1>4, <1>5 DEF Due

\* Every step keeps what was not noticed yet noticeable.
LEMMA NoticeStep ==
    ASSUME IInv, Final, Accounts, NoticeInv, [Next]_vars
    PROVE  NoticeInv'
<1> SUFFICES ASSUME pc # "done" PROVE NoticeInv'
  <2>1. ASSUME pc = "done" PROVE UNCHANGED <<pc, shutdown, queue, token, progress, inbox,
                                            inFlight, check, batch, polled>>
    BY <2>1, DoneIsFinal DEF vars, environment, step
  <2>2. ASSUME pc = "done" PROVE NoticeInv'
    BY <2>1, <2>2
       DEF NoticeInv, RequestNoticed, QueueNoticed, CommandNoticed, Exhausted
  <2> QED
    BY <2>2
<1> USE DEF Polled, Stepping
<1>t. progress \in ProgressType
  BY DEF IInv, TypeOK, StepTypeOK
<1>i. RequestNoticed /\ QueueNoticed /\ CommandNoticed
  BY DEF NoticeInv
<1>c. ~Claimed /\ pc # "wait" => shutdown \notin Requests
  BY <1>i DEF RequestNoticed, Claimed
<1>r. pc \in {"begin", "wait"} => progress.results = <<>>
  BY DEF Accounts
<1>1. CASE Tick
  <2>1. UNCHANGED <<pc, shutdown, queue, token, progress, inbox, inFlight, check,
                    batch, polled>>
    BY <1>1 DEF Tick, step
  <2> QED
    BY <2>1, <1>i DEF NoticeInv, RequestNoticed, QueueNoticed, CommandNoticed, Exhausted
<1>2. CASE Client
  <2>1. /\ token' /\ pc \in {"wait", "begin"}
        /\ UNCHANGED <<pc, shutdown, queue, progress, inFlight, check, batch, polled>>
    BY <1>2 DEF Client, Enqueue, Notify, step
  <2> QED
    BY <2>1, <1>i DEF NoticeInv, RequestNoticed, QueueNoticed, CommandNoticed, Exhausted
<1>3. CASE Owner
  <2>1. /\ token'
        /\ check \/ pc = "wait"
        /\ UNCHANGED <<pc, queue, inbox, progress, inFlight, check, batch, polled>>
    BY <1>3 DEF Owner, RequestShutdown, Notify, step
  <2> QED
    BY <2>1, <1>i DEF NoticeInv, RequestNoticed, QueueNoticed, CommandNoticed, Exhausted
<1>4. CASE Peer
  <2>1. /\ token' /\ pc \in {"wait", "poll"}
        /\ UNCHANGED <<pc, shutdown, inbox, progress, inFlight, check, batch, polled>>
    BY <1>4
       DEF Peer, PeerConnect, PeerOpenControl, PeerOpenInterrupt, PeerOutput,
           PeerDisconnect, PeerEvent, Notify, step
  <2> QED
    BY <2>1, <1>i DEF NoticeInv, RequestNoticed, QueueNoticed, CommandNoticed, Exhausted
<1>5. CASE NoTake
  <2>1. /\ pc = "begin" /\ ~Claimed /\ ~CanTake /\ pc' = "poll"
        /\ UNCHANGED <<shutdown, queue, inbox, token, progress, inFlight, pending, tap>>
    BY <1>5 DEF NoTake, environment, session, reporting
  <2>2. inbox # NoCommand => inFlight
    BY <2>1, <1>r DEF CanTake, Accounts, Owes
  <2> QED
    BY <2>1, <2>2, <1>c, <1>r DEF NoticeInv, RequestNoticed, QueueNoticed, CommandNoticed
<1>6. CASE TakeCommand
  <2>1. progress'.results # <<>> => progress'.immediate
    BY <1>6, <1>r, TakeFrame, TakeAnswers
  <2> QED
    BY <1>6, <2>1, TakeFrame, <1>c
       DEF NoticeInv, RequestNoticed, QueueNoticed, CommandNoticed
<1>7. CASE Poll
  <2>1. /\ pc = "poll" /\ ~Claimed
        /\ (queue = <<>> /\ queue' = <<>> /\ pc' = "drive") \/ pc' = "event"
        /\ UNCHANGED <<shutdown, inbox, token, progress, inFlight>>
    BY <1>7 DEF Poll
  <2> QED
    BY <2>1, <1>c, <1>i DEF NoticeInv, RequestNoticed, QueueNoticed, CommandNoticed
<1>8. CASE PollError
  <2>1. /\ pc = "poll" /\ ~Claimed /\ pc' = "fail"
        /\ UNCHANGED <<shutdown, progress>>
    BY <1>8 DEF PollError
  <2> QED
    BY <2>1, <1>c, <1>i DEF NoticeInv, RequestNoticed, QueueNoticed, CommandNoticed
<1>9. CASE HandleEvent
  <2>1. RequestNoticed'
    BY <1>9, EventFrame, <1>c DEF RequestNoticed
  <2>2. QueueNoticed'
    BY <1>9, EventFrame DEF QueueNoticed, AfterEvent, Exhausted
  <2>3. CommandNoticed'
    BY <1>9, EventFrame, <1>i DEF CommandNoticed
  <2> QED
    BY <2>1, <2>2, <2>3 DEF NoticeInv
<1>10. CASE Drive
  <2>1. RequestNoticed'
    BY <1>10, DriveFrame, DrivePlaces, <1>c DEF RequestNoticed
  <2>2. QueueNoticed'
    BY <1>10, DriveFrame, DrivePlaces, DriveProgress, <1>i
       DEF QueueNoticed, AfterEvent, Exhausted
  <2>3. CommandNoticed'
    BY <1>10, DriveFrame, DrivePlaces, DriveProgress, <1>i DEF CommandNoticed, AfterEvent
  <2> QED
    BY <2>1, <2>2, <2>3 DEF NoticeInv
<1>11. CASE Due
  BY <1>11, DueFrame, <1>c, <1>i
     DEF NoticeInv, RequestNoticed, QueueNoticed, CommandNoticed
<1>12. CASE Finish
  <2>1. /\ pc = "finish" /\ ~Claimed /\ pc' \in {"fail", "wait"}
        /\ UNCHANGED <<shutdown, queue, inbox, token>>
        /\ progress'.immediate = progress.immediate
        /\ inFlight' = (inFlight /\ progress.results = <<>>)
        /\ progress'.results # <<>> => progress.results # <<>>
    BY <1>12, <1>t DEF Finish, environment, ProgressType
  <2> QED
    BY <2>1, <1>c, <1>i DEF NoticeInv, RequestNoticed, QueueNoticed, CommandNoticed
<1>13. CASE Proceed \/ Wake
  <2>1. check' /\ pc' = "begin" /\ progress' = FreshProgress
    BY <1>13 DEF Proceed, Wake, Restart
  <2> QED
    BY <2>1
       DEF NoticeInv, RequestNoticed, QueueNoticed, CommandNoticed, FreshProgress
<1>14. CASE Fail \/ \E o \in Outcomes : Close(o)
  <2>1. pc' = "done" /\ shutdown' \notin Requests
    BY <1>14, <1>c, <1>i
       DEF Fail, Close, Shut, Requests, RequestNoticed
  <2> QED
    BY <2>1 DEF NoticeInv, RequestNoticed, QueueNoticed, CommandNoticed
<1>15. CASE Ended \/ UNCHANGED vars
  <2>1. UNCHANGED <<pc, shutdown, queue, token, progress, inbox, inFlight, check,
                    batch, polled>>
    BY <1>15 DEF Ended, vars, environment, step
  <2> QED
    BY <2>1, <1>i DEF NoticeInv, RequestNoticed, QueueNoticed, CommandNoticed, Exhausted
<1> QED
  BY <1>1, <1>2, <1>3, <1>4, <1>5, <1>6, <1>7, <1>8, <1>9, <1>10, <1>11, <1>12, <1>13,
     <1>14, <1>15
     DEF Next, Worker

\* An event, a request or a command that arrives while the worker is busy is
\* never slept on, wherever in the step it arrives.
THEOREM NothingIsSleptOn == Spec => []ArrivalsAreNoticed
<1>1. Init => NoticeInv
  BY DEF Init, NoticeInv, RequestNoticed, QueueNoticed, CommandNoticed, Requests,
         Polled, Stepping, FreshProgress
<1>2. NoticeInv => ArrivalsAreNoticed
  BY DEF NoticeInv, RequestNoticed, QueueNoticed, CommandNoticed, ArrivalsAreNoticed,
         NoWait, Polled, Stepping
<1> QED
  BY <1>1, <1>2, NoticeStep, Inductive, AlwaysFinal, AlwaysAccounts, PTL DEF Spec

-----------------------------------------------------------------------------
(* Why Direct does not spin *)

\* The bootstrap is retried only once the topology is up.
RetryInv == conn.retry # NoTime => conn.topo = Topology

\* In Direct no reply holds anything off.
Unarmed == Mode = "Direct" => holdoff = NoTime

\* An instant that is not there yet.
Ahead(t) == t = NoTime \/ now < t

\* While the clock stands still a step that did nothing found nothing due,
\* neither in the connection it drove nor in the tap it holds.
DriveQuiet ==
    Connecting => /\ now < conn.deadline
                  /\ ~conn.collected => Ahead(conn.retry)
Quiet ==
    /\ ~progress.immediate
    /\ Ahead(progress.deadline)
    /\ pc \in {"due", "finish", "wait"} => DriveQuiet
    /\ pc \in {"finish", "wait"} => Ahead(tap.at)
QuietInv ==
    Mode = "Direct" => /\ progress.immediate => progress.active
                       /\ idle < 2
                       /\ idle # 0 /\ ~progress.active => Quiet

\* Only attempts set a retry.
LEMMA RetryStep ==
    ASSUME IInv, RetryInv, [Next]_vars
    PROVE  RetryInv'
<1>t. conn \in ConnType
  BY DEF IInv, TypeOK, SessionTypeOK
<1>n. NoConn.retry = NoTime
  BY DEF NoConn
<1>1. CASE conn' = conn
  BY <1>1 DEF RetryInv
<1>2. CASE conn' = NoConn
  BY <1>2, <1>n DEF RetryInv
<1>3. CASE Tick \/ Client \/ Owner \/ Peer
  BY <1>1, <1>3, EnvironmentFrame DEF session
<1>4. CASE TakeCommand
  <2>1. ASSUME NEW c \in Commands, ConnectBegun(c)
        PROVE  conn'.retry = NoTime
    BY <2>1 DEF ConnectBegun, NoConn
  <2>2. ASSUME NEW c \in Commands, NEW ok \in BOOLEAN, ConnectRefused(c, ok)
        PROVE  conn' = conn
    BY <2>2 DEF ConnectRefused
  <2>3. ASSUME NEW c \in Commands, InputRefused(c) \/ PeriodicInput(c)
        PROVE  conn' = conn
    BY <2>3 DEF InputRefused, PeriodicInput
  <2>4. ASSUME NEW c \in Commands, NEW o \in Outcomes, DirectInput(c, o) \/ BeginTap(c, o)
        PROVE  conn' = conn
    BY <2>4 DEF DirectInput, BeginTap
  <2> QED
    BY <1>1, <1>4, <2>1, <2>2, <2>3, <2>4 DEF TakeCommand, RetryInv
<1>5. CASE HandleEvent
  <2>1. CASE EventTopology
    <3>1. conn' = conn \/ (conn'.retry = conn.retry /\ conn'.topo = conn.topo \cup {Head(batch)}
                           /\ Head(batch) \in Topology)
      BY <2>1, <1>t DEF EventTopology, ConnType
    <3> QED
      BY <3>1, <1>1, <1>t DEF RetryInv
  <2>2. CASE EventDropped \/ EventSilentOutput \/ \E o \in Outcomes : EventOutput(o)
    BY <2>2, <1>1 DEF EventDropped, EventSilentOutput, EventOutput
  <2>3. CASE EventDisconnected
    BY <2>3, <1>2 DEF EventDisconnected, EndSession
  <2> QED
    BY <1>5, <2>1, <2>2, <2>3 DEF HandleEvent
<1>6. CASE Drive
  <2>1. CASE DriveNothing
    BY <2>1, <1>1 DEF DriveNothing, session
  <2>2. CASE DriveAbort
    BY <2>2, <1>2 DEF DriveAbort, EndSession
  <2>3. ASSUME NEW o \in Outcomes, DriveHandshake(o)
        PROVE  RetryInv'
    <3>1. \/ conn' = NoConn
          \/ conn'.retry = NoTime
          \/ conn'.topo = conn.topo /\ conn'.retry = conn.retry
          \/ conn'.topo = conn.topo /\ AttemptDue
      BY <2>3, <1>t DEF DriveHandshake, ConnType
    <3>2. AttemptDue => conn.topo = Topology
      BY DEF AttemptDue, Bootstrapping, topology_ready
    <3> QED
      BY <3>1, <3>2, <1>2 DEF RetryInv
  <2> QED
    BY <1>6, <2>1, <2>2, <2>3 DEF Drive
<1>7. CASE Due
  BY <1>7, <1>1
     DEF Due, DueNothing, Backpressured, TapRelease, AutomaticReport, DueStep, session
<1>8. CASE NoTake \/ Poll \/ PollError \/ Finish \/ Proceed \/ Wake
  BY <1>8, <1>1, QuietFrame DEF session
<1>9. CASE Fail \/ \E o \in Outcomes : Close(o)
  BY <1>9, <1>2 DEF Fail, Close, Shut
<1>10. CASE Ended \/ UNCHANGED vars
  BY <1>10, <1>1 DEF Ended, vars, session
<1> QED
  BY <1>3, <1>4, <1>5, <1>6, <1>7, <1>8, <1>9, <1>10 DEF Next, Worker

\* A reply sets a holdoff in Periodic only.
LEMMA UnarmedStep ==
    ASSUME Unarmed, [Next]_vars
    PROVE  Unarmed'
<1> SUFFICES ASSUME Mode = "Direct", holdoff = NoTime PROVE holdoff' = NoTime
  BY DEF Unarmed
<1>1. CASE Tick \/ Client \/ Owner \/ Peer
  BY <1>1, EnvironmentFrame DEF reporting
<1>2. CASE TakeCommand
  BY <1>2, ZenonT(40)
     DEF TakeCommand, ConnectRefused, ConnectBegun, InputRefused, PeriodicInput,
         DirectInput, BeginTap, reporting
<1>3. CASE HandleEvent
  BY <1>3
     DEF HandleEvent, EventDropped, EventTopology, EventSilentOutput, EventOutput,
         EventDisconnected, EndSession, StopReporting, record_output_completion, reporting
<1>4. CASE Drive
  BY <1>4
     DEF Drive, DriveNothing, DriveAbort, DriveHandshake, EndSession, StopReporting,
         reporting
<1>5. CASE Due
  BY <1>5
     DEF Due, DueNothing, DueStep, Backpressured, TapRelease, AutomaticReport, reporting
<1>6. CASE NoTake \/ Poll \/ PollError \/ Finish \/ Proceed \/ Wake
  BY <1>6, QuietFrame DEF reporting
<1>7. CASE Fail \/ \E o \in Outcomes : Close(o)
  BY <1>7 DEF Fail, Close, Shut, StopReporting
<1>8. CASE Ended \/ UNCHANGED vars
  BY <1>8 DEF Ended, vars, reporting
<1> QED
  BY <1>1, <1>2, <1>3, <1>4, <1>5, <1>6, <1>7, <1>8 DEF Next, Worker

\* The earlier of two instants that are not there yet is not there yet.
LEMMA MinimumAhead ==
    ASSUME NEW a \in Time, NEW b \in Time, Ahead(a), Ahead(b)
    PROVE  Ahead(minimum_deadline(a, b))
  BY DEF Ahead, minimum_deadline

\* A handshake that had nothing to do leaves nothing due behind.
LEMMA HandshakeQuiet ==
    ASSUME IInv, RetryInv, NEW o \in Outcomes, DriveHandshake(o),
           ~progress.immediate, Ahead(progress.deadline), ~progress'.active
    PROVE  ~progress'.immediate /\ Ahead(progress'.deadline) /\ DriveQuiet'
<1>t. progress \in ProgressType /\ conn \in ConnType /\ now \in Nat
  BY DEF IInv, TypeOK, StepTypeOK, SessionTypeOK, EnvironmentTypeOK
<1>1. ~AttemptDue /\ o = "ok" /\ Connecting /\ Active /\ now' = now
  BY <1>t DEF DriveHandshake, Record, ProgressType, Outcomes
<1>2. Connecting => lifecycle = "Connecting"
  BY DEF IInv, SessionCoherent
<1>3. ~BecomesReady(o)
  BY <1>1, <1>2, <1>t DEF DriveHandshake, Record, ProgressType
<1>4. conn' = IF HandshakeDone(o)
              THEN [conn EXCEPT !.retry = NoTime, !.accepted = conn.accepted,
                                !.collected = TRUE]
              ELSE [conn EXCEPT !.retry = conn.retry, !.accepted = conn.accepted]
  BY <1>1, <1>3, <1>t DEF DriveHandshake, ConnType
<1>5. /\ ~progress'.immediate
      /\ progress'.deadline = IF Bootstrapping
                              THEN minimum_deadline(progress.deadline, conn.retry)
                              ELSE progress.deadline
  BY <1>1, <1>3, <1>t DEF DriveHandshake, Record, ProgressType
<1>6. Bootstrapping => Ahead(conn.retry)
  BY <1>1, <1>t DEF AttemptDue, Ahead, ConnType, Time, NoTime
<1>7. Ahead(progress'.deadline)
  <2>1. now' = now /\ progress.deadline \in Time /\ conn.retry \in Time
    BY <1>1, <1>t DEF ProgressType, ConnType
  <2>2. Bootstrapping => Ahead(minimum_deadline(progress.deadline, conn.retry))
    BY <1>6, <2>1, MinimumAhead
  <2> QED
    BY <1>5, <2>1, <2>2 DEF Ahead
<1>8. DriveQuiet'
  <2>1. now' < conn'.deadline
    BY <1>1, <1>4, <1>t DEF Active, ConnType
  <2>2. CASE HandshakeDone(o)
    <3>1. conn'.collected
      BY <1>4, <2>2, <1>t DEF ConnType
    <3> QED
      BY <2>1, <3>1 DEF DriveQuiet
  <2>3. CASE ~HandshakeDone(o)
    <3>1. conn'.retry = conn.retry
      BY <1>4, <2>3, <1>t DEF ConnType
    <3>2. Ahead(conn.retry)
      <4>1. CASE Bootstrapping
        BY <1>6, <4>1
      <4>2. CASE ~Bootstrapping
        <5>1. conn.topo # Topology
          BY <2>3, <4>2 DEF HandshakeDone, Bootstrapping, topology_ready
        <5> QED
          BY <5>1 DEF RetryInv, Ahead
      <4> QED
        BY <4>1, <4>2
    <3>3. Ahead(conn.retry)'
      BY <1>1, <3>1, <3>2 DEF Ahead
    <3> QED
      BY <2>1, <3>3 DEF DriveQuiet
  <2> QED
    BY <2>2, <2>3
<1> QED
  BY <1>5, <1>7, <1>8

\* Every step keeps the quiet of a worker that has nothing to do.
LEMMA QuietStep ==
    ASSUME IInv, Final, DirectInv, Unarmed, RetryInv, QuietInv, [Next]_vars
    PROVE  QuietInv'
<1> SUFFICES ASSUME Mode = "Direct" PROVE QuietInv'
  BY DEF QuietInv
<1>t. progress \in ProgressType /\ tap \in TapType /\ conn \in ConnType /\ now \in Nat
      /\ idle \in 0..2
  BY DEF IInv, TypeOK, StepTypeOK, ReportingTypeOK, SessionTypeOK, EnvironmentTypeOK
<1>i. /\ progress.immediate => progress.active
      /\ idle < 2
      /\ idle # 0 /\ ~progress.active => Quiet
  BY DEF QuietInv
\* Nothing that matters changes, and no place is reached that promises more.
<1>1. ASSUME UNCHANGED <<now, idle, progress, conn, tap>>,
             pc' \in {"due", "finish", "wait"} => pc = pc' \/ DriveQuiet,
             pc' \in {"finish", "wait"} => pc = pc' \/ Ahead(tap.at)
      PROVE  QuietInv'
  BY <1>1, <1>i DEF QuietInv, Quiet, Ahead, DriveQuiet, Connecting
\* The step has done something.
<1>2. ASSUME progress'.active, UNCHANGED idle
      PROVE  QuietInv'
  BY <1>2, <1>i DEF QuietInv
<1>3. ASSUME idle' = 0, progress'.immediate => progress'.active
      PROVE  QuietInv'
  BY <1>3 DEF QuietInv
<1>4. CASE Tick
  BY <1>4, <1>3, <1>i DEF Tick
<1>5. CASE Client \/ Owner \/ Peer
  <2>1. UNCHANGED <<now, idle, progress, conn, tap, pc>>
    BY <1>5
       DEF Client, Enqueue, Owner, RequestShutdown, Peer, PeerConnect, PeerOpenControl,
           PeerOpenInterrupt, PeerOutput, PeerDisconnect, PeerEvent, session, reporting
  <2> QED
    BY <2>1, <1>1
<1>6. CASE NoTake \/ Poll \/ PollError
  <2>1. UNCHANGED <<now, idle, progress, conn, tap>>
        /\ pc' \in {"poll", "drive", "event", "fail"}
    BY <1>6 DEF NoTake, Poll, PollError, environment, session, reporting
  <2> QED
    BY <2>1, <1>1
<1>7. CASE TakeCommand
  BY <1>7, <1>2, TakeFrame
<1>8. CASE HandleEvent
  BY <1>8, <1>2, EventFrame
<1>9. CASE Drive
  <2>1. CASE DriveNothing
    <3>1. UNCHANGED <<now, idle, progress, conn, tap>> /\ ~Connecting
          /\ pc' \notin {"finish", "wait"}
      BY <2>1 DEF DriveNothing, AfterDrive, AfterEvent, environment, session, reporting
    <3> QED
      BY <3>1, <1>1 DEF DriveQuiet
  <2>2. CASE DriveAbort
    BY <2>2, <1>2, <1>t DEF DriveAbort, Record, ProgressType
  <2>3. ASSUME NEW o \in Outcomes, DriveHandshake(o), ~progress'.active
        PROVE  QuietInv'
    <3>1. UNCHANGED idle /\ ~progress.active
      BY <2>3, DriveFrame, DriveProgress DEF Drive
    <3>2. pc' \notin {"finish", "wait"}
      BY <2>3, DrivePlaces DEF Drive, AfterEvent
    <3>3. CASE idle = 0
      <4>1. progress'.immediate => progress'.active
        BY <2>3, <1>t, <1>i DEF DriveHandshake, Record, ProgressType
      <4> QED
        BY <3>1, <3>3, <4>1, <1>3
    <3>4. CASE idle # 0
      <4>1. ~progress.immediate /\ Ahead(progress.deadline)
        BY <3>1, <3>4, <1>i DEF Quiet
      <4>2. ~progress'.immediate /\ Ahead(progress'.deadline) /\ DriveQuiet'
        BY <4>1, <2>3, HandshakeQuiet
      <4>3. Ahead(progress.deadline)'
        BY <4>2, <1>9, DriveFrame DEF Ahead
      <4> QED
        BY <3>1, <3>2, <4>2, <4>3, <1>i DEF QuietInv, Quiet
    <3> QED
      BY <3>3, <3>4
  <2>4. UNCHANGED idle
    BY <1>9, DriveFrame
  <2> QED
    BY <1>9, <1>2, <2>1, <2>2, <2>3, <2>4 DEF Drive
<1>10. CASE Due
  <2>1. CASE DueNothing
    <3>1. UNCHANGED <<now, idle, progress, conn, tap>> /\ pc = "due" /\ pc' = "finish"
      BY <2>1 DEF DueNothing, environment, session, reporting
    <3>2. Ahead(tap.at)
      <4>1. TapPending => ~TapDue
        BY <2>1 DEF DueNothing, Eligible, IInv, SessionCoherent
      <4> QED
        BY <4>1, <1>t DEF Ahead, TapDue, TapPending, TapType, Time, NoTime
    <3> QED
      BY <3>1, <3>2, <1>i DEF QuietInv, Quiet, Ahead, DriveQuiet, Connecting
  <2>2. ASSUME NEW o \in Outcomes, TapRelease(o) \/ AutomaticReport(o)
        PROVE  QuietInv'
    <3>1. progress'.active
      BY <2>2, <1>t DEF TapRelease, AutomaticReport, Record, ProgressType
    <3> QED
      BY <3>1, <1>2, <1>10, DueFrame
  <2>3. ~Backpressured
    BY DEF Backpressured, AutoDue, DirectInv
  <2> QED
    BY <1>10, <2>1, <2>2, <2>3 DEF Due
<1>11. CASE Finish
  <2>1. /\ pc = "finish" /\ UNCHANGED <<now, idle, conn, tap>>
        /\ progress'.immediate = progress.immediate
        /\ progress'.active = progress.active
        /\ progress'.deadline = minimum_deadline(progress.deadline, next_deadline)
    BY <1>11, <1>t DEF Finish, environment, session, reporting, ProgressType
  <2>2. ASSUME DriveQuiet, Ahead(tap.at)
        PROVE  Ahead(next_deadline) /\ next_deadline \in Time
    <3>1. PolicyDeadline = NoTime
      BY DEF PolicyDeadline, DirectInv, Unarmed
    <3>2. NoTime \in Time /\ tap.at \in Time /\ conn.retry \in Time /\ conn.deadline \in Time
      BY <1>t DEF Time, TapType, ConnType
    <3> DEFINE a == minimum_deadline(PolicyDeadline, tap.at)
               r == IF conn.collected THEN NoTime ELSE conn.retry
               b == IF Connecting THEN minimum_deadline(conn.deadline, r) ELSE NoTime
    <3>3. a = tap.at
      BY <3>1 DEF minimum_deadline
    <3>4. r \in Time /\ (Connecting => Ahead(r))
      BY <2>2, <3>2 DEF DriveQuiet, Ahead
    <3>5. Connecting => Ahead(conn.deadline)
      BY <2>2 DEF DriveQuiet, Ahead
    <3>6. minimum_deadline(conn.deadline, r) \in Time
      BY <3>2, <3>4 DEF minimum_deadline
    <3>7. b \in Time /\ Ahead(b)
      BY <3>2, <3>4, <3>5, <3>6, MinimumAhead DEF Ahead
    <3>8. minimum_deadline(a, b) \in Time /\ Ahead(minimum_deadline(a, b))
      <4> HIDE DEF b
      <4>1. minimum_deadline(a, b) \in Time
        BY <3>2, <3>3, <3>7 DEF minimum_deadline
      <4> QED
        BY <4>1, <2>2, <3>2, <3>3, <3>7, MinimumAhead
    <3> QED
      BY <3>8 DEF next_deadline
  <2>3. CASE idle # 0 /\ ~progress.active
    <3>1. DriveQuiet /\ Ahead(tap.at) /\ Ahead(progress.deadline) /\ ~progress.immediate
      BY <2>1, <2>3, <1>i DEF Quiet
    <3>2. Ahead(minimum_deadline(progress.deadline, next_deadline))
      BY <3>1, <2>2, <1>t, MinimumAhead DEF ProgressType
    <3>3. Ahead(progress.deadline)' /\ DriveQuiet' /\ Ahead(tap.at)'
      BY <2>1, <3>1, <3>2 DEF Ahead, DriveQuiet, Connecting
    <3> QED
      BY <2>1, <2>3, <3>1, <3>3, <1>i DEF QuietInv, Quiet
  <2>4. CASE ~(idle # 0 /\ ~progress.active)
    BY <2>1, <2>4, <1>i DEF QuietInv
  <2> QED
    BY <2>3, <2>4
<1>12. CASE Proceed
  <2>1. pc = "wait" /\ pc' = "begin" /\ progress' = FreshProgress /\ NoWait /\ now' = now
    BY <1>12 DEF Proceed, Restart
  <2>2. progress.active \/ idle = 0
    <3> SUFFICES ASSUME ~progress.active, idle # 0 PROVE FALSE
      OBVIOUS
    <3>1. ~progress.immediate /\ Ahead(progress.deadline)
      BY <1>i DEF Quiet
    <3> QED
      BY <2>1, <3>1, <1>t DEF NoWait, DeadlinePassed, Ahead, ProgressType, Time, NoTime
  <2>3. idle' < 2
    BY <1>12, <2>2, <1>t DEF Proceed
  <2>4. Quiet'
    BY <2>1 DEF Quiet, Ahead, FreshProgress
  <2>5. ~progress'.immediate
    BY <2>1 DEF FreshProgress
  <2> QED
    BY <2>3, <2>4, <2>5 DEF QuietInv
<1>13. CASE Wake
  BY <1>13, <1>3 DEF Wake, Restart, FreshProgress
<1>14. CASE Fail \/ \E o \in Outcomes : Close(o)
  <2>1. /\ pc' = "done" /\ UNCHANGED <<now, idle>>
        /\ progress'.immediate = progress.immediate
        /\ progress'.active = progress.active
        /\ progress'.deadline = progress.deadline
    BY <1>14, <1>t DEF Fail, Close, Shut, ClosedProgress, Record, ProgressType
  <2> QED
    BY <2>1, <1>i DEF QuietInv, Quiet, Ahead
<1>15. CASE Ended \/ UNCHANGED vars
  <2>1. UNCHANGED <<now, idle, progress, conn, tap, pc>>
    BY <1>15 DEF Ended, vars, environment, session, reporting
  <2> QED
    BY <2>1, <1>1
<1> QED
  BY <1>4, <1>5, <1>6, <1>7, <1>8, <1>9, <1>10, <1>11, <1>12, <1>13, <1>14, <1>15
     DEF Next, Worker

\* In Direct the worker does not run through step after step with nothing to do
\* while the clock stands still, and it never sleeps on what arrived.
THEOREM DirectSleepsAndWakes ==
    ASSUME Mode = "Direct"
    PROVE  Spec => []SleepsAndWakes
<1>1. Init => RetryInv /\ Unarmed /\ QuietInv
  BY DEF Init, RetryInv, Unarmed, QuietInv, NoConn, Quiet, FreshProgress
<1>2. QuietInv => NoBusyLoop
  BY DEF QuietInv, NoBusyLoop
<1>3. IInv /\ RetryInv /\ [Next]_vars => RetryInv'
  BY RetryStep
<1>4. Unarmed /\ [Next]_vars => Unarmed'
  BY UnarmedStep
<1>5. /\ IInv /\ Final /\ DirectInv /\ Unarmed /\ RetryInv /\ QuietInv
      /\ [Next]_vars
      => QuietInv'
  BY QuietStep
<1> QED
  BY <1>1, <1>2, <1>3, <1>4, <1>5, Inductive, AlwaysFinal, AlwaysDirect,
     NothingIsSleptOn, PTL DEF Spec, SleepsAndWakes
=============================================================================
