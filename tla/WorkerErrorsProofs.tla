------------------------- MODULE WorkerErrorsProofs -------------------------
(***************************************************************************)
(* Which errors end a worker, what a tap leaves behind, what a caller is   *)
(* told of its command and what the end of a worker is told as, for any    *)
(* set of error kinds, buttons and commands and any number of faults.      *)
(***************************************************************************)
EXTENDS WorkerErrors, SequenceTheorems, WellFoundedInduction, TLAPS

-----------------------------------------------------------------------------
(* What an error ends the worker with *)

\* What a send, or any other call of the transport, returned.
Returns(r) == r = None \/ \E kind, at : r = TransportError(kind, at)
Rejected(r) == r = None \/ \E at : r = TransportError("SendRejected", at)
EndsWith(r) == IF Fatal(r) THEN CoreTransport(r) ELSE None

LEMMA Placed ==
    ASSUME NEW result \in Results, NEW place
    PROVE  Returns(At(result, place))
<1>1. CASE result = None
  BY <1>1 DEF At, Accepted, Returns
<1>2. CASE \E kind \in SendErrors : result = TransportError(kind, "send")
  <2>1. PICK kind \in SendErrors : result = TransportError(kind, "send")
    BY <1>2
  <2>2. At(result, place) = TransportError(kind, place)
    BY <2>1 DEF At, Accepted, None, TransportError
  <2> QED
    BY <2>2 DEF Returns
<1> QED
  BY <1>1, <1>2 DEF Results, Accepted

\* A report without a tap, and a reply.
LEMMA OperationEnds ==
    ASSUME NEW r, Returns(r), r # None
    PROVE  /\ record_operation_error(PeriodicTransport(r, None)) = EndsWith(r)
           /\ record_operation_error(OutputTransport(r)) = EndsWith(r)
<1>1. PICK kind, at : r = TransportError(kind, at)
  BY DEF Returns
<1> QED
  BY <1>1 DEF record_operation_error, nonterminal_operation_error, classify_periodic_error,
              Goes, PeriodicTransport, OutputTransport, EndsWith, Fatal, Survivable,
              TransportError, None

\* A command whose one report failed.
LEMMA CommandEnds ==
    ASSUME NEW r, Returns(r), r # None
    PROVE  /\ nonterminal_command_progress(PeriodicTransport(r, None)).ends = EndsWith(r)
           /\ nonterminal_command_progress(DirectTransport(r)).ends = EndsWith(r)
           /\ map_command_error(nonterminal_command_progress(DirectTransport(r)).told) # Ok
<1>1. PICK kind, at : r = TransportError(kind, at)
  BY DEF Returns
<1>2. /\ nonterminal_command_progress(PeriodicTransport(r, None)).ends = EndsWith(r)
      /\ nonterminal_command_progress(DirectTransport(r)).ends = EndsWith(r)
  BY <1>1 DEF nonterminal_command_progress, classify_periodic_error,
              Goes, PeriodicTransport, DirectTransport, EndsWith, Fatal, Survivable,
              TransportError, None
<1>3. nonterminal_command_progress(DirectTransport(r)).told = DirectTransport(r)
  BY DEF nonterminal_command_progress, Goes, DirectTransport
<1>4. map_command_error(DirectTransport(r)) = WithSource("Internal", DirectTransport(r))
  BY DEF map_command_error, DirectTransport
<1> QED
  BY <1>2, <1>3, <1>4 DEF WithSource, Ok

\* A tap, whose press was rejected or not: the release decides.
LEMMA TapEnds ==
    ASSUME NEW first, Rejected(first), NEW second, Returns(second)
    PROVE  LET ended == TapResult(first, second)
           IN  /\ ended = Accepted => first = None /\ second = None
               /\ ended # Accepted =>
                     /\ nonterminal_command_progress(ended).ends = EndsWith(second)
                     /\ map_command_error(nonterminal_command_progress(ended).told) # Ok
               /\ ended = Accepted => EndsWith(second) = None
<1>1. CASE first = None /\ second = None
  BY <1>1 DEF TapResult, EndsWith, Fatal, Accepted
<1>2. CASE ~(first = None /\ second = None)
  <2> DEFINE error == FirstOf(first, second)
             later == IF first # None /\ Fatal(second) THEN second ELSE None
             ended == PeriodicTransport(error, later)
  <2>1. TapResult(first, second) = ended /\ ended # Accepted
    BY <1>2 DEF TapResult, PeriodicTransport, Accepted, None
  <2>2. nonterminal_command_progress(ended) = classify_periodic_error(ended)
    BY DEF nonterminal_command_progress, PeriodicTransport
  <2>3. classify_periodic_error(ended).ends = EndsWith(second)
    <3>1. CASE first = None
      <4>1. error = second /\ later = None
        BY <3>1 DEF FirstOf
      <4>2. PICK kind, at : second = TransportError(kind, at)
        BY <1>2, <3>1 DEF Returns
      <4> QED
        BY <4>1, <4>2 DEF classify_periodic_error, Goes, PeriodicTransport, EndsWith,
                          Fatal, Survivable, TransportError, None
    <3>2. CASE first # None /\ Fatal(second)
      <4>1. later = second /\ second # None
        BY <3>2 DEF Fatal
      <4> QED
        BY <3>2, <4>1 DEF classify_periodic_error, PeriodicTransport, EndsWith
    <3>3. CASE first # None /\ ~Fatal(second)
      <4>1. error = first /\ later = None
        BY <3>3 DEF FirstOf
      <4>2. PICK at : first = TransportError("SendRejected", at)
        BY <3>3 DEF Rejected
      <4> QED
        BY <3>3, <4>1, <4>2 DEF classify_periodic_error, Goes, PeriodicTransport, EndsWith,
                                Survivable, TransportError, None
    <3> QED
      BY <3>1, <3>2, <3>3
  <2>4. \E e, l : classify_periodic_error(ended).told = PeriodicTransport(e, l)
    BY DEF classify_periodic_error, Goes, PeriodicTransport
  <2>5. \A e, l : map_command_error(PeriodicTransport(e, l)) # Ok
    BY DEF map_command_error, PeriodicTransport, WithSource, Ok
  <2> HIDE DEF ended
  <2> QED
    BY <1>2, <2>1, <2>2, <2>3, <2>4, <2>5
<1> QED
  BY <1>1, <1>2

-----------------------------------------------------------------------------
(* A worker ends with the first terminal error, and meets no second one     *)

Met(error) == fatal = <<error>> /\ ending = CoreTransport(error)
Healthy == fatal = <<>> /\ ending = None
EndingInv ==
    CASE worker = "opening" -> Healthy
      [] worker = "running" -> Healthy \/ \E error : Met(error)
      [] worker = "failed" ->
            \/ fatal = <<>> /\ outcome.cause = Panicked
            \/ \E error : fatal = <<error>> /\ outcome.cause = CoreTransport(error)
      [] OTHER -> fatal = <<>> \/ \E error : fatal = <<error>>

OutcomeShape ==
    /\ worker \in {"opening", "refused", "running", "closed", "failed"}
    /\ worker \in {"opening", "refused", "running"} => outcome = Alive
    /\ worker \in {"closed", "failed"} =>
          \E cause, cleanup, panicked :
              outcome = [of |-> "Ended", cause |-> cause, cleanup |-> cleanup,
                         panicked |-> panicked]
TapShape == Rejected(tap.first_error)

\* What Direct holds is what the peer was shown.
DirectShows ==
    mode = "Direct" =>
        /\ lifecycle = "Connecting" => input = {} /\ shown = {}
        /\ Ready => input = shown

ErrorsInv == EndingInv /\ OutcomeShape /\ TapShape /\ DirectShows

LEMMA NoTapShape == Rejected(NoTap.first_error)
BY DEF NoTap, Rejected

\* A step of a running worker that met what `r` says.
LEMMA Meets ==
    ASSUME EndingInv, OutcomeShape, Running, NEW r, fatal' = Remembered(r),
           ending' = EndsWith(r), UNCHANGED <<worker, outcome>>
    PROVE  EndingInv' /\ OutcomeShape'
<1>1. worker = "running" /\ fatal = <<>>
  BY DEF Running, EndingInv, Met, Healthy, CoreTransport, None
<1>2. OutcomeShape'
  BY DEF OutcomeShape
<1>3. CASE Fatal(r)
  <2>1. fatal' = <<r>> /\ ending' = CoreTransport(r)
    BY <1>1, <1>3 DEF Remembered, EndsWith
  <2> QED
    BY <1>1, <1>2, <2>1 DEF EndingInv, Met
<1>4. CASE ~Fatal(r)
  <2>1. fatal' = <<>> /\ ending' = None
    BY <1>1, <1>4 DEF Remembered, EndsWith
  <2> QED
    BY <1>1, <1>2, <2>1 DEF EndingInv, Healthy
<1> QED
  BY <1>3, <1>4

LEMMA AcceptedEnds == EndsWith(Accepted) = None /\ Returns(Accepted)
BY DEF EndsWith, Fatal, Accepted, Returns

\* A step that meets no error and leaves the loop as it is.
LEMMA MeetsNothing ==
    ASSUME EndingInv, OutcomeShape, UNCHANGED <<worker, outcome, fatal, ending>>
    PROVE  EndingInv' /\ OutcomeShape'
BY DEF EndingInv, OutcomeShape, Healthy, Met

LEMMA OpeningKeeps ==
    ASSUME ErrorsInv, Opening
    PROVE  ErrorsInv'
<1>1. CASE Opened
  <2>1. worker = "opening" /\ worker' = "running" /\ UNCHANGED <<outcome, fatal, ending, core, mode>>
    BY <1>1 DEF Opened
  <2> QED
    BY <2>1 DEF ErrorsInv, EndingInv, OutcomeShape, TapShape, DirectShows, Healthy, core, Ready
<1>2. ASSUME worker = "opening", worker' = "refused",
             UNCHANGED <<mode, ending, core, outcome>>, NEW error, fatal' = <<error>>
      PROVE  ErrorsInv'
  BY <1>2 DEF ErrorsInv, EndingInv, OutcomeShape, TapShape, DirectShows, core, Ready
<1>3. ASSUME NEW results, NEW kind, OpenFails(kind, results) PROVE ErrorsInv'
  BY <1>2, <1>3 DEF OpenFails, Refused
<1>4. ASSUME NEW results, Unsupported(results) PROVE ErrorsInv'
  BY <1>2, <1>4 DEF Unsupported, Refused
<1>5. ASSUME NEW results, SpawnFails(results) PROVE ErrorsInv'
  BY <1>2, <1>5 DEF SpawnFails, Refused
<1> QED
  BY <1>1, <1>3, <1>4, <1>5 DEF Opening

LEMMA ConnectingKeeps ==
    ASSUME ErrorsInv, Connecting
    PROVE  ErrorsInv'
<1> PICK c \in Commands : \/ BeginRefused(c) \/ begin_connection(c)
                          \/ \E kind \in StartErrors : StartRefused(c, kind)
  BY DEF Connecting
<1>1. UNCHANGED <<mode, worker, outcome, fatal, ending, tap>>
  BY DEF BeginRefused, begin_connection, StartRefused, Connects, Gives, Unmoved, Told,
         Waits, core
<1>2. EndingInv' /\ OutcomeShape' /\ TapShape'
  BY <1>1, MeetsNothing DEF ErrorsInv, TapShape
<1>3. DirectShows'
  <2>1. CASE begin_connection(c)
    BY <2>1 DEF begin_connection, DirectShows, Ready
  <2>2. CASE ~begin_connection(c)
    <3>1. UNCHANGED core
      BY <2>2 DEF BeginRefused, StartRefused
    <3> QED
      BY <1>1, <3>1 DEF ErrorsInv, DirectShows, Ready, core
  <2> QED
    BY <2>1, <2>2
<1> QED
  BY <1>2, <1>3 DEF ErrorsInv

LEMMA CommandingKeeps ==
    ASSUME ErrorsInv, Commanding
    PROVE  ErrorsInv'
<1> PICK c \in Commands :
       \/ PeriodicRefuses(c) \/ complete_input_candidate(c) \/ DirectRefuses(c)
       \/ \E result \in Results : \/ complete_direct_send(c, At(result, c.op))
                                  \/ BeginPeriodicTap(c, At(result, "press"))
                                  \/ BeginDirectTap(c, At(result, "press"))
  BY DEF Commanding
<1>1. CASE PeriodicRefuses(c) \/ complete_input_candidate(c) \/ DirectRefuses(c)
  <2>1. /\ UNCHANGED <<mode, worker, outcome, fatal, ending, tap, lifecycle, shown>>
        /\ UNCHANGED input \/ mode = "Periodic"
    BY <1>1 DEF PeriodicRefuses, complete_input_candidate, DirectRefuses, Gives, Unmoved,
                Told, Succeeds, core
  <2>2. EndingInv' /\ OutcomeShape' /\ TapShape'
    BY <2>1, MeetsNothing DEF ErrorsInv, TapShape
  <2>3. DirectShows'
    BY <2>1 DEF ErrorsInv, DirectShows, Ready
  <2> QED
    BY <2>2, <2>3 DEF ErrorsInv
<1>2. ASSUME NEW result \in Results, complete_direct_send(c, At(result, c.op))
      PROVE  ErrorsInv'
  <2> DEFINE r == At(result, c.op)
  <2>1. Returns(r)
    BY Placed
  <2> HIDE DEF r
  <2>2. /\ Running /\ Ready /\ UNCHANGED <<mode, worker, outcome, tap, lifecycle>>
        /\ fatal' = Remembered(r)
        /\ shown' = IF r = Accepted THEN Candidate(c) ELSE shown
        /\ input' = IF r = Accepted THEN Candidate(c) ELSE input
        /\ r = Accepted => ending' = ending
        /\ r # Accepted => ending' = nonterminal_command_progress(DirectTransport(r)).ends
    BY <1>2 DEF complete_direct_send, Gives, Unmoved, Sends, Succeeds, Completes, r
  <2>3. ending' = EndsWith(r)
    BY <2>1, <2>2, CommandEnds, AcceptedEnds DEF Running, Accepted
  <2>4. EndingInv' /\ OutcomeShape'
    BY <2>2, <2>3, Meets DEF ErrorsInv
  <2> QED
    BY <2>2, <2>4 DEF ErrorsInv, TapShape, DirectShows, Ready
<1>3. ASSUME NEW result \in Results, BeginPeriodicTap(c, At(result, "press"))
      PROVE  ErrorsInv'
  <2> DEFINE r == At(result, "press")
  <2>1. Returns(r)
    BY Placed
  <2> HIDE DEF r
  <2>2. /\ Running /\ mode = "Periodic" /\ UNCHANGED <<mode, worker, outcome, lifecycle>>
        /\ fatal' = Remembered(r)
        /\ Fatal(r) => /\ UNCHANGED tap
                       /\ ending' = nonterminal_command_progress(PeriodicTransport(r, None)).ends
        /\ ~Fatal(r) => UNCHANGED ending /\ tap' = Held(c, r)
    BY <1>3 DEF BeginPeriodicTap, Gives, Unmoved, Sends, Waits, Completes, r
  <2>3. ending' = EndsWith(r)
    <3>1. CASE Fatal(r)
      BY <2>1, <2>2, <3>1, CommandEnds DEF Fatal
    <3>2. CASE ~Fatal(r)
      BY <2>2, <3>2 DEF Running, EndsWith
    <3> QED
      BY <3>1, <3>2
  <2>4. EndingInv' /\ OutcomeShape'
    BY <2>2, <2>3, Meets DEF ErrorsInv
  <2>5. TapShape'
    <3>1. CASE Fatal(r)
      BY <2>2, <3>1 DEF ErrorsInv, TapShape
    <3>2. CASE ~Fatal(r)
      <4>1. tap'.first_error = r
        BY <2>2, <3>2 DEF Held
      <4>2. Rejected(r)
        BY <2>1, <3>2 DEF Rejected, Returns, Fatal, Survivable, TransportError
      <4> QED
        BY <4>1, <4>2 DEF TapShape
    <3> QED
      BY <3>1, <3>2
  <2> QED
    BY <2>2, <2>4, <2>5 DEF ErrorsInv, DirectShows
<1>4. ASSUME NEW result \in Results, BeginDirectTap(c, At(result, "press"))
      PROVE  ErrorsInv'
  <2> DEFINE r == At(result, "press")
  <2>1. Returns(r)
    BY Placed
  <2> HIDE DEF r
  <2>2. /\ Running /\ Ready /\ UNCHANGED <<mode, worker, outcome, lifecycle>>
        /\ fatal' = Remembered(r)
        /\ shown' = IF r = Accepted THEN Candidate(c) ELSE shown
        /\ r = Accepted => UNCHANGED ending /\ tap' = Held(c, None) /\ input' = Candidate(c)
        /\ r # Accepted => /\ ending' = nonterminal_command_progress(DirectTransport(r)).ends
                           /\ UNCHANGED <<tap, input>>
    BY <1>4 DEF BeginDirectTap, Gives, Unmoved, Sends, Waits, Completes, r
  <2>3. ending' = EndsWith(r)
    BY <2>1, <2>2, CommandEnds, AcceptedEnds DEF Running, Accepted
  <2>4. EndingInv' /\ OutcomeShape'
    BY <2>2, <2>3, Meets DEF ErrorsInv
  <2>5. TapShape'
    BY <2>2 DEF ErrorsInv, TapShape, Held, Rejected
  <2> QED
    BY <2>2, <2>4, <2>5 DEF ErrorsInv, DirectShows, Ready
<1> QED
  BY <1>1, <1>2, <1>3, <1>4

LEMMA TapEndsKeep ==
    ASSUME ErrorsInv, NEW r, Returns(r), PeriodicTapEnds(r) \/ DirectTapEnds(r)
    PROVE  ErrorsInv'
<1>1. /\ Running /\ Ready /\ tap' = NoTap /\ fatal' = Remembered(r)
      /\ shown' = IF r = Accepted THEN tap.released ELSE shown
      /\ UNCHANGED <<mode, worker, outcome, lifecycle>>
  BY DEF PeriodicTapEnds, DirectTapEnds, EndsTap, Sends, Unmoved
<1>2. TapShape'
  BY <1>1, NoTapShape DEF TapShape
<1>3. CASE PeriodicTapEnds(r)
  <2> DEFINE ended == TapResult(tap.first_error, r)
  <2> HIDE DEF ended
  <2>1. /\ mode = "Periodic"
        /\ ended = Accepted => ending' = ending
        /\ ended # Accepted => ending' = nonterminal_command_progress(ended).ends
    BY <1>3 DEF PeriodicTapEnds, Succeeds, Completes, ended
  <2>2. ending' = EndsWith(r)
    BY <1>1, <2>1, TapEnds DEF ErrorsInv, TapShape, Running, ended
  <2>3. EndingInv' /\ OutcomeShape'
    BY <1>1, <2>2, Meets DEF ErrorsInv
  <2> QED
    BY <1>1, <1>2, <2>1, <2>3 DEF ErrorsInv, DirectShows
<1>4. CASE DirectTapEnds(r)
  <2>1. /\ input' = IF r = Accepted THEN tap.released ELSE input
        /\ r = Accepted => ending' = ending
        /\ r # Accepted => ending' = nonterminal_command_progress(DirectTransport(r)).ends
    BY <1>4 DEF DirectTapEnds, CommitAccepted, Succeeds, Completes
  <2>2. ending' = EndsWith(r)
    BY <1>1, <2>1, CommandEnds, AcceptedEnds DEF Running, Accepted
  <2>3. EndingInv' /\ OutcomeShape'
    BY <1>1, <2>2, Meets DEF ErrorsInv
  <2> QED
    BY <1>1, <1>2, <2>1, <2>3 DEF ErrorsInv, DirectShows, Ready
<1> QED
  BY <1>3, <1>4

\* A report that no command asked for shows what is held, or nothing before the
\* link is ready.
LEMMA BackgroundKeeps ==
    ASSUME ErrorsInv, NEW r, Returns(r), NEW candidate, NEW error,
           Background(r, candidate, error),
           r # None => record_operation_error(error) = EndsWith(r),
           mode = "Direct" => /\ lifecycle = "Connecting" => candidate = {}
                              /\ Ready => candidate = shown
    PROVE  ErrorsInv'
<1>1. /\ Running /\ UNCHANGED <<mode, worker, outcome, lifecycle, tap, input>>
      /\ fatal' = Remembered(r)
      /\ shown' = IF r = Accepted THEN candidate ELSE shown
      /\ ending' = IF r = Accepted THEN None ELSE record_operation_error(error)
  BY DEF Background, Sends, Unmoved
<1>2. ending' = EndsWith(r)
  BY <1>1, AcceptedEnds DEF Accepted
<1>3. EndingInv' /\ OutcomeShape'
  BY <1>1, <1>2, Meets DEF ErrorsInv
<1> QED
  BY <1>1, <1>3 DEF ErrorsInv, TapShape, DirectShows, Ready

LEMMA DueKeeps ==
    ASSUME ErrorsInv, Due
    PROVE  ErrorsInv'
<1>1. ASSUME NEW result \in Results, PeriodicTapEnds(At(result, "release"))
                                     \/ DirectTapEnds(At(result, "release"))
      PROVE  ErrorsInv'
  BY <1>1, Placed, TapEndsKeep
<1>2. ASSUME NEW result \in Results, send_due(At(result, "report")) PROVE ErrorsInv'
  <2> DEFINE r == At(result, "report")
  <2>1. Returns(r)
    BY Placed
  <2>2. /\ mode = "Periodic"
        /\ Background(r, input, PeriodicTransport(r, None))
    BY <1>2 DEF send_due
  <2> HIDE DEF r
  <2> QED
    BY <2>1, <2>2, OperationEnds, BackgroundKeeps
<1> QED
  BY <1>1, <1>2 DEF Due

\* A session ends.
LEMMA EndsKeeps ==
    ASSUME ErrorsInv, NEW by, Ends(by), UNCHANGED ending
    PROVE  ErrorsInv'
<1>1. lifecycle' = "Open" /\ tap' = NoTap /\ UNCHANGED <<mode, worker, outcome, fatal>>
  BY DEF Ends, Unmoved
<1>2. EndingInv' /\ OutcomeShape'
  BY <1>1, MeetsNothing DEF ErrorsInv
<1>3. TapShape'
  BY <1>1, NoTapShape DEF TapShape
<1> QED
  BY <1>1, <1>2, <1>3 DEF ErrorsInv, DirectShows, Ready

LEMMA DrivingKeeps ==
    ASSUME ErrorsInv, Driving
    PROVE  ErrorsInv'
<1>1. CASE MarkReady
  <2>1. /\ lifecycle = "Connecting"
        /\ UNCHANGED <<mode, worker, outcome, fatal, ending, tap, input, shown>>
    BY <1>1 DEF MarkReady, Succeeds, Unmoved
  <2>2. EndingInv' /\ OutcomeShape' /\ TapShape'
    BY <2>1, MeetsNothing DEF ErrorsInv, TapShape
  <2>3. DirectShows'
    BY <2>1 DEF ErrorsInv, DirectShows, Ready
  <2> QED
    BY <2>2, <2>3 DEF ErrorsInv
<1>2. CASE TimesOut
  BY <1>2, EndsKeeps DEF TimesOut, Told
<1>3. ASSUME NEW result \in Results, Bootstrap(At(result, "bootstrap")) PROVE ErrorsInv'
  <2> DEFINE r == At(result, "bootstrap")
  <2>1. Returns(r)
    BY Placed
  <2>2. /\ lifecycle = "Connecting"
        /\ Background(r, {}, OutputTransport(r))
    BY <1>3 DEF Bootstrap
  <2> HIDE DEF r
  <2> QED
    BY <2>1, <2>2, OperationEnds, BackgroundKeeps DEF Ready
<1> QED
  BY <1>1, <1>2, <1>3 DEF Driving

LEMMA EventsKeep ==
    ASSUME ErrorsInv, Events
    PROVE  ErrorsInv'
<1>1. CASE LinkUp
  <2>1. UNCHANGED <<mode, worker, outcome, fatal, ending, lifecycle, tap, input, shown>>
    BY <1>1 DEF LinkUp, Unmoved
  <2>2. EndingInv' /\ OutcomeShape'
    BY <2>1, MeetsNothing DEF ErrorsInv
  <2> QED
    BY <2>1, <2>2 DEF ErrorsInv, TapShape, DirectShows, Ready
<1>2. CASE Disconnect
  BY <1>2, EndsKeeps DEF Disconnect, Told
<1>3. CASE Malformed
  <2>1. record_operation_error(OutputProtocol) = None
    BY DEF record_operation_error, nonterminal_operation_error, Goes, OutputProtocol
  <2>2. UNCHANGED <<mode, worker, outcome, fatal, ending, lifecycle, tap, input, shown>>
    BY <1>3, <2>1 DEF Malformed, Running, Unmoved, core
  <2>3. EndingInv' /\ OutcomeShape'
    BY <2>2, MeetsNothing DEF ErrorsInv
  <2> QED
    BY <2>2, <2>3 DEF ErrorsInv, TapShape, DirectShows, Ready
<1>4. ASSUME NEW result \in Results, Reply(At(result, "reply")) PROVE ErrorsInv'
  <2> DEFINE r == At(result, "reply")
  <2>1. Returns(r)
    BY Placed
  <2>2. Background(r, shown, OutputTransport(r))
    BY <1>4 DEF Reply
  <2>3. mode = "Direct" /\ lifecycle = "Connecting" => shown = {}
    BY DEF ErrorsInv, DirectShows
  <2> HIDE DEF r
  <2> QED
    BY <2>1, <2>2, <2>3, OperationEnds, BackgroundKeeps
<1>5. ASSUME NEW kind, PollFails(kind) PROVE ErrorsInv'
  <2> DEFINE error == TransportError(kind, "poll")
  <2> HIDE DEF error
  <2>1. /\ Running /\ ending' = CoreTransport(error) /\ fatal' = Append(fatal, error)
        /\ UNCHANGED <<mode, worker, outcome, lifecycle, tap, input, shown>>
    BY <1>5 DEF PollFails, Unmoved, core, error
  <2>2. worker = "running" /\ fatal = <<>>
    BY <2>1 DEF ErrorsInv, EndingInv, Running, Healthy, Met, CoreTransport, None
  <2>3. fatal' = <<error>>
    BY <2>1, <2>2
  <2>4. EndingInv'
    BY <2>1, <2>2, <2>3 DEF EndingInv, Met
  <2> QED
    BY <2>1, <2>4 DEF ErrorsInv, OutcomeShape, TapShape, DirectShows, Ready
<1> QED
  BY <1>1, <1>2, <1>3, <1>4, <1>5 DEF Events

\* The loop is left: for a close, with an error the step met, or in a panic.
LEMMA LeavesKeeps ==
    ASSUME ErrorsInv, worker = "running", NEW cause, NEW results, NEW cleanup,
           Leaves(cause, results, cleanup),
           \/ cause = None
           \/ cause = ending /\ ending # None
           \/ cause = Panicked /\ ending = None
    PROVE  ErrorsInv'
<1>1. /\ worker' = IF cause = None THEN "closed" ELSE "failed"
      /\ outcome' = [of |-> "Ended", cause |-> cause, cleanup |-> cleanup,
                     panicked |-> cause = Panicked]
      /\ lifecycle' = "Closed" /\ tap' = NoTap /\ UNCHANGED <<mode, fatal>>
  BY DEF Leaves
<1> DEFINE panicked == cause = Panicked
<1>2. OutcomeShape' /\ outcome'.cause = cause
  <2> HIDE DEF panicked
  <2>1. outcome' = [of |-> "Ended", cause |-> cause, cleanup |-> cleanup,
                    panicked |-> panicked]
    BY <1>1 DEF panicked
  <2>2. outcome'.cause = cause
    BY <2>1
  <2>3. worker' \in {"closed", "failed"}
    BY <1>1
  <2> QED
    BY <2>1, <2>2, <2>3 DEF OutcomeShape
<1>3. EndingInv'
  <2>1. CASE cause = None
    BY <1>1, <2>1 DEF ErrorsInv, EndingInv, Healthy, Met
  <2>2. CASE cause = ending /\ ending # None
    BY <1>1, <1>2, <2>2 DEF ErrorsInv, EndingInv, Healthy, Met
  <2>3. CASE cause = Panicked /\ ending = None
    <3>1. fatal = <<>>
      BY <2>3 DEF ErrorsInv, EndingInv, Healthy, Met, CoreTransport, None
    <3>2. worker' = "failed"
      BY <1>1, <2>3 DEF Panicked, None
    <3> QED
      BY <1>1, <1>2, <2>3, <3>1, <3>2 DEF EndingInv
  <2> QED
    BY <2>1, <2>2, <2>3
<1>4. TapShape' /\ DirectShows'
  BY <1>1, NoTapShape DEF TapShape, DirectShows, Ready
<1> QED
  BY <1>2, <1>3, <1>4 DEF ErrorsInv

LEMMA EndingKeeps ==
    ASSUME ErrorsInv, Ending
    PROVE  ErrorsInv'
<1>1. ASSUME NEW r, Request(r) PROVE ErrorsInv'
  <2>1. UNCHANGED <<mode, worker, outcome, fatal, ending, core>>
    BY <1>1 DEF Request
  <2>2. EndingInv' /\ OutcomeShape'
    BY <2>1, MeetsNothing DEF ErrorsInv
  <2> QED
    BY <2>1, <2>2 DEF ErrorsInv, TapShape, DirectShows, Ready, core
<1>2. CASE Close
  BY <1>2, LeavesKeeps DEF Close
<1>3. CASE Fail
  BY <1>3, LeavesKeeps DEF Fail
<1>4. CASE Panics
  BY <1>4, LeavesKeeps DEF Panics, Running
<1>5. CASE TeardownPanics
  <2>1. /\ outcome # Alive /\ outcome' = [outcome EXCEPT !.panicked = TRUE]
        /\ UNCHANGED <<mode, worker, fatal, ending, core>>
    BY <1>5 DEF TeardownPanics
  <2>2. PICK cause, cleanup, panicked :
            outcome = [of |-> "Ended", cause |-> cause, cleanup |-> cleanup,
                       panicked |-> panicked]
    BY <2>1 DEF ErrorsInv, OutcomeShape
  <2>3. outcome' = [of |-> "Ended", cause |-> cause, cleanup |-> cleanup,
                    panicked |-> TRUE]
    BY <2>1, <2>2
  <2>4. worker \in {"closed", "failed"}
    BY <2>1 DEF ErrorsInv, OutcomeShape
  <2>5. OutcomeShape'
    BY <2>1, <2>3, <2>4 DEF OutcomeShape
  <2>6. EndingInv'
    BY <2>1, <2>2, <2>3, <2>4 DEF ErrorsInv, EndingInv
  <2> QED
    BY <2>1, <2>5, <2>6 DEF ErrorsInv, TapShape, DirectShows, Ready, core
<1> QED
  BY <1>1, <1>2, <1>3, <1>4, <1>5 DEF Ending

LEMMA ErrorsInit == Init => ErrorsInv
<1> SUFFICES ASSUME Init PROVE ErrorsInv
  OBVIOUS
<1>1. EndingInv /\ OutcomeShape
  BY DEF Init, EndingInv, OutcomeShape, Healthy
<1>2. TapShape /\ DirectShows
  BY NoTapShape DEF Init, TapShape, DirectShows, Ready
<1> QED
  BY <1>1, <1>2 DEF ErrorsInv

LEMMA ErrorsStep ==
    ASSUME ErrorsInv, [Next]_vars
    PROVE  ErrorsInv'
<1>1. CASE Gone \/ UNCHANGED vars
  <2>1. UNCHANGED <<mode, worker, outcome, fatal, ending, core>>
    BY <1>1 DEF Gone, vars
  <2>2. EndingInv' /\ OutcomeShape'
    BY <2>1, MeetsNothing DEF ErrorsInv
  <2> QED
    BY <2>1, <2>2 DEF ErrorsInv, TapShape, DirectShows, Ready, core
<1> QED
  BY <1>1, OpeningKeeps, ConnectingKeeps, CommandingKeeps, DueKeeps, DrivingKeeps,
     EventsKeep, EndingKeeps DEF Next

LEMMA AlwaysErrors == Spec => []ErrorsInv
BY ErrorsInit, ErrorsStep, PTL DEF Spec

\* A terminal transport error ends the worker that met it, as the cause of its
\* end, and nothing else does but a panic; no worker meets a second one.
THEOREM TerminalErrorsEnd == Spec => []FatalErrorsEnd
<1>1. ErrorsInv => FatalErrorsEnd
  <2> SUFFICES ASSUME ErrorsInv PROVE FatalErrorsEnd
    OBVIOUS
  <2>1. fatal = <<>> \/ \E error : fatal = <<error>>
    BY DEF ErrorsInv, EndingInv, Healthy, Met
  <2>2. Len(fatal) <= 1
    BY <2>1
  <2>3. ASSUME worker = "running"
        PROVE  /\ ending # None <=> fatal # <<>>
               /\ fatal # <<>> => ending = CoreTransport(fatal[1])
    <3>1. CASE Healthy
      BY <3>1 DEF Healthy
    <3>2. ASSUME NEW error, Met(error)
          PROVE  /\ ending # None <=> fatal # <<>>
                 /\ fatal # <<>> => ending = CoreTransport(fatal[1])
      <4>1. fatal = <<error>> /\ ending = CoreTransport(error) /\ fatal[1] = error
        BY <3>2 DEF Met
      <4> QED
        BY <4>1 DEF CoreTransport, None
    <3> QED
      BY <2>3, <3>1, <3>2 DEF ErrorsInv, EndingInv
  <2>4. ASSUME worker = "failed"
        PROVE  \/ outcome.cause = Panicked
               \/ fatal # <<>> /\ outcome.cause = CoreTransport(fatal[1])
    <3>1. ASSUME NEW error, fatal = <<error>>, outcome.cause = CoreTransport(error)
          PROVE  fatal # <<>> /\ outcome.cause = CoreTransport(fatal[1])
      <4>1. fatal # <<>> /\ fatal[1] = error
        BY <3>1
      <4> QED
        BY <3>1, <4>1
    <3> QED
      BY <2>4, <3>1 DEF ErrorsInv, EndingInv
  <2> QED
    BY <2>2, <2>3, <2>4 DEF FatalErrorsEnd
<1> QED
  BY <1>1, AlwaysErrors, PTL

-----------------------------------------------------------------------------
(* What a tap leaves behind                                                 *)

LetsGo ==
    has_pending /\ ~has_pending' /\ worker' = "running" /\ lifecycle' = "Ready" =>
        /\ answer' = Ok => input' = tap.released /\ shown' = tap.released
        /\ mode = "Periodic" => input' = tap.released
        /\ mode = "Direct" => input' = shown'

LEMMA TapEndLetsGo ==
    ASSUME ErrorsInv, NEW r, Returns(r), PeriodicTapEnds(r) \/ DirectTapEnds(r)
    PROVE  LetsGo
<1>1. Ready /\ shown' = IF r = Accepted THEN tap.released ELSE shown
  BY DEF PeriodicTapEnds, DirectTapEnds, EndsTap, Sends
<1>2. CASE PeriodicTapEnds(r)
  <2> DEFINE ended == TapResult(tap.first_error, r)
  <2> HIDE DEF ended
  <2>1. /\ mode = "Periodic" /\ input' = tap.released
        /\ ended # Accepted => answer' = map_command_error(nonterminal_command_progress(ended).told)
    BY <1>2 DEF PeriodicTapEnds, CommitReleased, Completes, Answers, ended
  <2>2. answer' = Ok => r = Accepted
    BY <2>1, TapEnds DEF ErrorsInv, TapShape, Accepted, ended
  <2> QED
    BY <1>1, <2>1, <2>2 DEF LetsGo
<1>3. CASE DirectTapEnds(r)
  <2>1. /\ mode = "Direct" /\ input' = IF r = Accepted THEN tap.released ELSE input
        /\ r # Accepted =>
              answer' = map_command_error(nonterminal_command_progress(DirectTransport(r)).told)
    BY <1>3 DEF DirectTapEnds, CommitAccepted, Completes, Answers
  <2>2. answer' = Ok => r = Accepted
    BY <2>1, CommandEnds DEF Accepted
  <2>3. input = shown
    BY <1>1, <2>1 DEF ErrorsInv, DirectShows
  <2> QED
    BY <1>1, <2>1, <2>2, <2>3 DEF LetsGo
<1> QED
  BY <1>2, <1>3

LEMMA HeldIsPending == ASSUME NEW c, ~Invalid(c), c.op = "tap", NEW error
                       PROVE  Held(c, error) # NoTap
<1>1. Held(c, error).held = c.buttons
  BY DEF Held
<1>2. NoTap.held = {}
  BY DEF NoTap
<1>3. c.buttons # {}
  BY DEF Invalid
<1> QED
  BY <1>1, <1>2, <1>3

LEMMA StepLetsGo ==
    ASSUME ErrorsInv, [Next]_vars
    PROVE  LetsGo
<1>1. ASSUME UNCHANGED tap \/ (has_pending => has_pending')
             \/ worker' # "running" \/ lifecycle' # "Ready"
      PROVE  LetsGo
  BY <1>1 DEF LetsGo, has_pending
<1>2. CASE Opening \/ Connecting
  BY <1>1, <1>2 DEF Opening, OpenFails, Unsupported, SpawnFails, Refused, Opened, core,
                    Connecting, BeginRefused, begin_connection, StartRefused
<1>3. CASE Commanding
  <2>1. ASSUME NEW c \in Commands, NEW result \in Results,
               \/ BeginPeriodicTap(c, At(result, "press"))
               \/ BeginDirectTap(c, At(result, "press"))
        PROVE  LetsGo
    <3>1. UNCHANGED tap \/ \E error : tap' = Held(c, error)
      BY <2>1 DEF BeginPeriodicTap, BeginDirectTap
    <3>2. c.op = "tap" /\ ~Invalid(c)
      BY <2>1 DEF BeginPeriodicTap, BeginDirectTap
    <3>3. UNCHANGED tap \/ has_pending'
      BY <3>1, <3>2, HeldIsPending DEF has_pending
    <3> QED
      BY <1>1, <3>3
  <2>2. ASSUME NEW c \in Commands, NEW result \in Results,
               complete_direct_send(c, At(result, c.op))
        PROVE  LetsGo
    BY <1>1, <2>2 DEF complete_direct_send
  <2>3. ASSUME NEW c \in Commands,
               PeriodicRefuses(c) \/ complete_input_candidate(c) \/ DirectRefuses(c)
        PROVE  LetsGo
    BY <1>1, <2>3 DEF PeriodicRefuses, complete_input_candidate, DirectRefuses, core
  <2> QED
    BY <1>3, <2>1, <2>2, <2>3 DEF Commanding
<1>4. CASE Due
  <2>1. ASSUME NEW result \in Results, send_due(At(result, "report")) PROVE LetsGo
    BY <1>1, <2>1 DEF send_due, Background
  <2> QED
    BY <1>4, <2>1, Placed, TapEndLetsGo DEF Due
<1>5. CASE Driving
  BY <1>1, <1>5 DEF Driving, MarkReady, TimesOut, Ends, Bootstrap, Background
<1>6. CASE Events
  BY <1>1, <1>6 DEF Events, LinkUp, Disconnect, Ends, Malformed, core, Reply, Background,
                    PollFails
<1>7. CASE Ending
  BY <1>1, <1>7 DEF Ending, Request, core, Close, Fail, Panics, Leaves, TeardownPanics
<1>8. CASE Gone \/ UNCHANGED vars
  BY <1>1, <1>8 DEF Gone, vars, core
<1> QED
  BY <1>2, <1>3, <1>4, <1>5, <1>6, <1>7, <1>8 DEF Next

\* However a tap ends with its link still up, it lets go of its buttons, and a
\* caller who is told Ok has shown the release to the peer.
THEOREM TapsLetGo == Spec => TapLetsGo
<1>1. ErrorsInv /\ [Next]_vars => [LetsGo]_vars
  BY StepLetsGo
<1>2. LetsGo <=> (has_pending /\ ~has_pending' /\ worker' = "running" /\ lifecycle' = "Ready" =>
         /\ answer' = Ok => input' = tap.released /\ shown' = tap.released
         /\ mode = "Periodic" => input' = tap.released
         /\ mode = "Direct" => input' = shown')
  BY DEF LetsGo
<1> QED
  BY <1>1, <1>2, AlwaysErrors, PTL DEF TapLetsGo, Spec

-----------------------------------------------------------------------------
(* The first of some failures                                               *)

Listed(results) == \E n \in Nat : DOMAIN results = 1..n

\* Numbers have a least one.
LEMMA LeastOf ==
    ASSUME NEW S \in SUBSET Nat, S # {}
    PROVE  Min(S) \in S /\ \A i \in S : Min(S) <= i
<1>1. IsWellFoundedOn(OpToRel(<, Nat), Nat)
  BY NatLessThanWellFounded
<1>2. \E x \in S : \A y \in S : ~(<<y, x>> \in OpToRel(<, Nat))
  BY <1>1, WFMin
<1>3. \A x, y \in Nat : y < x => <<y, x>> \in OpToRel(<, Nat)
  BY DEF OpToRel
<1>4. \E x \in S : \A y \in S : x <= y
  <2>1. PICK x \in S : \A y \in S : ~(<<y, x>> \in OpToRel(<, Nat))
    BY <1>2
  <2>2. \A y \in S : x \in Nat /\ y \in Nat /\ ~(y < x)
    BY <1>3, <2>1
  <2>3. \A y \in S : x <= y
    BY <2>2
  <2> QED
    BY <2>3
<1> QED
  BY <1>4 DEF Min

LEMMA FirstFails ==
    ASSUME NEW results, Listed(results), Failing(results) # {}
    PROVE  LET i == Min(Failing(results))
           IN  i \in DOMAIN results /\ results[i] # None
<1>1. Failing(results) \in SUBSET Nat
  BY DEF Listed, Failing
<1>2. Min(Failing(results)) \in Failing(results)
  BY <1>1, LeastOf
<1> QED
  BY <1>2 DEF Failing

LEMMA FirstOfOne ==
    ASSUME NEW error, error # None
    PROVE  First(<<error>>) = <<error>>
<1>1. Failing(<<error>>) = {1} /\ <<error>>[1] = error
  BY DEF Failing
<1>2. Min({1}) = 1
  BY LeastOf
<1> QED
  BY <1>1, <1>2 DEF First

LEMMA FirstOfNone == First(<<>>) = <<>> /\ record_first_failure(<<>>) = None
<1>1. Failing(<<>>) = {}
  BY DEF Failing
<1> QED
  BY <1>1 DEF First, record_first_failure

-----------------------------------------------------------------------------
(* Where the chain of sources of an answer ends                             *)

IsError(r) == \E kind, at : r = TransportError(kind, at)

\* A failure below, alone or wrapped once, is the root cause of its error.
LEMMA Roots1 ==
    ASSUME NEW r, IsError(r), NEW kind
    PROVE  /\ r # None /\ source(r) = None
           /\ RootCause(WithSource(kind, r)) = r
           /\ RootCause(WithSource(kind, DirectTransport(r))) = r
           /\ \A later : RootCause(WithSource(kind, PeriodicTransport(r, later))) = r
           /\ RootCause(WithSource(kind, CleanupFailure(r))) = r
<1>1. PICK k, at : r = TransportError(k, at)
  BY DEF IsError
<1>2. r # None /\ r.of = "TransportError"
  BY <1>1 DEF TransportError, None
<1>3. source(r) = None
  BY <1>2 DEF source
<1>4. \A e : source(WithSource(kind, e)) = e
  BY DEF source, WithSource
<1>5. /\ source(DirectTransport(r)) = r /\ DirectTransport(r) # None
      /\ \A later : source(PeriodicTransport(r, later)) = r /\ PeriodicTransport(r, later) # None
      /\ source(CleanupFailure(r)) = r /\ CleanupFailure(r) # None
  BY DEF source, DirectSource, DirectTransport, PeriodicSource, PeriodicTransport,
         CleanupSource, CleanupFailure, None
<1> QED
  BY <1>2, <1>3, <1>4, <1>5 DEF RootCause

LEMMA NoRoot == ASSUME NEW kind PROVE RootCause(New(kind)) = None
BY DEF RootCause, New, WithSource, source, None

-----------------------------------------------------------------------------
(* What each answer explains                                                *)

\* CallersAreTold of an answer that was given.
Explains(told, errors, by) ==
    /\ told # Waiting
    /\ told = Ok => errors = <<>>
    /\ told.of = "Error" /\ errors # <<>> /\ by = "no" => RootCause(told) = errors[1]
    /\ told.of = "Error" /\ errors = <<>> /\ by = "no" =>
            told.kind \in {"InvalidInput", "TransportClosed", "WorkerFailed"}
    /\ by # "no" => told.of = "Error" /\
            told.kind \in CASE by = "timeout" -> {"ConnectionTimeout"}
                            [] by = "link" -> {"ConnectionFailed", "Internal"}
                            [] by = "shutdown" -> {"Shutdown"}
                            [] by = "worker" -> {"WorkerFailed", "InvalidKeyStore"}

LEMMA OkExplains == Explains(Ok, <<>>, "no")
BY DEF Explains, Ok, Waiting

LEMMA ErrorShape ==
    ASSUME NEW kind, NEW cause
    PROVE  LET error == WithSource(kind, cause)
           IN  error # Waiting /\ error # Ok /\ error.of = "Error" /\ error.kind = kind
BY DEF WithSource, Waiting, Ok

\* An error that leads to the first failure the command met.
LEMMA RootExplains ==
    ASSUME NEW told, told # Waiting, told # Ok, told.of = "Error", NEW errors,
           errors # <<>>, RootCause(told) = errors[1]
    PROVE  Explains(told, errors, "no")
BY DEF Explains

\* An error without a failure below it.
LEMMA KindExplains ==
    ASSUME NEW kind \in {"InvalidInput", "TransportClosed", "WorkerFailed"}, NEW cause
    PROVE  Explains(WithSource(kind, cause), <<>>, "no")
BY ErrorShape DEF Explains

LEMMA StartRefusalExplains ==
    ASSUME NEW error, IsError(error), NEW command_kind
    PROVE  Explains(map_command_error(Connection(command_kind, Begin(CoreTransport(error)))),
                    Only(error), "no")
<1> DEFINE failure_ == Begin(CoreTransport(error))
<1>1. map_command_error(Connection(command_kind, failure_)) = map_connection_error(command_kind, failure_)
  BY DEF map_command_error, Connection
<1>2. map_worker_core_error(CoreTransport(error)).source = error
  BY DEF map_worker_core_error, WithSource, CoreTransport
<1>3. \E kind : map_connection_error(command_kind, failure_) = WithSource(kind, error)
  BY <1>2 DEF map_connection_error, Begin
<1>4. Only(error) = <<error>> /\ <<error>> # <<>> /\ <<error>>[1] = error
  BY Roots1 DEF Only
<1>5. PICK kind : map_command_error(Connection(command_kind, failure_)) = WithSource(kind, error)
  BY <1>1, <1>3
<1>6. Explains(WithSource(kind, error), <<error>>, "no")
  BY <1>4, Roots1, ErrorShape, RootExplains
<1> QED
  BY <1>4, <1>5, <1>6

LEMMA BeginRefusalExplains ==
    ASSUME NEW command_kind
    PROVE  Explains(map_command_error(Connection(command_kind, Begin(InvalidLifecycle))),
                    <<>>, "no")
<1> DEFINE failure_ == Begin(InvalidLifecycle)
<1>1. map_command_error(Connection(command_kind, failure_)) = map_connection_error(command_kind, failure_)
  BY DEF map_command_error, Connection
<1>2. CoreKind(InvalidLifecycle) = Kinds!InvalidLifecycle
  BY DEF CoreKind, InvalidLifecycle
<1>3. Kinds!map_connection_error(command_kind, Kinds!Begin(Kinds!InvalidLifecycle)) = "WorkerFailed"
  BY DEF Kinds!map_connection_error, Kinds!Begin, Kinds!InvalidLifecycle,
         Kinds!map_worker_core_error, Kinds!Transport
<1>4. \E cause : map_connection_error(command_kind, failure_) = WithSource("WorkerFailed", cause)
  BY <1>2, <1>3 DEF map_connection_error, Begin
<1>5. PICK cause : map_command_error(Connection(command_kind, failure_))
                    = WithSource("WorkerFailed", cause)
  BY <1>1, <1>4
<1>6. Explains(WithSource("WorkerFailed", cause), <<>>, "no")
  BY KindExplains
<1> QED
  BY <1>5, <1>6

LEMMA RefusalsExplain ==
    /\ Explains(map_command_error(Input), <<>>, "no")
    /\ Explains(map_command_error(PeriodicNotReady), <<>>, "no")
    /\ Explains(map_command_error(DirectNotReady), <<>>, "no")
<1>1. /\ map_command_error(Input) = WithSource("InvalidInput", None)
      /\ map_command_error(PeriodicNotReady) = WithSource("TransportClosed", None)
      /\ map_command_error(DirectNotReady) = WithSource("TransportClosed", None)
  BY DEF map_command_error, Input, PeriodicNotReady, DirectNotReady, New
<1> QED
  BY <1>1, KindExplains

LEMMA DirectSendExplains ==
    ASSUME NEW r, IsError(r)
    PROVE  Explains(map_command_error(nonterminal_command_progress(DirectTransport(r)).told),
                    <<r>>, "no")
<1>1. nonterminal_command_progress(DirectTransport(r)).told = DirectTransport(r)
  BY DEF nonterminal_command_progress, Goes, DirectTransport
<1>2. map_command_error(DirectTransport(r)) = WithSource("Internal", DirectTransport(r))
  BY DEF map_command_error, DirectTransport
<1>3. <<r>> # <<>> /\ <<r>>[1] = r
  OBVIOUS
<1> QED
  BY <1>1, <1>2, <1>3, Roots1, ErrorShape, RootExplains

LEMMA PeriodicSendExplains ==
    ASSUME NEW r, IsError(r), NEW later, NEW errors, errors # <<>>, errors[1] = r
    PROVE  Explains(map_command_error(
                        nonterminal_command_progress(PeriodicTransport(r, later)).told),
                    errors, "no")
<1>1. \E l : nonterminal_command_progress(PeriodicTransport(r, later)).told = PeriodicTransport(r, l)
  BY DEF nonterminal_command_progress, classify_periodic_error, Goes, PeriodicTransport
<1>2. \A l : map_command_error(PeriodicTransport(r, l))
             = WithSource("Internal", PeriodicTransport(r, l))
  BY DEF map_command_error, PeriodicTransport
<1> QED
  BY <1>1, <1>2, Roots1, ErrorShape, RootExplains

\* What a command hears that is cut short.
LEMMA CutsExplain ==
    ASSUME NEW errors
    PROVE  /\ \A k : Explains(map_command_error(Connection(k, Readiness("TimedOut"))),
                              errors, "timeout")
           /\ \A k : Explains(map_command_error(Connection(k, Readiness("Disconnected"))),
                              errors, "link")
           /\ Explains(map_command_error(Disconnected), errors, "link")
           /\ Explains(map_command_error(DirectInterrupted("Disconnected")), errors, "link")
           /\ Explains(map_command_error(Shutdown), errors, "shutdown")
           /\ Explains(map_command_error(DirectInterrupted("Shutdown")), errors, "shutdown")
           /\ \A k : \A at \in {"WorkerFailed", "InvalidKeyStore"} :
                Explains(map_command_error(Connection(k, ConnectionEnds(at))), errors, "worker")
           /\ Explains(map_response_error, errors, "worker")
<1>1. \A k, e : map_command_error(Connection(k, e)) = map_connection_error(k, e)
  BY DEF map_command_error, Connection
<1>2. \A k : \E cause : map_connection_error(k, Readiness("TimedOut"))
                        = WithSource("ConnectionTimeout", cause)
  BY DEF map_connection_error, Readiness, Kinds!map_connection_readiness_error
<1>3. \A k : \E cause : map_connection_error(k, Readiness("Disconnected"))
                        = WithSource("ConnectionFailed", cause)
  BY DEF map_connection_error, Readiness, Kinds!map_connection_readiness_error
<1>4. \A k : /\ map_connection_error(k, ConnectionEnds("WorkerFailed"))
                = WithSource("WorkerFailed", None)
             /\ map_connection_error(k, ConnectionEnds("InvalidKeyStore"))
                = WithSource("InvalidKeyStore", None)
  BY DEF map_connection_error, ConnectionEnds, New
<1>5. /\ map_command_error(Disconnected) = WithSource("Internal", None)
      /\ map_command_error(DirectInterrupted("Disconnected"))
         = WithSource("Internal", DirectInterrupted("Disconnected"))
      /\ map_command_error(Shutdown) = WithSource("Shutdown", None)
      /\ map_command_error(DirectInterrupted("Shutdown")) = WithSource("Shutdown", None)
      /\ map_response_error = WithSource("WorkerFailed", None)
  BY DEF map_command_error, Disconnected, DirectInterrupted, Shutdown, New, map_response_error
<1>6. \A cause : /\ Explains(WithSource("ConnectionTimeout", cause), errors, "timeout")
                 /\ Explains(WithSource("ConnectionFailed", cause), errors, "link")
                 /\ Explains(WithSource("Internal", cause), errors, "link")
                 /\ Explains(WithSource("Shutdown", cause), errors, "shutdown")
                 /\ Explains(WithSource("WorkerFailed", cause), errors, "worker")
                 /\ Explains(WithSource("InvalidKeyStore", cause), errors, "worker")
  BY ErrorShape DEF Explains
<1> QED
  BY <1>1, <1>2, <1>3, <1>4, <1>5, <1>6

-----------------------------------------------------------------------------
(* A command in flight, and the answer to one that is not                   *)

FlightInv ==
    /\ mode \in Modes
    /\ lifecycle = "Connecting" <=> pending # "none"
    /\ has_pending => Ready
    /\ command # Idle <=> pending # "none" \/ has_pending
    /\ mode = "Direct" => tap.first_error = None

AnswerInv ==
    /\ worker = "opening" =>
          command = Idle /\ answer = Waiting /\ met = <<>> /\ cut = "no"
    /\ command # Idle => answer = Waiting /\ cut = "no" /\ met = Only(tap.first_error)
    /\ command = Idle /\ worker # "opening" => Explains(answer, met, cut)

CallInv == FlightInv /\ AnswerInv

LEMMA CallersHear == CallInv => CallersAreTold
<1> SUFFICES ASSUME CallInv PROVE CallersAreTold
  OBVIOUS
<1>1. CASE command # Idle \/ worker = "opening"
  <2>1. answer = Waiting /\ cut = "no" /\ (worker = "opening" => command = Idle)
    BY <1>1 DEF CallInv, AnswerInv
  <2>2. command = Idle => met = <<>>
    BY <1>1 DEF CallInv, AnswerInv
  <2> QED
    BY <1>1, <2>1, <2>2 DEF CallersAreTold, Waiting, Ok
<1>2. CASE command = Idle /\ worker # "opening"
  BY <1>2 DEF CallInv, AnswerInv, Explains, CallersAreTold
<1> QED
  BY <1>1, <1>2

\* A step that no command notices.
LEMMA Unnoticed ==
    ASSUME CallInv, UNCHANGED <<mode, worker, lifecycle, pending, tap>>,
           UNCHANGED <<command, answer, met, cut>>
    PROVE  CallInv'
<1>1. FlightInv'
  BY DEF CallInv, FlightInv, has_pending, Ready
<1>2. AnswerInv'
  BY DEF CallInv, AnswerInv
<1> QED
  BY <1>1, <1>2 DEF CallInv

\* A step after which no command is in flight.
LEMMA Answered ==
    ASSUME CallInv, command' = Idle, UNCHANGED mode, worker' # "opening",
           Explains(answer', met', cut'),
           pending' = "none", tap' = NoTap, lifecycle' # "Connecting"
    PROVE  CallInv'
<1>1. FlightInv'
  BY DEF CallInv, FlightInv, has_pending, NoTap
<1>2. AnswerInv'
  BY DEF AnswerInv
<1> QED
  BY <1>1, <1>2 DEF CallInv

\* Nothing is pending between commands.
LEMMA NothingPends ==
    ASSUME CallInv, command = Idle
    PROVE  pending = "none" /\ tap = NoTap /\ lifecycle # "Connecting"
BY DEF CallInv, FlightInv, has_pending

LEMMA OpeningTells ==
    ASSUME CallInv, Opening
    PROVE  CallInv'
<1>1. ASSUME Opened PROVE CallInv'
  <2>1. /\ worker = "opening" /\ worker' = "running" /\ answer' = Ok
        /\ UNCHANGED <<mode, core, command, met, cut>>
    BY <1>1 DEF Opened
  <2>2. command = Idle /\ met = <<>> /\ cut = "no"
    BY <2>1 DEF CallInv, AnswerInv
  <2>3. Explains(answer', met', cut')
    BY <2>1, <2>2, OkExplains
  <2> QED
    BY <2>1, <2>2, <2>3, NothingPends, Answered DEF core
<1>2. ASSUME NEW error, IsError(error) \/ error = [of |-> "io"], NEW results,
             NEW told, Refused(told, results), met' = <<error>>,
             told.of = "Error", told.source = error
      PROVE  CallInv'
  <2>1. /\ worker = "opening" /\ worker' = "refused" /\ answer' = told
        /\ UNCHANGED <<mode, core, command, cut>>
    BY <1>2 DEF Refused
  <2>2. command = Idle /\ cut = "no"
    BY <2>1 DEF CallInv, AnswerInv
  <2>3. source(error) = None /\ error # None
    <3>1. CASE error = [of |-> "io"]
      BY <3>1 DEF source, None
    <3> QED
      BY <1>2, <3>1, Roots1
  <2>4. source(told) = error
    BY <1>2 DEF source
  <2>5. RootCause(told) = error
    BY <2>3, <2>4 DEF RootCause
  <2>6. told # Waiting /\ told # Ok
    BY <1>2 DEF Waiting, Ok
  <2>7. <<error>> # <<>> /\ <<error>>[1] = error
    OBVIOUS
  <2>8. Explains(answer', met', cut')
    BY <1>2, <2>1, <2>2, <2>5, <2>6, <2>7, RootExplains
  <2> QED
    BY <2>1, <2>2, <2>8, NothingPends, Answered DEF core
<1>3. \A kind, cause, cleanup :
         LET told == with_cleanup_error(WithSource(kind, cause), cleanup)
         IN  told.of = "Error" /\ told.source = cause
  BY DEF with_cleanup_error, with_related, WithSource
<1>4. ASSUME NEW results, NEW kind, OpenFails(kind, results) PROVE CallInv'
  <2>1. IsError(TransportError(kind, "open"))
    BY DEF IsError
  <2> QED
    BY <1>2, <1>3, <1>4, <2>1 DEF OpenFails, map_transport_open_error
<1>5. ASSUME NEW results, Unsupported(results) PROVE CallInv'
  <2>1. IsError(TransportError("UnsupportedController", "open"))
    BY DEF IsError
  <2> QED
    BY <1>2, <1>3, <1>5, <2>1 DEF Unsupported
<1>6. ASSUME NEW results, SpawnFails(results) PROVE CallInv'
  BY <1>2, <1>3, <1>6 DEF SpawnFails, map_worker_spawn_error
<1> QED
  BY <1>1, <1>4, <1>5, <1>6 DEF Opening

LEMMA ConnectingTells ==
    ASSUME CallInv, Connecting
    PROVE  CallInv'
<1> PICK c \in Commands : \/ BeginRefused(c) \/ begin_connection(c)
                          \/ \E kind \in StartErrors : StartRefused(c, kind)
  BY DEF Connecting
<1>1. /\ command = Idle /\ worker = "running" /\ cut' = "no"
      /\ UNCHANGED <<mode, worker>>
      /\ pending = "none" /\ tap = NoTap /\ lifecycle # "Connecting"
  BY NothingPends DEF BeginRefused, begin_connection, StartRefused, Connects, Gives, Running,
                      Unmoved
<1>2. CASE BeginRefused(c)
  <2>1. /\ command' = Idle /\ met' = <<>> /\ UNCHANGED core
        /\ answer' = map_command_error(Connection(Kind(c), Begin(InvalidLifecycle)))
    BY <1>2 DEF BeginRefused, Connects, Gives, Only, Told, Answers
  <2>2. Explains(answer', met', cut')
    BY <1>1, <2>1, BeginRefusalExplains
  <2> QED
    BY <1>1, <2>1, <2>2, Answered DEF core
<1>3. ASSUME NEW kind \in StartErrors, StartRefused(c, kind) PROVE CallInv'
  <2> DEFINE error == TransportError(kind, c.op)
  <2>1. IsError(error)
    BY DEF IsError
  <2>2. /\ command' = Idle /\ met' = Only(error) /\ UNCHANGED core
        /\ answer' = map_command_error(Connection(Kind(c), Begin(CoreTransport(error))))
    BY <1>3 DEF StartRefused, Connects, Gives, Told, Answers
  <2> HIDE DEF error
  <2>3. Explains(answer', met', cut')
    BY <1>1, <2>1, <2>2, StartRefusalExplains
  <2> QED
    BY <1>1, <2>2, <2>3, Answered DEF core
<1>4. CASE begin_connection(c)
  <2>1. /\ command' = c /\ answer' = Waiting /\ met' = <<>> /\ UNCHANGED tap
        /\ lifecycle' = "Connecting" /\ pending' = Kind(c) /\ c.op \in {"pair", "reconnect"}
    BY <1>4 DEF begin_connection, Connects, Gives, Only, Waits
  <2>2. c # Idle
    BY <2>1 DEF Idle
  <2>3. pending' # "none"
    BY <2>1 DEF Kind
  <2>4. FlightInv'
    BY <1>1, <2>1, <2>2, <2>3 DEF CallInv, FlightInv, has_pending, NoTap
  <2>5. AnswerInv'
    BY <1>1, <2>1, <2>2 DEF AnswerInv, Only, NoTap
  <2> QED
    BY <2>4, <2>5 DEF CallInv
<1> QED
  BY <1>2, <1>3, <1>4

\* A tap is in flight from its press on, with the error of its press.
LEMMA TapWaits ==
    ASSUME CallInv, command = Idle, Ready, worker = "running",
           UNCHANGED <<mode, worker, lifecycle, pending>>,
           NEW c, c.op = "tap", ~Invalid(c), NEW error, tap' = Held(c, error),
           command' = c, answer' = Waiting, met' = Only(error), cut' = "no",
           mode = "Direct" => error = None
    PROVE  CallInv'
<1>1. pending = "none" /\ lifecycle # "Connecting"
  BY NothingPends
<1>2. c # Idle
  BY DEF Idle
<1>3. has_pending' /\ tap'.first_error = error
  BY HeldIsPending DEF has_pending, Held
<1>4. FlightInv'
  BY <1>1, <1>2, <1>3 DEF CallInv, FlightInv, Ready
<1>5. AnswerInv'
  BY <1>2, <1>3 DEF AnswerInv
<1> QED
  BY <1>4, <1>5 DEF CallInv

LEMMA OnlyOne == ASSUME NEW r, IsError(r)
                 PROVE  Only(r) = <<r>> /\ <<r>> # <<>> /\ <<r>>[1] = r
BY Roots1 DEF Only

LEMMA CommandingTells ==
    ASSUME CallInv, Commanding
    PROVE  CallInv'
<1> PICK c \in Commands :
       \/ PeriodicRefuses(c) \/ complete_input_candidate(c) \/ DirectRefuses(c)
       \/ \E result \in Results : \/ complete_direct_send(c, At(result, c.op))
                                  \/ BeginPeriodicTap(c, At(result, "press"))
                                  \/ BeginDirectTap(c, At(result, "press"))
  BY DEF Commanding
<1>1. /\ command = Idle /\ worker = "running" /\ cut' = "no"
      /\ UNCHANGED <<mode, worker, lifecycle, pending>>
      /\ pending = "none" /\ tap = NoTap /\ lifecycle # "Connecting"
  BY NothingPends DEF PeriodicRefuses, complete_input_candidate, DirectRefuses,
                      complete_direct_send, BeginPeriodicTap, BeginDirectTap, Gives, Running,
                      Unmoved, core
<1>2. \A result \in Results : \A place : At(result, place) = None \/ IsError(At(result, place))
  BY Placed DEF Returns, IsError
<1>3. CASE PeriodicRefuses(c) \/ DirectRefuses(c)
  <2>1. /\ command' = Idle /\ met' = <<>> /\ UNCHANGED core
        /\ answer' \in {map_command_error(Input), map_command_error(PeriodicNotReady),
                        map_command_error(DirectNotReady)}
    BY <1>3 DEF PeriodicRefuses, DirectRefuses, Gives, Only, Told, Answers
  <2>2. Explains(answer', met', cut')
    BY <1>1, <2>1, RefusalsExplain
  <2> QED
    BY <1>1, <2>1, <2>2, Answered DEF core
<1>4. CASE complete_input_candidate(c)
  <2>1. command' = Idle /\ met' = <<>> /\ answer' = Ok /\ UNCHANGED tap
    BY <1>4 DEF complete_input_candidate, Gives, Only, Succeeds, Answers
  <2> QED
    BY <1>1, <2>1, OkExplains, Answered
<1>5. ASSUME NEW result \in Results, complete_direct_send(c, At(result, c.op))
      PROVE  CallInv'
  <2> DEFINE r == At(result, c.op)
  <2>1. r = None \/ IsError(r)
    BY <1>2
  <2> HIDE DEF r
  <2>2. /\ command' = Idle /\ met' = Only(r) /\ UNCHANGED tap
        /\ r = None => answer' = Ok
        /\ r # None => answer' = map_command_error(
                                    nonterminal_command_progress(DirectTransport(r)).told)
    BY <1>5 DEF complete_direct_send, Gives, Succeeds, Completes, Answers, Accepted, r
  <2>3. Explains(answer', met', cut')
    <3>1. CASE r = None
      BY <1>1, <2>2, <3>1, OkExplains DEF Only
    <3>2. CASE r # None
      BY <1>1, <2>1, <2>2, <3>2, OnlyOne, DirectSendExplains
    <3> QED
      BY <3>1, <3>2
  <2> QED
    BY <1>1, <2>2, <2>3, Answered
<1>6. ASSUME NEW result \in Results, BeginPeriodicTap(c, At(result, "press"))
      PROVE  CallInv'
  <2> DEFINE r == At(result, "press")
  <2>1. r = None \/ IsError(r)
    BY <1>2
  <2> HIDE DEF r
  <2>2. /\ mode = "Periodic" /\ Ready /\ c.op = "tap" /\ ~Invalid(c) /\ met' = Only(r)
        /\ Fatal(r) => /\ command' = Idle /\ UNCHANGED tap
                       /\ answer' = map_command_error(
                              nonterminal_command_progress(PeriodicTransport(r, None)).told)
        /\ ~Fatal(r) => command' = c /\ answer' = Waiting /\ tap' = Held(c, r)
    BY <1>6 DEF BeginPeriodicTap, Gives, Waits, Completes, Answers, r
  <2>3. CASE Fatal(r)
    <3>1. IsError(r)
      BY <2>1, <2>3 DEF Fatal
    <3>2. Explains(answer', met', cut')
      BY <1>1, <2>2, <2>3, <3>1, OnlyOne, PeriodicSendExplains
    <3> QED
      BY <1>1, <2>2, <2>3, <3>2, Answered
  <2>4. CASE ~Fatal(r)
    BY <1>1, <2>2, <2>4, TapWaits
  <2> QED
    BY <2>3, <2>4
<1>7. ASSUME NEW result \in Results, BeginDirectTap(c, At(result, "press"))
      PROVE  CallInv'
  <2> DEFINE r == At(result, "press")
  <2>1. r = None \/ IsError(r)
    BY <1>2
  <2> HIDE DEF r
  <2>2. /\ mode = "Direct" /\ Ready /\ c.op = "tap" /\ ~Invalid(c) /\ met' = Only(r)
        /\ r # None => /\ command' = Idle /\ UNCHANGED tap
                       /\ answer' = map_command_error(
                              nonterminal_command_progress(DirectTransport(r)).told)
        /\ r = None => command' = c /\ answer' = Waiting /\ tap' = Held(c, None)
    BY <1>7 DEF BeginDirectTap, Gives, Waits, Completes, Answers, Accepted, r
  <2>3. CASE r # None
    <3>1. Explains(answer', met', cut')
      BY <1>1, <2>1, <2>2, <2>3, OnlyOne, DirectSendExplains
    <3> QED
      BY <1>1, <2>2, <2>3, <3>1, Answered
  <2>4. CASE r = None
    BY <1>1, <2>2, <2>4, TapWaits
  <2> QED
    BY <2>3, <2>4
<1> QED
  BY <1>3, <1>4, <1>5, <1>6, <1>7

\* The end of a tap leads to the first failure it met, of its press or release.
LEMMA TapEndTells ==
    ASSUME ErrorsInv, CallInv, NEW r, r = None \/ IsError(r),
           PeriodicTapEnds(r) \/ DirectTapEnds(r)
    PROVE  CallInv'
<1> DEFINE first == tap.first_error
<1>1. /\ has_pending /\ Ready /\ tap' = NoTap /\ met' = Added(r) /\ command' = Idle
      /\ worker = "running" /\ UNCHANGED <<mode, worker, lifecycle, pending, cut>>
  BY DEF PeriodicTapEnds, DirectTapEnds, EndsTap, Unmoved, Running, Succeeds, Completes, Answers
<1>2. /\ command # Idle /\ pending = "none" /\ cut = "no" /\ met = Only(first)
      /\ mode = "Direct" => first = None
  BY <1>1 DEF CallInv, FlightInv, AnswerInv, Ready
<1>3. first = None \/ IsError(first)
  BY DEF ErrorsInv, TapShape, Rejected, IsError
<1> HIDE DEF first
<1>4. /\ first = None /\ r = None => met' = <<>>
      /\ first # None \/ r # None => met' # <<>> /\ met'[1] = FirstOf(first, r)
  <2>1. CASE first = None
    BY <1>1, <1>2, <2>1 DEF Only, Added, FirstOf
  <2>2. CASE first # None
    <3>1. met = <<first>>
      BY <1>2, <2>2 DEF Only
    <3>2. met' = <<first>> \/ met' = Append(<<first>>, r)
      BY <1>1, <3>1 DEF Added
    <3>3. met' # <<>> /\ met'[1] = first
      BY <3>2
    <3> QED
      BY <2>2, <3>3 DEF FirstOf
  <2> QED
    BY <2>1, <2>2
<1>5. Explains(answer', met', cut')
  <2>1. CASE PeriodicTapEnds(r)
    <3>1. CASE first = None /\ r = None
      BY <1>1, <1>2, <1>4, <2>1, <3>1, OkExplains
         DEF PeriodicTapEnds, TapResult, Accepted, Succeeds, Answers, first
    <3>2. CASE ~(first = None /\ r = None)
      <4> DEFINE error == FirstOf(first, r)
                 later == IF first # None /\ Fatal(r) THEN r ELSE None
      <4>1. IsError(error)
        BY <1>3, <3>2 DEF FirstOf
      <4>2. TapResult(first, r) = PeriodicTransport(error, later)
        BY <3>2 DEF TapResult
      <4> HIDE DEF error, later
      <4>3. PeriodicTransport(error, later) # Accepted
        BY DEF PeriodicTransport, Accepted, None
      <4>4. answer' = map_command_error(
                        nonterminal_command_progress(PeriodicTransport(error, later)).told)
        BY <2>1, <4>2, <4>3 DEF PeriodicTapEnds, Completes, Answers, first
      <4>5. met' # <<>> /\ met'[1] = error
        BY <1>4, <3>2 DEF error
      <4> QED
        BY <1>1, <1>2, <4>1, <4>4, <4>5, PeriodicSendExplains
    <3> QED
      BY <3>1, <3>2
  <2>2. CASE DirectTapEnds(r)
    <3>1. first = None
      BY <1>2, <2>2 DEF DirectTapEnds
    <3>2. CASE r = None
      BY <1>1, <1>2, <1>4, <2>2, <3>1, <3>2, OkExplains
         DEF DirectTapEnds, Accepted, Succeeds, Answers
    <3>3. CASE r # None
      <4>1. met' = <<r>>
        BY <1>1, <1>2, <3>1, <3>3 DEF Only, Added
      <4>2. answer' = map_command_error(nonterminal_command_progress(DirectTransport(r)).told)
        BY <2>2, <3>3 DEF DirectTapEnds, Accepted, Completes, Answers
      <4> QED
        BY <1>1, <1>2, <3>3, <4>1, <4>2, DirectSendExplains
    <3> QED
      BY <3>2, <3>3
  <2> QED
    BY <2>1, <2>2
<1> QED
  BY <1>1, <1>2, <1>5, Answered DEF Ready

LEMMA BackgroundTells ==
    ASSUME CallInv, NEW r, NEW candidate, NEW error, Background(r, candidate, error)
    PROVE  CallInv'
<1>1. UNCHANGED <<mode, worker, lifecycle, pending, tap>> /\ UNCHANGED <<command, answer, met, cut>>
  BY DEF Background, Unmoved, call
<1> QED
  BY <1>1, Unnoticed

LEMMA DueTells ==
    ASSUME ErrorsInv, CallInv, Due
    PROVE  CallInv'
<1>1. \A result \in Results : \A place : At(result, place) = None \/ IsError(At(result, place))
  BY Placed DEF Returns, IsError
<1>2. ASSUME NEW result \in Results, PeriodicTapEnds(At(result, "release"))
                                     \/ DirectTapEnds(At(result, "release"))
      PROVE  CallInv'
  BY <1>1, <1>2, TapEndTells
<1>3. ASSUME NEW result \in Results, send_due(At(result, "report")) PROVE CallInv'
  BY <1>3, BackgroundTells DEF send_due
<1> QED
  BY <1>2, <1>3 DEF Due

\* A session ends, and whoever waits for it hears why.
LEMMA EndsTell ==
    ASSUME CallInv, NEW by, Ends(by),
           command = Idle => UNCHANGED <<command, answer>>,
           command # Idle => command' = Idle /\ \A errors : Explains(answer', errors, by)
    PROVE  CallInv'
<1>1. /\ worker = "running" /\ UNCHANGED <<mode, worker, met>>
      /\ lifecycle' = "Open" /\ pending' = "none" /\ tap' = NoTap
      /\ cut' = IF command # Idle THEN by ELSE cut
  BY DEF Ends, Running, Unmoved
<1>2. command' = Idle
  OBVIOUS
<1>3. Explains(answer', met', cut')
  BY <1>1 DEF CallInv, AnswerInv
<1> QED
  BY <1>1, <1>2, <1>3, Answered

LEMMA DrivingTells ==
    ASSUME CallInv, Driving
    PROVE  CallInv'
<1>1. CASE MarkReady
  <2>1. /\ lifecycle = "Connecting" /\ lifecycle' = "Ready" /\ pending' = "none"
        /\ worker = "running" /\ command' = Idle /\ answer' = Ok
        /\ UNCHANGED <<mode, worker, tap, met, cut>>
    BY <1>1 DEF MarkReady, Running, Succeeds, Answers, Unmoved
  <2>2. command # Idle /\ tap = NoTap
    BY <2>1 DEF CallInv, FlightInv, has_pending, Ready
  <2>3. met = <<>> /\ cut = "no"
    BY <2>2 DEF CallInv, AnswerInv, Only, NoTap
  <2> QED
    BY <2>1, <2>2, <2>3, OkExplains, Answered
<1>2. CASE TimesOut
  <2>1. Ends("timeout") /\ lifecycle = "Connecting" /\ command' = Idle
        /\ answer' = map_command_error(Connection(pending, Readiness("TimedOut")))
    BY <1>2 DEF TimesOut, Told, Answers
  <2>2. command # Idle
    BY <2>1 DEF CallInv, FlightInv
  <2> QED
    BY <2>1, <2>2, CutsExplain, EndsTell
<1>3. ASSUME NEW result \in Results, Bootstrap(At(result, "bootstrap")) PROVE CallInv'
  BY <1>3, BackgroundTells DEF Bootstrap
<1> QED
  BY <1>1, <1>2, <1>3 DEF Driving

LEMMA EventsTell ==
    ASSUME CallInv, Events
    PROVE  CallInv'
<1>1. CASE LinkUp \/ Malformed \/ \E kind : PollFails(kind)
  <2>1. UNCHANGED <<mode, worker, lifecycle, pending, tap>> /\ UNCHANGED <<command, answer, met, cut>>
    BY <1>1 DEF LinkUp, Malformed, PollFails, Unmoved, core, call
  <2> QED
    BY <2>1, Unnoticed
<1>2. CASE Disconnect
  <2>1. Ends("link")
    BY <1>2 DEF Disconnect
  <2>2. pending # "none" =>
           command' = Idle
           /\ answer' = map_command_error(Connection(pending, Readiness("Disconnected")))
    BY <1>2 DEF Disconnect, Told, Answers
  <2>3. pending = "none" /\ has_pending =>
           command' = Idle
           /\ answer' \in {map_command_error(Disconnected),
                           map_command_error(DirectInterrupted("Disconnected"))}
    BY <1>2 DEF Disconnect, TapInterrupted, Told, Answers
  <2>4. pending = "none" /\ ~has_pending => UNCHANGED <<command, answer>>
    BY <1>2 DEF Disconnect
  <2>5. command # Idle <=> pending # "none" \/ has_pending
    BY DEF CallInv, FlightInv
  <2>6. command # Idle => command' = Idle /\ \A errors : Explains(answer', errors, "link")
    BY <2>2, <2>3, <2>5, CutsExplain
  <2> QED
    BY <2>1, <2>4, <2>5, <2>6, EndsTell
<1>3. ASSUME NEW result \in Results, Reply(At(result, "reply")) PROVE CallInv'
  BY <1>3, BackgroundTells DEF Reply
<1> QED
  BY <1>1, <1>2, <1>3 DEF Events

\* The loop is left, and whoever waits hears why.
LEMMA LeavesTell ==
    ASSUME CallInv, worker = "running", NEW cause, NEW results, NEW cleanup,
           Leaves(cause, results, cleanup), NEW by,
           cut' = IF command = Idle THEN cut ELSE by,
           command = Idle => UNCHANGED <<command, answer>>,
           command # Idle => command' = Idle /\ \A errors : Explains(answer', errors, by)
    PROVE  CallInv'
<1>1. /\ worker' # "opening" /\ UNCHANGED <<mode, met>>
      /\ lifecycle' = "Closed" /\ pending' = "none" /\ tap' = NoTap
  BY DEF Leaves
<1>2. command' = Idle
  OBVIOUS
<1>3. Explains(answer', met', cut')
  BY <1>1 DEF CallInv, AnswerInv
<1> QED
  BY <1>1, <1>2, <1>3, Answered

LEMMA EndingTells ==
    ASSUME ErrorsInv, CallInv, Ending
    PROVE  CallInv'
<1>1. ASSUME NEW r, Request(r) PROVE CallInv'
  <2>1. UNCHANGED <<mode, worker, lifecycle, pending, tap>> /\ UNCHANGED <<command, answer, met, cut>>
    BY <1>1 DEF Request, core, call
  <2> QED
    BY <2>1, Unnoticed
<1>2. command # Idle <=> pending # "none" \/ has_pending
  BY DEF CallInv, FlightInv
<1>3. CASE Close
  <2>1. /\ worker = "running" /\ CloseInterrupts
        /\ \E results : Leaves(None, results, record_first_failure(results))
    BY <1>3 DEF Close
  <2>2. cut' = IF command = Idle THEN cut ELSE "shutdown"
    BY <2>1 DEF Leaves
  <2>3. pending # "none" \/ has_pending =>
           command' = Idle
           /\ answer' \in {map_command_error(Shutdown),
                           map_command_error(DirectInterrupted("Shutdown"))}
    BY <2>1 DEF CloseInterrupts, Told, Answers, CallInv, FlightInv, Modes
  <2>4. pending = "none" /\ ~has_pending => UNCHANGED <<command, answer>>
    BY <2>1 DEF CloseInterrupts
  <2> QED
    BY <1>2, <2>1, <2>2, <2>3, <2>4, CutsExplain, LeavesTell
<1>4. CASE Fail
  <2>1. /\ worker = "running" /\ ending # None
        /\ \E results : Leaves(ending, results, record_first_failure(results))
    BY <1>4 DEF Fail
  <2>2. cut' = IF command = Idle THEN cut ELSE "worker"
    BY <2>1 DEF Leaves
  <2>3. pending # "none" =>
           /\ command' = Idle
           /\ answer' = map_command_error(Connection(pending, ConnectionEnds(ConnectionFailure)))
    BY <1>4 DEF Fail, Answers
  <2>4. pending = "none" /\ command # Idle => command' = Idle /\ answer' = map_response_error
    BY <1>4 DEF Fail, Dropped, Answers
  <2>5. command = Idle => UNCHANGED <<command, answer>>
    BY <1>2, <1>4 DEF Fail, Dropped
  <2>6. ConnectionFailure \in {"WorkerFailed", "InvalidKeyStore"}
    BY DEF ConnectionFailure
  <2>7. command # Idle => command' = Idle /\ \A errors : Explains(answer', errors, "worker")
    BY <2>3, <2>4, <2>6, CutsExplain
  <2> QED
    BY <2>1, <2>2, <2>5, <2>7, LeavesTell
<1>5. CASE Panics
  <2>1. /\ worker = "running" /\ Dropped
        /\ \E results, cleanup : Leaves(Panicked, results, cleanup)
    BY <1>5 DEF Panics, Running
  <2>2. cut' = IF command = Idle THEN cut ELSE "worker"
    BY <2>1 DEF Leaves, Panicked, None
  <2>3. /\ command = Idle => UNCHANGED <<command, answer>>
        /\ command # Idle => command' = Idle /\ answer' = map_response_error
    BY <2>1 DEF Dropped, Answers
  <2> QED
    BY <2>1, <2>2, <2>3, CutsExplain, LeavesTell
<1>6. CASE TeardownPanics
  <2>1. UNCHANGED <<mode, worker, lifecycle, pending, tap>> /\ UNCHANGED <<command, answer, met, cut>>
    BY <1>6 DEF TeardownPanics, core, call
  <2> QED
    BY <2>1, Unnoticed
<1> QED
  BY <1>1, <1>3, <1>4, <1>5, <1>6 DEF Ending

LEMMA CallInit == Init => CallInv
<1> SUFFICES ASSUME Init PROVE CallInv
  OBVIOUS
<1>1. FlightInv
  BY DEF Init, FlightInv, has_pending, NoTap
<1>2. AnswerInv
  BY DEF Init, AnswerInv
<1> QED
  BY <1>1, <1>2 DEF CallInv

LEMMA CallStep ==
    ASSUME ErrorsInv, CallInv, [Next]_vars
    PROVE  CallInv'
<1>1. CASE Gone \/ UNCHANGED vars
  <2>1. UNCHANGED <<mode, worker, lifecycle, pending, tap>> /\ UNCHANGED <<command, answer, met, cut>>
    BY <1>1 DEF Gone, vars, core, call
  <2> QED
    BY <2>1, Unnoticed
<1> QED
  BY <1>1, OpeningTells, ConnectingTells, CommandingTells, DueTells, DrivingTells,
     EventsTell, EndingTells DEF Next

LEMMA AlwaysCall == Spec => []CallInv
<1>1. CallInv /\ ErrorsInv /\ [Next]_vars => CallInv'
  BY CallStep
<1> QED
  BY <1>1, CallInit, AlwaysErrors, PTL DEF Spec

-----------------------------------------------------------------------------
(* The chain of an error                                                    *)

\* Short sequences, joined.
LEMMA Tuples ==
    ASSUME NEW S, NEW a \in S, NEW b \in S, NEW c \in S
    PROVE  <<a>> \in Seq(S) /\ <<a, b>> \in Seq(S) /\ <<a, b, c>> \in Seq(S)
OBVIOUS

LEMMA JoinedNone == ASSUME NEW a PROVE <<a>> \o <<>> = <<a>>
<1>1. <<a>> \in Seq({a})
  BY Tuples
<1> QED
  BY <1>1, ConcatEmptySeq

LEMMA Joined2 == ASSUME NEW a, NEW b PROVE <<a>> \o <<b>> = <<a, b>>
<1> DEFINE S == {a, b}
<1>1. <<a>> \in Seq(S) /\ <<b>> \in Seq(S) /\ <<a, b>> \in Seq(S)
  BY Tuples
<1> HIDE DEF S
<1>2. /\ <<a>> \o <<b>> \in Seq(S) /\ Len(<<a>> \o <<b>>) = 2
      /\ (<<a>> \o <<b>>)[1] = a /\ (<<a>> \o <<b>>)[2] = b
  BY <1>1, ConcatProperties
<1>3. Len(<<a, b>>) = 2 /\ <<a, b>>[1] = a /\ <<a, b>>[2] = b
  OBVIOUS
<1>4. \A i \in 1..2 : (<<a>> \o <<b>>)[i] = <<a, b>>[i]
  BY <1>2, <1>3
<1> QED
  BY <1>1, <1>2, <1>3, <1>4, SeqEqual

LEMMA Joined3 == ASSUME NEW a, NEW b, NEW c PROVE <<a>> \o <<b, c>> = <<a, b, c>>
<1> DEFINE S == {a, b, c}
<1>1. <<a>> \in Seq(S) /\ <<b, c>> \in Seq(S) /\ <<a, b, c>> \in Seq(S)
  BY Tuples
<1> HIDE DEF S
<1> DEFINE s == <<a>> \o <<b, c>>
<1>2. /\ s \in Seq(S) /\ Len(s) = 3
      /\ s[1] = a /\ s[2] = b /\ s[3] = c
  BY <1>1, ConcatProperties
<1>3. /\ Len(<<a, b, c>>) = 3
      /\ <<a, b, c>>[1] = a /\ <<a, b, c>>[2] = b /\ <<a, b, c>>[3] = c
  OBVIOUS
<1> HIDE DEF s
<1>4. \A i \in 1..3 : s[i] = <<a, b, c>>[i]
  BY <1>2, <1>3
<1>5. s = <<a, b, c>>
  BY <1>1, <1>2, <1>3, <1>4, SeqEqual
<1> QED
  BY <1>5 DEF s

\* Chains of one, two and three errors.
Chain(errors) == [i \in DOMAIN errors |-> RootCause(errors[i])]
LEMMA ChainRoots ==
    /\ \A a : Chain(<<a>> \o <<>>) = <<RootCause(a)>>
    /\ \A a, b : Chain(<<a>> \o <<b>>) = <<RootCause(a), RootCause(b)>>
    /\ \A a, b, c : Chain(<<a>> \o <<b, c>>) = <<RootCause(a), RootCause(b), RootCause(c)>>
<1>1. ASSUME NEW a PROVE Chain(<<a>> \o <<>>) = <<RootCause(a)>>
  <2>1. Chain(<<a>>) = <<RootCause(a)>>
    BY DEF Chain
  <2>2. <<a>> \o <<>> = <<a>>
    BY JoinedNone
  <2> QED
    BY <2>1, <2>2
<1>2. ASSUME NEW a, NEW b PROVE Chain(<<a>> \o <<b>>) = <<RootCause(a), RootCause(b)>>
  <2>1. Chain(<<a, b>>) = <<RootCause(a), RootCause(b)>>
    BY DEF Chain
  <2>2. <<a>> \o <<b>> = <<a, b>>
    BY Joined2
  <2> QED
    BY <2>1, <2>2
<1>3. ASSUME NEW a, NEW b, NEW c
      PROVE  Chain(<<a>> \o <<b, c>>) = <<RootCause(a), RootCause(b), RootCause(c)>>
  <2>1. Chain(<<a, b, c>>) = <<RootCause(a), RootCause(b), RootCause(c)>>
    BY DEF Chain
  <2>2. <<a>> \o <<b, c>> = <<a, b, c>>
    BY Joined3
  <2> QED
    BY <2>1, <2>2
<1> QED
  BY <1>1, <1>2, <1>3

\* A public error and those related to it.
Related(kind, cause, rest) ==
    [of |-> "Error", kind |-> kind, source |-> cause, related |-> rest]

LEMMA RelatedRoot ==
    ASSUME NEW kind, NEW cause, NEW rest
    PROVE  LET error == Related(kind, cause, rest)
           IN  /\ error.related = rest /\ error # None
               /\ RootCause(error) = RootCause(WithSource(kind, cause))
<1>1. /\ Related(kind, cause, rest).related = rest /\ Related(kind, cause, rest) # None
      /\ source(Related(kind, cause, rest)) = source(WithSource(kind, cause))
  BY DEF Related, WithSource, source, None
<1> QED
  BY <1>1 DEF RootCause

LEMMA RelatedRoots ==
    ASSUME NEW kind, NEW cause, NEW rest
    PROVE  LET chain == <<Related(kind, cause, rest)>> \o rest
           IN  Roots(Related(kind, cause, rest)) = Chain(chain)
<1> DEFINE error == Related(kind, cause, rest)
<1>1. error.related = rest /\ error # None
  BY RelatedRoot
<1> HIDE DEF error
<1>2. Roots(error) = Chain(<<error>> \o rest)
  BY <1>1 DEF Roots, Chain
<1> QED
  BY <1>2 DEF error

LEMMA RootsOfOne ==
    ASSUME NEW kind, NEW cause
    PROVE  LET first == WithSource(kind, cause)
           IN  /\ Roots(first) = <<RootCause(first)>>
               /\ Roots(Linked(first, <<>>)) = <<RootCause(first)>>
<1> DEFINE error == Related(kind, cause, <<>>)
<1>1. WithSource(kind, cause) = error
  BY DEF WithSource, Related
<1>2. Linked(WithSource(kind, cause), <<>>) = error
  BY DEF WithSource, Related, Linked
<1>3. Roots(error) = Chain(<<error>> \o <<>>)
  BY RelatedRoots
<1> HIDE DEF error
<1>4. Roots(error) = <<RootCause(error)>>
  BY <1>3, ChainRoots
<1> QED
  BY <1>1, <1>2, <1>4

LEMMA RootsOfTwo ==
    ASSUME NEW kind, NEW cause, NEW b
    PROVE  Roots(Linked(WithSource(kind, cause), <<b>>))
           = <<RootCause(WithSource(kind, cause)), RootCause(b)>>
<1> DEFINE error == Related(kind, cause, <<b>>)
<1>1. Linked(WithSource(kind, cause), <<b>>) = error
  BY DEF WithSource, Related, Linked
<1>2. RootCause(error) = RootCause(WithSource(kind, cause))
  BY RelatedRoot
<1>3. Roots(error) = Chain(<<error>> \o <<b>>)
  BY RelatedRoots
<1> HIDE DEF error
<1>4. Roots(error) = <<RootCause(error), RootCause(b)>>
  BY <1>3, ChainRoots
<1> QED
  BY <1>1, <1>2, <1>4

LEMMA RootsOfThree ==
    ASSUME NEW kind, NEW cause, NEW b, NEW c
    PROVE  Roots(Linked(WithSource(kind, cause), <<b, c>>))
           = <<RootCause(WithSource(kind, cause)), RootCause(b), RootCause(c)>>
<1> DEFINE error == Related(kind, cause, <<b, c>>)
<1>1. Linked(WithSource(kind, cause), <<b, c>>) = error
  BY DEF WithSource, Related, Linked
<1>2. RootCause(error) = RootCause(WithSource(kind, cause))
  BY RelatedRoot
<1>3. Roots(error) = Chain(<<error>> \o <<b, c>>)
  BY RelatedRoots
<1> HIDE DEF error
<1>4. Roots(error) = <<RootCause(error), RootCause(b), RootCause(c)>>
  BY <1>3, ChainRoots
<1> QED
  BY <1>1, <1>2, <1>4

\* What a cleanup returned: nothing, or failures of the transport.
Shut(results) ==
    /\ Listed(results)
    /\ \A i \in DOMAIN results : results[i] = None \/ IsError(results[i])

LEMMA PhasesListed ==
    ASSUME NEW S, NEW a \in S, NEW b \in S, NEW c \in S, NEW d \in S, NEW x, NEW y
    PROVE  (IF x THEN <<a>> ELSE <<>>) \o (IF y THEN <<b>> ELSE <<>>) \o <<c, d>> \in Seq(S)
<1>1. (IF x THEN <<a>> ELSE <<>>) \in Seq(S) /\ (IF y THEN <<b>> ELSE <<>>) \in Seq(S)
      /\ <<c, d>> \in Seq(S)
  BY Tuples, EmptySeq
<1> QED
  BY <1>1, ConcatProperties

LEMMA ReturnedShut ==
    ASSUME NEW neutral, NEW drain, NEW results \in Returned(Phases(neutral, drain))
    PROVE  Shut(results)
<1> DEFINE phases == Phases(neutral, drain)
           S == {"Neutral", "DrainInterrupt", "Disconnect", "TransportClose"}
<1>1. phases \in Seq(S)
  BY PhasesListed DEF Phases
<1> HIDE DEF phases, S
<1>2. PICK f : results = [i \in DOMAIN phases |-> IF f[i] = "ok" THEN None
                                                   ELSE TransportError(f[i], phases[i])]
  BY DEF Returned, phases
<1>3. Len(phases) \in Nat /\ DOMAIN results = 1..Len(phases)
  BY <1>1, <1>2, LenProperties
<1>4. Listed(results)
  BY <1>3 DEF Listed
<1>5. \A i \in DOMAIN results : results[i] = None \/ IsError(results[i])
  BY <1>2 DEF IsError
<1> QED
  BY <1>4, <1>5 DEF Shut

\* The first failure a cleanup keeps is the first there was.
LEMMA FirstIsKept ==
    ASSUME NEW results, Shut(results)
    PROVE  LET kept == record_first_failure(results)
           IN  \/ kept = None /\ First(results) = <<>>
               \/ \E e : IsError(e) /\ kept = CleanupFailure(e) /\ First(results) = <<e>>
<1>1. CASE Failing(results) = {}
  BY <1>1 DEF record_first_failure, First
<1>2. CASE Failing(results) # {}
  <2> DEFINE e == results[Min(Failing(results))]
  <2>1. IsError(e)
    BY <1>2, FirstFails DEF Shut
  <2> QED
    BY <1>2, <2>1 DEF record_first_failure, First
<1> QED
  BY <1>1, <1>2

\* An unopened transport tells its error and then the first of its cleanup.
LEMMA RefusalRoots ==
    ASSUME NEW kind, NEW cause, NEW results, Shut(results)
    PROVE  Roots(with_cleanup_error(WithSource(kind, cause), cleanup_unowned_transport(results)))
           = <<RootCause(WithSource(kind, cause))>> \o First(results)
<1> DEFINE root == RootCause(WithSource(kind, cause))
           kept == record_first_failure(results)
<1>1. CASE kept = None /\ First(results) = <<>>
  <2>1. with_cleanup_error(WithSource(kind, cause), cleanup_unowned_transport(results))
        = WithSource(kind, cause)
    BY <1>1 DEF with_cleanup_error, cleanup_unowned_transport
  <2>2. <<root>> \o <<>> = <<root>>
    BY JoinedNone
  <2> QED
    BY <1>1, <2>1, <2>2, RootsOfOne
<1>2. ASSUME NEW e, IsError(e), kept = CleanupFailure(e), First(results) = <<e>>
      PROVE  Roots(with_cleanup_error(WithSource(kind, cause), cleanup_unowned_transport(results)))
             = <<root>> \o First(results)
  <2> DEFINE b == WithSource(Kinds!map_cleanup_error, CleanupFailure(e))
  <2>1. CleanupFailure(e) # None /\ b # None
    BY DEF CleanupFailure, WithSource, None
  <2>2. cleanup_unowned_transport(results) = b
    BY <1>2, <2>1 DEF cleanup_unowned_transport, map_cleanup_error
  <2>3. [b EXCEPT !.related = <<>>] = b /\ b.related = <<>>
    BY DEF WithSource
  <2>4. RootCause(b) = e
    BY <1>2, Roots1
  <2>5. with_cleanup_error(WithSource(kind, cause), b)
        = [WithSource(kind, cause) EXCEPT !.related = @ \o <<b>> \o <<>>]
    BY <2>1, <2>3 DEF with_cleanup_error, with_related
  <2>6. [WithSource(kind, cause) EXCEPT !.related = @ \o <<b>> \o <<>>]
        = Linked(WithSource(kind, cause), <<b>>)
    BY DEF WithSource, Linked
  <2> HIDE DEF b
  <2>7. Roots(Linked(WithSource(kind, cause), <<b>>)) = <<root, RootCause(b)>>
    BY RootsOfTwo
  <2>8. <<root>> \o <<e>> = <<root, e>>
    BY Joined2
  <2> QED
    BY <1>2, <2>2, <2>4, <2>5, <2>6, <2>7, <2>8
<1> QED
  BY <1>1, <1>2, FirstIsKept

-----------------------------------------------------------------------------
(* The end of a worker is told in the order it happened                     *)

\* The errors a worker told at its end are failures of its transport, those of
\* its cleanup are the ones the outcome keeps the first of, and the status says
\* nothing before the end and then names its cause.
FatalShape == worker # "refused" => \A e : fatal = <<e>> => IsError(e)
StatusInv ==
    CASE outcome.cause # None -> failure.category = worker_failure_category(outcome.cause)
      [] outcome.cause = None /\ outcome.panicked -> failure.category = "Panicked"
      [] OTHER -> failure = NoFailure
OutcomeInv ==
    /\ worker = "closed" <=> outcome.cause = None
    /\ Shut(shutting) /\ outcome.cleanup = record_first_failure(shutting)
    /\ StatusInv
RefusedInv == worker = "refused" => Roots(answer) = First(met) \o First(shutting)
EndInv ==
    /\ FatalShape /\ RefusedInv
    /\ worker \in {"opening", "running"} => failure = NoFailure
    /\ outcome # Alive => OutcomeInv

\* A transport that could not be opened.
LEMMA RefusedEnds ==
    ASSUME ErrorsInv, worker = "opening", worker' = "refused", UNCHANGED outcome,
           Roots(answer') = First(met') \o First(shutting')
    PROVE  EndInv'
BY DEF ErrorsInv, OutcomeShape, EndInv, FatalShape, RefusedInv

LEMMA OpeningEnds ==
    ASSUME ErrorsInv, EndInv, Opening
    PROVE  EndInv'
<1>1. CASE Opened
  <2>1. /\ worker = "opening" /\ worker' = "running"
        /\ UNCHANGED <<outcome, fatal, failure, shutting>>
    BY <1>1 DEF Opened
  <2>2. outcome = Alive
    BY <2>1 DEF ErrorsInv, OutcomeShape
  <2> QED
    BY <2>1, <2>2 DEF EndInv, FatalShape, RefusedInv
<1>2. ASSUME NEW results, Shut(results), NEW error, error # None,
             NEW kind, NEW cause, RootCause(WithSource(kind, cause)) = error,
             worker = "opening",
             Refused(with_cleanup_error(WithSource(kind, cause),
                                        cleanup_unowned_transport(results)), results),
             met' = <<error>>
      PROVE  EndInv'
  <2>1. /\ worker' = "refused" /\ UNCHANGED outcome /\ shutting' = results
        /\ answer' = with_cleanup_error(WithSource(kind, cause),
                                        cleanup_unowned_transport(results))
    BY <1>2 DEF Refused
  <2>2. Roots(answer') = <<error>> \o First(results)
    BY <1>2, <2>1, RefusalRoots
  <2>3. First(met') = <<error>>
    BY <1>2, FirstOfOne
  <2> QED
    BY <1>2, <2>1, <2>2, <2>3, RefusedEnds
<1>3. ASSUME NEW results, Shut(results), NEW kind, OpenFails(kind, results) PROVE EndInv'
  <2> DEFINE error == TransportError(kind, "open")
             public == Kinds!map_transport_open_error(kind)
  <2>1. IsError(error) /\ error.kind = kind
    BY DEF IsError, TransportError
  <2>2. map_transport_open_error(error) = WithSource(public, error)
    BY <2>1 DEF map_transport_open_error
  <2>3. error # None /\ RootCause(WithSource(public, error)) = error
    BY <2>1, Roots1
  <2>4. /\ worker = "opening" /\ met' = <<error>>
        /\ Refused(with_cleanup_error(map_transport_open_error(error),
                                      cleanup_unowned_transport(results)), results)
    BY <1>3 DEF OpenFails, Refused
  <2> HIDE DEF error, public
  <2> QED
    BY <1>2, <1>3, <2>2, <2>3, <2>4
<1>4. ASSUME NEW results, Shut(results), Unsupported(results) PROVE EndInv'
  <2> DEFINE error == TransportError("UnsupportedController", "open")
  <2>1. IsError(error)
    BY DEF IsError
  <2>2. error # None /\ RootCause(WithSource("TransportOpen", error)) = error
    BY <2>1, Roots1
  <2>3. /\ worker = "opening" /\ met' = <<error>>
        /\ Refused(with_cleanup_error(WithSource("TransportOpen", error),
                                      cleanup_unowned_transport(results)), results)
    BY <1>4 DEF Unsupported, Refused
  <2> HIDE DEF error
  <2> QED
    BY <1>2, <1>4, <2>2, <2>3
<1>5. ASSUME NEW results, Shut(results), SpawnFails(results) PROVE EndInv'
  <2> DEFINE error == [of |-> "io"]
  <2>1. error # None /\ source(error) = None
    BY DEF None, source
  <2>2. source(WithSource("WorkerFailed", error)) = error
    BY DEF WithSource, source
  <2>3. RootCause(WithSource("WorkerFailed", error)) = error
    BY <2>1, <2>2 DEF RootCause
  <2>4. map_worker_spawn_error(record_first_failure(results))
        = with_cleanup_error(WithSource("WorkerFailed", error), cleanup_unowned_transport(results))
    BY DEF map_worker_spawn_error, cleanup_unowned_transport
  <2>5. /\ worker = "opening" /\ met' = <<error>>
        /\ Refused(map_worker_spawn_error(record_first_failure(results)), results)
    BY <1>5 DEF SpawnFails, Refused
  <2> HIDE DEF error
  <2> QED
    BY <1>2, <1>5, <2>1, <2>3, <2>4, <2>5
<1>6. \A results \in Returned(Phases(FALSE, TRUE)) : Shut(results)
  BY ReturnedShut
<1> QED
  BY <1>1, <1>3, <1>4, <1>5, <1>6 DEF Opening

\* A step of a worker that goes on.
LEMMA RunningEnds ==
    ASSUME ErrorsInv, EndInv, worker = "running", UNCHANGED <<worker, outcome, shutting>>,
           failure' \in {failure, NoFailure},
           fatal' = fatal \/ \E r : IsError(r) /\ ending = None /\ fatal' = Append(fatal, r)
    PROVE  EndInv'
<1>1. outcome = Alive /\ failure' = NoFailure
  BY DEF ErrorsInv, OutcomeShape, EndInv
<1>2. FatalShape'
  <2>1. CASE fatal' = fatal
    BY <2>1 DEF EndInv, FatalShape
  <2>2. ASSUME NEW r, IsError(r), ending = None, fatal' = Append(fatal, r)
        PROVE  FatalShape'
    <3>1. fatal = <<>>
      BY <2>2 DEF ErrorsInv, EndingInv, Healthy, Met, CoreTransport, None
    <3>2. fatal' = <<r>>
      BY <2>2, <3>1
    <3>3. \A e : <<r>> = <<e>> => r = e
      OBVIOUS
    <3> QED
      BY <2>2, <3>2, <3>3 DEF FatalShape
  <2> QED
    BY <2>1, <2>2
<1> QED
  BY <1>1, <1>2 DEF EndInv, RefusedInv

LEMMA Remembers ==
    ASSUME NEW result \in Results, NEW place, fatal' = Remembered(At(result, place))
    PROVE  fatal' = fatal \/ \E r : IsError(r) /\ fatal' = Append(fatal, r)
BY Placed DEF Remembered, Returns, Fatal, IsError

LEMMA StepsEnd ==
    ASSUME ErrorsInv, EndInv,
           Connecting \/ Commanding \/ Due \/ Driving \/ Events \/ \E r : Request(r)
    PROVE  EndInv'
<1>1. CASE Connecting
  <2>1. worker = "running" /\ failure' \in {failure, NoFailure}
        /\ UNCHANGED <<worker, outcome, shutting, fatal>>
    BY <1>1 DEF Connecting, BeginRefused, begin_connection, StartRefused, Connects, Gives,
                Running, Unmoved
  <2> QED
    BY <2>1, RunningEnds
<1>2. CASE Commanding
  <2> PICK c \in Commands :
       \/ PeriodicRefuses(c) \/ complete_input_candidate(c) \/ DirectRefuses(c)
       \/ \E result \in Results : \/ complete_direct_send(c, At(result, c.op))
                                  \/ BeginPeriodicTap(c, At(result, "press"))
                                  \/ BeginDirectTap(c, At(result, "press"))
    BY <1>2 DEF Commanding
  <2>1. /\ Running /\ UNCHANGED <<worker, outcome, shutting, failure>>
        /\ \/ UNCHANGED fatal
           \/ \E result \in Results : \E place : fatal' = Remembered(At(result, place))
    BY DEF PeriodicRefuses, complete_input_candidate, DirectRefuses, complete_direct_send,
           BeginPeriodicTap, BeginDirectTap, Gives, Unmoved, Sends
  <2> QED
    BY <2>1, Remembers, RunningEnds DEF Running
<1>3. CASE Due
  <2>1. /\ Running /\ UNCHANGED <<worker, outcome, shutting, failure>>
        /\ \E result \in Results : \E place : fatal' = Remembered(At(result, place))
    BY <1>3 DEF Due, PeriodicTapEnds, DirectTapEnds, EndsTap, send_due, Background, Unmoved,
                Sends
  <2> QED
    BY <2>1, Remembers, RunningEnds DEF Running
<1>4. CASE Driving
  <2>1. /\ Running /\ UNCHANGED <<worker, outcome, shutting, failure>>
        /\ \/ UNCHANGED fatal
           \/ \E result \in Results : \E place : fatal' = Remembered(At(result, place))
    BY <1>4 DEF Driving, MarkReady, TimesOut, Ends, Bootstrap, Background, Unmoved, Sends
  <2> QED
    BY <2>1, Remembers, RunningEnds DEF Running
<1>5. CASE Events
  <2>1. Running /\ UNCHANGED <<worker, outcome, shutting, failure>>
    BY <1>5 DEF Events, LinkUp, Disconnect, Ends, Malformed, Reply, Background, PollFails,
                Unmoved
  <2>2. ASSUME NEW kind, PollFails(kind)
        PROVE  \E r : IsError(r) /\ fatal' = Append(fatal, r)
    BY <2>2 DEF PollFails, IsError
  <2>3. \/ UNCHANGED fatal
        \/ \E result \in Results : \E place : fatal' = Remembered(At(result, place))
        \/ \E kind \in PollErrors : PollFails(kind)
    BY <1>5 DEF Events, LinkUp, Disconnect, Ends, Malformed, Reply, Background, Sends
  <2> QED
    BY <2>1, <2>2, <2>3, Remembers, RunningEnds DEF Running
<1>6. ASSUME NEW r, Request(r) PROVE EndInv'
  <2>1. worker = "running" /\ UNCHANGED <<worker, outcome, shutting, failure, fatal>>
    BY <1>6 DEF Request
  <2> QED
    BY <2>1, RunningEnds
<1> QED
  BY <1>1, <1>2, <1>3, <1>4, <1>5, <1>6

\* The loop is left: for a close, with an error the step met, or in a panic.
LEMMA LeavesEnds ==
    ASSUME ErrorsInv, EndInv, worker = "running", NEW cause, NEW results, Shut(results),
           Leaves(cause, results, record_first_failure(results)),
           cause = None => UNCHANGED failure,
           cause # None => StatusFails(cause)
    PROVE  EndInv'
<1> DEFINE cleanup == record_first_failure(results)
           panicked == cause = Panicked
<1>1. /\ worker' = IF cause = None THEN "closed" ELSE "failed"
      /\ outcome' = [of |-> "Ended", cause |-> cause, cleanup |-> cleanup, panicked |-> panicked]
      /\ shutting' = results /\ UNCHANGED fatal
  BY DEF Leaves
<1>2. panicked => cause # None
  BY DEF Panicked, None
<1> HIDE DEF cleanup, panicked
<1>3. outcome'.cause = cause /\ outcome'.cleanup = cleanup /\ (outcome'.panicked <=> panicked)
  BY <1>1
<1>4. failure = NoFailure
  BY DEF EndInv
<1>5. StatusInv'
  <2>1. CASE cause = None
    BY <1>2, <1>3, <1>4, <2>1 DEF StatusInv
  <2>2. CASE cause # None
    <3>1. failure'.category = worker_failure_category(cause)
      BY <1>4, <2>2 DEF StatusFails
    <3> QED
      BY <1>3, <2>2, <3>1 DEF StatusInv
  <2> QED
    BY <2>1, <2>2
<1>6. OutcomeInv'
  BY <1>1, <1>3, <1>5 DEF OutcomeInv, cleanup
<1>7. FatalShape'
  BY <1>1 DEF EndInv, FatalShape
<1> QED
  BY <1>1, <1>6, <1>7 DEF EndInv, RefusedInv

LEMMA EndingEnds ==
    ASSUME ErrorsInv, EndInv, Ending
    PROVE  EndInv'
<1>1. \A neutral, drain : \A results \in Returned(Phases(neutral, drain)) : Shut(results)
  BY ReturnedShut
<1>2. CASE Close
  <2>1. PICK results :
            /\ worker = "running" /\ UNCHANGED failure
            /\ results \in Returned(Phases(latch = "neutral" /\ connected, latch # "dropped"))
            /\ Leaves(None, results, record_first_failure(results))
    BY <1>2 DEF Close
  <2>2. Shut(results)
    BY <1>1, <2>1
  <2> QED
    BY <2>1, <2>2, LeavesEnds
<1>3. CASE Fail
  <2>1. PICK results : /\ worker = "running" /\ ending # None /\ StatusFails(ending)
                       /\ results \in Returned(Phases(FALSE, TRUE))
                       /\ Leaves(ending, results, record_first_failure(results))
    BY <1>3 DEF Fail
  <2>2. Shut(results)
    BY <1>1, <2>1
  <2> QED
    BY <2>1, <2>2, LeavesEnds
<1>4. CASE Panics
  <2>1. /\ worker = "running" /\ StatusFails(Panicked)
        /\ \/ \E results \in Returned(Phases(FALSE, TRUE)) :
                  Leaves(Panicked, results, record_first_failure(results))
           \/ Leaves(Panicked, <<>>, None)
    BY <1>4 DEF Panics, Running
  <2>2. Panicked # None
    BY DEF Panicked, None
  <2>3. DOMAIN <<>> = 1..0
    OBVIOUS
  <2>4. Shut(<<>>) /\ record_first_failure(<<>>) = None
    BY <2>3, FirstOfNone DEF Shut, Listed
  <2>5. PICK results : Shut(results) /\ Leaves(Panicked, results, record_first_failure(results))
    BY <1>1, <2>1, <2>4
  <2> QED
    BY <2>1, <2>2, <2>5, LeavesEnds
<1>5. CASE TeardownPanics
  <2>1. /\ outcome # Alive /\ ~outcome.panicked /\ StatusFails(Panicked)
        /\ outcome' = [outcome EXCEPT !.panicked = TRUE]
        /\ UNCHANGED <<fatal, worker, shutting, answer, met>>
    BY <1>5 DEF TeardownPanics, call
  <2>2. PICK cause, cleanup, panicked :
            outcome = [of |-> "Ended", cause |-> cause, cleanup |-> cleanup,
                       panicked |-> panicked]
    BY <2>1 DEF ErrorsInv, OutcomeShape
  <2>3. outcome' = [of |-> "Ended", cause |-> cause, cleanup |-> cleanup, panicked |-> TRUE]
    BY <2>1, <2>2
  <2>4. /\ outcome'.cause = cause /\ outcome.cause = cause
        /\ outcome'.cleanup = cleanup /\ outcome.cleanup = cleanup
        /\ outcome'.panicked
    BY <2>2, <2>3
  <2>5. OutcomeInv
    BY <2>1 DEF EndInv
  <2>6. StatusInv'
    <3>1. CASE cause = None
      <4>1. failure = NoFailure
        BY <2>1, <2>4, <2>5, <3>1 DEF OutcomeInv, StatusInv
      <4>2. failure'.category = "Panicked"
        BY <2>1, <4>1 DEF StatusFails, worker_failure_category, Panicked
      <4> QED
        BY <2>4, <3>1, <4>2 DEF StatusInv
    <3>2. CASE cause # None
      <4>1. failure.category = worker_failure_category(cause)
        BY <2>4, <2>5, <3>2 DEF OutcomeInv, StatusInv
      <4>2. worker_failure_category(cause) \in {"Transport", "Panicked", "Internal"}
        BY DEF worker_failure_category
      <4>3. NoFailure.category = "none"
        BY DEF NoFailure
      <4>4. failure # NoFailure
        BY <4>1, <4>2, <4>3
      <4> QED
        BY <2>1, <2>4, <3>2, <4>1, <4>4 DEF StatusInv, StatusFails
    <3> QED
      BY <3>1, <3>2
  <2>7. OutcomeInv'
    BY <2>1, <2>4, <2>5, <2>6 DEF OutcomeInv
  <2>8. worker \in {"closed", "failed"}
    BY <2>1 DEF ErrorsInv, OutcomeShape
  <2>9. FatalShape'
    BY <2>1 DEF EndInv, FatalShape
  <2> QED
    BY <2>1, <2>7, <2>8, <2>9 DEF EndInv, RefusedInv
<1> QED
  BY <1>2, <1>3, <1>4, <1>5, StepsEnd DEF Ending

LEMMA EndInit == Init => EndInv
BY DEF Init, EndInv, FatalShape, RefusedInv

LEMMA EndStep ==
    ASSUME ErrorsInv, EndInv, [Next]_vars
    PROVE  EndInv'
<1>1. CASE Gone \/ UNCHANGED vars
  <2>1. UNCHANGED <<worker, fatal, answer, met, shutting, failure, outcome>>
    BY <1>1 DEF Gone, vars, call
  <2> QED
    BY <2>1 DEF EndInv, FatalShape, RefusedInv, OutcomeInv, StatusInv
<1> QED
  BY <1>1, OpeningEnds, StepsEnd, EndingEnds DEF Next

LEMMA AlwaysEnd == Spec => []EndInv
<1>1. EndInv /\ ErrorsInv /\ [Next]_vars => EndInv'
  BY EndStep
<1> QED
  BY <1>1, EndInit, AlwaysErrors, PTL DEF Spec

\* The failures that follow the first of a chain: of the cleanup, of the thread.
LEMMA FollowingFailures ==
    ASSUME NEW cause, NEW cleanup, NEW panicked, NEW results, Shut(results),
           cleanup = record_first_failure(results),
           outcome = [of |-> "Ended", cause |-> cause, cleanup |-> cleanup,
                      panicked |-> panicked]
    PROVE  LET told == First(results) \o (IF panicked THEN <<None>> ELSE <<>>)
           IN  \/ /\ related_failures(outcome) = <<>> /\ told = <<>>
                  /\ ~panicked /\ First(results) = <<>>
               \/ \E kind, at : related_failures(outcome) = <<WithSource(kind, at)>>
                     /\ told = <<RootCause(WithSource(kind, at))>>
               \/ \E k1, c1, k2, c2 :
                     /\ related_failures(outcome) = <<WithSource(k1, c1), WithSource(k2, c2)>>
                     /\ told = <<RootCause(WithSource(k1, c1)), RootCause(WithSource(k2, c2))>>
<1>1. outcome.cleanup = cleanup /\ outcome.panicked = panicked
  OBVIOUS
<1> DEFINE join == WithSource("WorkerFailed", None)
<1>2. map_join_error = join /\ RootCause(join) = None
  BY NoRoot DEF map_join_error, New
<1>3. <<>> \o <<>> = <<>> /\ \A e : <<>> \o <<e>> = <<e>> /\ <<e>> \o <<>> = <<e>>
  <2>1. ASSUME NEW e PROVE <<>> \o <<e>> = <<e>> /\ <<e>> \o <<>> = <<e>>
    <3>1. <<e>> \in Seq({e})
      BY Tuples
    <3> QED
      BY <3>1, ConcatEmptySeq
  <2>2. <<>> \o <<>> = <<>>
    BY EmptySeq, ConcatEmptySeq
  <2> QED
    BY <2>1, <2>2
<1>4. CASE cleanup = None /\ First(results) = <<>>
  <2>1. related_failures(outcome) = <<>> \o (IF panicked THEN <<join>> ELSE <<>>)
    BY <1>1, <1>2, <1>4 DEF related_failures
  <2>2. CASE panicked
    <3>1. related_failures(outcome) = <<join>>
      BY <1>3, <2>1, <2>2
    <3>2. First(results) \o (IF panicked THEN <<None>> ELSE <<>>) = <<RootCause(join)>>
      BY <1>2, <1>3, <1>4, <2>2
    <3> QED
      BY <3>1, <3>2
  <2>3. CASE ~panicked
    BY <1>3, <1>4, <2>1, <2>3
  <2> QED
    BY <2>2, <2>3
<1>5. ASSUME NEW e, IsError(e), cleanup = CleanupFailure(e), First(results) = <<e>>
      PROVE  \/ \E kind, at : related_failures(outcome) = <<WithSource(kind, at)>>
                   /\ First(results) \o (IF panicked THEN <<None>> ELSE <<>>)
                      = <<RootCause(WithSource(kind, at))>>
             \/ \E k1, c1, k2, c2 :
                   /\ related_failures(outcome) = <<WithSource(k1, c1), WithSource(k2, c2)>>
                   /\ First(results) \o (IF panicked THEN <<None>> ELSE <<>>)
                      = <<RootCause(WithSource(k1, c1)), RootCause(WithSource(k2, c2))>>
  <2> DEFINE closing == WithSource(Kinds!map_cleanup_error, CleanupFailure(e))
  <2>1. cleanup # None /\ map_cleanup_error(cleanup) = closing /\ RootCause(closing) = e
    BY <1>5, Roots1 DEF map_cleanup_error, CleanupFailure, None
  <2>2. related_failures(outcome) = <<closing>> \o (IF panicked THEN <<join>> ELSE <<>>)
    BY <1>1, <1>2, <2>1 DEF related_failures
  <2>3. CASE panicked
    <3>1. related_failures(outcome) = <<closing, join>>
      <4> HIDE DEF closing, join
      <4> QED
        BY <2>2, <2>3, Joined2
    <3>2. First(results) \o (IF panicked THEN <<None>> ELSE <<>>)
          = <<RootCause(closing), RootCause(join)>>
      <4> HIDE DEF closing, join
      <4> QED
        BY <1>2, <1>5, <2>1, <2>3, Joined2
    <3> QED
      BY <3>1, <3>2
  <2>4. CASE ~panicked
    <3>1. related_failures(outcome) = <<closing>>
      <4> HIDE DEF closing, join
      <4> QED
        BY <1>3, <2>2, <2>4
    <3>2. First(results) \o (IF panicked THEN <<None>> ELSE <<>>) = <<RootCause(closing)>>
      <4> HIDE DEF closing, join
      <4> QED
        BY <1>3, <1>5, <2>1, <2>4
    <3> QED
      BY <3>1, <3>2
  <2> QED
    BY <2>3, <2>4
<1> QED
  BY <1>4, <1>5, FirstIsKept

\* A chain of at most three failures, grouped either way.
LEMMA Grouped ==
    ASSUME NEW x, NEW q, NEW r, q = <<>> \/ (\E e : q = <<e>>), r = <<>> \/ (\E e : r = <<e>>)
    PROVE  /\ <<>> \o q \o r = q \o r
           /\ <<x>> \o q \o r = <<x>> \o (q \o r)
<1>1. PICK y, z : q \in {<<>>, <<y>>} /\ r \in {<<>>, <<z>>}
  OBVIOUS
<1> DEFINE S == {x, y, z}
<1>2. <<x>> \in Seq(S) /\ <<y>> \in Seq(S) /\ <<z>> \in Seq(S) /\ <<>> \in Seq(S)
  BY Tuples, EmptySeq
<1> HIDE DEF S
<1>3. q \in Seq(S) /\ r \in Seq(S)
  BY <1>1, <1>2
<1>4. <<>> \o q = q
  BY <1>3, ConcatEmptySeq
<1>5. (<<x>> \o q) \o r = <<x>> \o (q \o r)
  BY <1>2, <1>3, ConcatAssociative
<1> QED
  BY <1>4, <1>5

\* The chain of an error whose first failure is `x`.
LEMMA FailureRoots ==
    ASSUME NEW kind, NEW cause, NEW errors, NEW told,
           \/ errors = <<>> /\ told = <<>>
           \/ \E k, c : errors = <<WithSource(k, c)>> /\ told = <<RootCause(WithSource(k, c))>>
           \/ \E k1, c1, k2, c2 :
                 /\ errors = <<WithSource(k1, c1), WithSource(k2, c2)>>
                 /\ told = <<RootCause(WithSource(k1, c1)), RootCause(WithSource(k2, c2))>>
    PROVE  Roots(Linked(WithSource(kind, cause), errors))
           = <<RootCause(WithSource(kind, cause))>> \o told
<1>1. CASE errors = <<>> /\ told = <<>>
  BY <1>1, RootsOfOne, JoinedNone
<1>2. ASSUME NEW b, errors = <<b>>, told = <<RootCause(b)>>
      PROVE  Roots(Linked(WithSource(kind, cause), errors))
             = <<RootCause(WithSource(kind, cause))>> \o told
  BY <1>2, RootsOfTwo, Joined2
<1>3. ASSUME NEW b, NEW c, errors = <<b, c>>, told = <<RootCause(b), RootCause(c)>>
      PROVE  Roots(Linked(WithSource(kind, cause), errors))
             = <<RootCause(WithSource(kind, cause))>> \o told
  BY <1>3, RootsOfThree, Joined3
<1> QED
  BY <1>1, <1>2, <1>3

LEMMA OutcomeRoots ==
    ASSUME ErrorsInv, EndInv, outcome # Alive
    PROVE  Roots(map_worker_outcome(outcome)) =
                (CASE worker = "closed" -> <<>>
                   [] outcome.cause = Panicked -> <<None>>
                   [] OTHER -> First(fatal))
                \o First(shutting)
                \o (IF outcome.panicked THEN <<None>> ELSE <<>>)
<1>1. worker \in {"closed", "failed"}
  BY DEF ErrorsInv, OutcomeShape
<1>2. PICK cause, cleanup, panicked :
          outcome = [of |-> "Ended", cause |-> cause, cleanup |-> cleanup,
                     panicked |-> panicked]
  BY <1>1 DEF ErrorsInv, OutcomeShape
<1>3. /\ outcome.cause = cause /\ outcome.panicked = panicked
      /\ Shut(shutting) /\ cleanup = record_first_failure(shutting)
      /\ worker = "closed" <=> cause = None
  BY <1>2 DEF EndInv, OutcomeInv
<1> DEFINE errors == related_failures(outcome)
           ends == IF panicked THEN <<None>> ELSE <<>>
           told == First(shutting) \o ends
<1>4. \/ errors = <<>> /\ told = <<>>
      \/ \E k, c : errors = <<WithSource(k, c)>> /\ told = <<RootCause(WithSource(k, c))>>
      \/ \E k1, c1, k2, c2 :
            /\ errors = <<WithSource(k1, c1), WithSource(k2, c2)>>
            /\ told = <<RootCause(WithSource(k1, c1)), RootCause(WithSource(k2, c2))>>
  BY <1>2, <1>3, FollowingFailures
<1>5. /\ <<>> \o First(shutting) \o ends = told
      /\ \A x : <<x>> \o First(shutting) \o ends = <<x>> \o told
  <2>1. First(shutting) = <<>> \/ \E e : First(shutting) = <<e>>
    BY DEF First
  <2>2. ends = <<>> \/ \E e : ends = <<e>>
    OBVIOUS
  <2> HIDE DEF ends
  <2> QED
    BY <2>1, <2>2, Grouped
<1> HIDE DEF errors, ends, told
<1>6. CASE cause = None
  <2>1. map_worker_outcome(outcome) = IF errors = <<>> THEN None
                                      ELSE Linked(Head(errors), Tail(errors))
    BY <1>3, <1>6 DEF map_worker_outcome, errors
  <2>2. Roots(map_worker_outcome(outcome)) = told
    <3>1. CASE errors = <<>> /\ told = <<>>
      BY <2>1, <3>1 DEF Roots
    <3>2. ASSUME NEW k, NEW c, errors = <<WithSource(k, c)>>,
                 told = <<RootCause(WithSource(k, c))>>
          PROVE  Roots(map_worker_outcome(outcome)) = told
      <4>1. Head(errors) = WithSource(k, c) /\ Tail(errors) = <<>> /\ errors # <<>>
        BY <3>2
      <4> QED
        BY <2>1, <3>2, <4>1, RootsOfOne
    <3>3. ASSUME NEW k, NEW c, NEW b, errors = <<WithSource(k, c), b>>,
                 told = <<RootCause(WithSource(k, c)), RootCause(b)>>
          PROVE  Roots(map_worker_outcome(outcome)) = told
      <4>1. Head(errors) = WithSource(k, c) /\ Tail(errors) = <<b>> /\ errors # <<>>
        BY <3>3
      <4> QED
        BY <2>1, <3>3, <4>1, RootsOfTwo
    <3> QED
      BY <1>4, <3>1, <3>2, <3>3
  <2>3. (CASE worker = "closed" -> <<>>
           [] outcome.cause = Panicked -> <<None>>
           [] OTHER -> First(fatal)) = <<>>
    <3>1. outcome.cause # Panicked
      BY <1>3, <1>6 DEF Panicked, None
    <3> QED
      BY <1>3, <1>6, <3>1
  <2>4. <<>> \o First(shutting) \o ends = told
    BY <1>5
  <2> QED
    BY <1>3, <2>2, <2>3, <2>4 DEF ends
<1>7. CASE cause # None
  <2>1. map_worker_outcome(outcome) = Linked(map_worker_failure(cause), errors)
    BY <1>3, <1>7 DEF map_worker_outcome, errors
  <2>2. worker = "failed"
    BY <1>1, <1>3, <1>7
  <2>3. ASSUME NEW kind, NEW x, map_worker_failure(cause) = WithSource(kind, x)
        PROVE  Roots(map_worker_outcome(outcome)) = <<RootCause(WithSource(kind, x))>> \o told
    BY <1>4, <2>1, <2>3, FailureRoots
  <2>4. CASE cause = Panicked
    <3>1. map_worker_failure(cause) = WithSource("WorkerFailed", None)
      BY <2>4 DEF map_worker_failure, Panicked, New
    <3>2. RootCause(WithSource("WorkerFailed", None)) = None
      BY NoRoot DEF New
    <3>3. Roots(map_worker_outcome(outcome)) = <<None>> \o told
      BY <2>3, <3>1, <3>2
    <3>4. (CASE worker = "closed" -> <<>>
             [] outcome.cause = Panicked -> <<None>>
             [] OTHER -> First(fatal)) = <<None>>
      BY <1>3, <2>2, <2>4
    <3>5. <<None>> \o First(shutting) \o ends = <<None>> \o told
      BY <1>5
    <3> QED
      BY <1>3, <3>3, <3>4, <3>5 DEF ends
  <2>5. ASSUME NEW error, fatal = <<error>>, cause = CoreTransport(error)
        PROVE  Roots(map_worker_outcome(outcome)) =
                (CASE worker = "closed" -> <<>>
                   [] outcome.cause = Panicked -> <<None>>
                   [] OTHER -> First(fatal))
                \o First(shutting)
                \o (IF outcome.panicked THEN <<None>> ELSE <<>>)
    <3>1. IsError(error)
      BY <2>2, <2>5 DEF EndInv, FatalShape
    <3>2. \E kind : map_worker_failure(cause) = WithSource(kind, error)
      BY <2>5 DEF map_worker_failure, map_worker_core_error, CoreTransport
    <3>3. cause # Panicked
      BY <2>5 DEF CoreTransport, Panicked
    <3>4. First(fatal) = <<error>>
      BY <2>5, <3>1, Roots1, FirstOfOne
    <3>5. Roots(map_worker_outcome(outcome)) = <<error>> \o told
      BY <2>3, <3>1, <3>2, Roots1
    <3> QED
      BY <1>3, <1>5, <2>2, <3>3, <3>4, <3>5 DEF ends
  <2>6. cause = Panicked \/ \E error : fatal = <<error>> /\ cause = CoreTransport(error)
    BY <1>3, <2>2 DEF ErrorsInv, EndingInv
  <2> QED
    BY <2>4, <2>5, <2>6
<1> QED
  BY <1>6, <1>7

\* Every failure reaches someone.  A caller is answered with the first error
\* its command met, or with what cut it short, and told Ok only when nothing
\* went wrong; the outcome of a worker chains why it ended, the first failure
\* of its cleanup and the panic of its thread in that order, the status names
\* the same cause, and a transport that could not be opened tells that first.
THEOREM FailuresReachTheirCallers == Spec => []FailuresAreTold
<1>1. ErrorsInv /\ EndInv => EndsAreTold
  <2> SUFFICES ASSUME ErrorsInv, EndInv PROVE EndsAreTold
    OBVIOUS
  <2>1. ASSUME outcome # Alive
        PROVE  failure.category =
                CASE outcome.cause # None -> worker_failure_category(outcome.cause)
                  [] outcome.cause = None /\ outcome.panicked -> "Panicked"
                  [] OTHER -> "none"
    <3>1. StatusInv
      BY <2>1 DEF EndInv, OutcomeInv
    <3>2. NoFailure.category = "none"
      BY DEF NoFailure
    <3>3. CASE outcome.cause # None
      BY <3>1, <3>3 DEF StatusInv
    <3>4. CASE outcome.cause = None /\ outcome.panicked
      BY <3>1, <3>4 DEF StatusInv
    <3>5. CASE outcome.cause = None /\ ~outcome.panicked
      BY <3>1, <3>2, <3>5 DEF StatusInv
    <3> QED
      BY <3>3, <3>4, <3>5
  <2>2. worker = "refused" => Roots(answer) = First(met) \o First(shutting)
    BY DEF EndInv, RefusedInv
  <2> QED
    BY <2>1, <2>2, OutcomeRoots DEF EndsAreTold
<1> QED
  BY <1>1, CallersHear, AlwaysErrors, AlwaysCall, AlwaysEnd, PTL DEF FailuresAreTold
=============================================================================
