------------------------ MODULE ToolsEvidenceProofs ------------------------
(***************************************************************************)
(* What a scenario of the hardware runner exits with is what its evidence  *)
(* says, for any arguments, disks, paths and errors.                       *)
(*                                                                         *)
(* The evidence is a list that only grows.  Wherever a scenario is, some n *)
(* of its operations have completed in their order, and either something   *)
(* in the evidence speaks against the scenario or what it has passed is    *)
(* what a success needs by then: Stands says so for a place in the         *)
(* scenario, and one lemma for each way to write keeps it.                 *)
(***************************************************************************)
EXTENDS ToolsProofs, FiniteSetTheorems

-----------------------------------------------------------------------------
(* What a scenario exits with is what its evidence says                     *)

IsList(log) == \E S : log \in Seq(S)
Told(log) == \E i \in DOMAIN log : Tells(log[i])
Count(log, event) == Cardinality(Positions(log, event))

\* What an event more makes of the evidence.
LEMMA OnLog ==
    ASSUME NEW log, IsList(log), NEW e
    PROVE  /\ IsList(Append(log, e)) /\ Len(log) \in Nat
           /\ DOMAIN log = 1 .. Len(log) /\ DOMAIN Append(log, e) = 1 .. (Len(log) + 1)
           /\ Len(Append(log, e)) = Len(log) + 1
           /\ \A i \in 1 .. Len(log) : Append(log, e)[i] = log[i]
           /\ Append(log, e)[Len(log) + 1] = e
<1>1. PICK S : log \in Seq(S)
  BY DEF IsList
<1>2. log \in Seq(S \cup {e}) /\ e \in S \cup {e}
  BY <1>1
<1>3. /\ Append(log, e) \in Seq(S \cup {e}) /\ Len(Append(log, e)) = Len(log) + 1
      /\ \A i \in 1 .. Len(log) : Append(log, e)[i] = log[i]
      /\ Append(log, e)[Len(log) + 1] = e
  BY <1>2, AppendProperties
<1>4. Len(log) \in Nat /\ DOMAIN log = 1 .. Len(log)
  BY <1>2
<1>5. DOMAIN Append(log, e) = 1 .. (Len(log) + 1)
  BY <1>3
<1> QED
  BY <1>3, <1>4, <1>5 DEF IsList

LEMMA ToldOn ==
    ASSUME NEW log, IsList(log), NEW e
    PROVE  Told(Append(log, e)) <=> Told(log) \/ Tells(e)
<1> DEFINE more == Append(log, e)
           n == Len(log)
<1>1. /\ n \in Nat /\ DOMAIN log = 1 .. n /\ DOMAIN more = 1 .. (n + 1)
      /\ \A i \in 1 .. n : more[i] = log[i]
      /\ more[n + 1] = e
  BY OnLog
<1> HIDE DEF more, n
<1>2. \A i \in 1 .. (n + 1) : i \in 1 .. n \/ i = n + 1
  BY <1>1
<1>3. n + 1 \in 1 .. (n + 1) /\ \A i \in 1 .. n : i \in 1 .. (n + 1)
  BY <1>1
<1> SUFFICES Told(more) <=> Told(log) \/ Tells(e)
  BY DEF more
<1>4. ASSUME Told(more) PROVE Told(log) \/ Tells(e)
  <2>1. PICK i \in 1 .. (n + 1) : Tells(more[i])
    BY <1>1, <1>4 DEF Told
  <2> QED
    BY <1>1, <1>2, <2>1 DEF Told
<1>5. ASSUME Told(log) PROVE Told(more)
  <2>1. PICK i \in 1 .. n : Tells(log[i])
    BY <1>1, <1>5 DEF Told
  <2> QED
    BY <1>1, <1>3, <2>1 DEF Told
<1>6. ASSUME Tells(e) PROVE Told(more)
  BY <1>1, <1>3, <1>6 DEF Told
<1> QED
  BY <1>4, <1>5, <1>6

LEMMA PositionsOn ==
    ASSUME NEW log, IsList(log), NEW e, NEW event
    PROVE  /\ Positions(Append(log, e), event)
              = IF e.event = event THEN Positions(log, event) \cup {Len(log) + 1}
                ELSE Positions(log, event)
           /\ Len(log) \in Nat /\ Positions(log, event) \subseteq 1 .. Len(log)
           /\ IsFiniteSet(Positions(log, event))
<1> DEFINE more == Append(log, e)
           n == Len(log)
<1>1. /\ n \in Nat /\ DOMAIN log = 1 .. n /\ DOMAIN more = 1 .. (n + 1)
      /\ \A i \in 1 .. n : more[i] = log[i]
      /\ more[n + 1] = e
  BY OnLog
<1> HIDE DEF more, n
<1>2. 1 .. (n + 1) = (1 .. n) \cup {n + 1}
  BY <1>1
<1>3. Positions(log, event) \subseteq 1 .. n
  BY <1>1 DEF Positions
<1>4. Positions(more, event) = IF e.event = event THEN Positions(log, event) \cup {n + 1}
                               ELSE Positions(log, event)
  BY <1>1, <1>2 DEF Positions
<1>5. IsFiniteSet(1 .. n)
  BY <1>1, FS_Interval
<1>6. IsFiniteSet(Positions(log, event))
  BY <1>3, <1>5, FS_Subset
<1> QED
  BY <1>1, <1>3, <1>4, <1>6 DEF more, n

LEMMA CountOn ==
    ASSUME NEW log, IsList(log), NEW e, NEW event
    PROVE  /\ Count(log, event) \in Nat
           /\ Count(Append(log, e), event)
              = IF e.event = event THEN Count(log, event) + 1 ELSE Count(log, event)
<1> DEFINE before == Positions(log, event)
           n == Len(log) + 1
<1>1. /\ Positions(Append(log, e), event) = IF e.event = event THEN before \cup {n} ELSE before
      /\ n \notin before /\ IsFiniteSet(before)
  BY PositionsOn
<1>2. Cardinality(before) \in Nat
  BY <1>1, FS_CardinalityType
<1>3. Cardinality(before \cup {n}) = Cardinality(before) + 1
  BY <1>1, FS_AddElement
<1> QED
  BY <1>1, <1>2, <1>3 DEF Count

\* An event that is not an operation's, and the next operation's.
LEMMA CompletedOn ==
    ASSUME NEW log, IsList(log), NEW e, NEW operations, NEW n \in Nat,
           Completed(log, operations, n)
    PROVE  /\ e.event # "operation_complete" => Completed(Append(log, e), operations, n)
           /\ e.event = "operation_complete" /\ e.operation = operations[n + 1].name
              => Completed(Append(log, e), operations, n + 1)
<1> DEFINE event == "operation_complete"
           more == Append(log, e)
           before == Positions(log, event)
           after == Positions(more, event)
           last == Len(log) + 1
<1>1. /\ after = IF e.event = event THEN before \cup {last} ELSE before
      /\ last \in Nat /\ \A i \in before : i \in Nat /\ i < last
      /\ IsFiniteSet(before)
  <2>1. /\ after = IF e.event = event THEN before \cup {last} ELSE before
        /\ Len(log) \in Nat /\ before \subseteq 1 .. Len(log) /\ IsFiniteSet(before)
    BY PositionsOn
  <2> HIDE DEF before, after
  <2> QED
    BY <2>1
<1>2. \A i \in before : more[i] = log[i]
  BY OnLog DEF Positions
<1>3. more[last] = e
  BY OnLog
<1>4. /\ Cardinality(before) = n
      /\ \A i \in before : log[i].operation = operations[Rank(log, event, i)].name
  BY DEF Completed
<1>5. \A i \in before : Rank(more, event, i) = Rank(log, event, i)
  <2> TAKE i \in before
  <2>1. {j \in after : j <= i} = {j \in before : j <= i}
    BY <1>1
  <2> QED
    BY <2>1 DEF Rank
<1>6. Cardinality(after) = IF e.event = event THEN n + 1 ELSE n
  <2>1. last \notin before
    BY <1>1
  <2>2. Cardinality(before \cup {last}) = Cardinality(before) + 1
    BY <1>1, <2>1, FS_AddElement
  <2> QED
    BY <1>1, <1>4, <2>2
<1>7. e.event = event => Rank(more, event, last) = n + 1
  <2>1. e.event = event => {j \in after : j <= last} = after
    BY <1>1
  <2> QED
    BY <1>6, <2>1 DEF Rank
<1> HIDE DEF before, after, last, more
<1>8. ASSUME e.event # event PROVE Completed(more, operations, n)
  <2>1. \A i \in after : more[i].operation = operations[Rank(more, event, i)].name
    BY <1>1, <1>2, <1>4, <1>5, <1>8
  <2> QED
    BY <1>6, <1>8, <2>1 DEF Completed, after
<1>9. ASSUME e.event = event, e.operation = operations[n + 1].name
      PROVE  Completed(more, operations, n + 1)
  <2>1. \A i \in before : more[i].operation = operations[Rank(more, event, i)].name
    BY <1>2, <1>4, <1>5
  <2>2. more[last].operation = operations[Rank(more, event, last)].name
    BY <1>3, <1>7, <1>9
  <2>3. \A i \in after : more[i].operation = operations[Rank(more, event, i)].name
    BY <1>1, <1>9, <2>1, <2>2
  <2> QED
    BY <1>6, <1>9, <2>3 DEF Completed, after
<1> QED
  BY <1>8, <1>9 DEF more

-----------------------------------------------------------------------------
(* The events of a scenario                                                 *)

\* What evidence_event writes.
Evident(dimensions, event, fields) ==
    [name \in {"schema_version", "event"} \cup DOMAIN dimensions \cup DOMAIN fields |->
        CASE name = "schema_version" -> 1
          [] name = "event" -> event
          [] OTHER -> IF name \in DOMAIN dimensions THEN dimensions[name] ELSE fields[name]]

\* The dimensions of a scenario are not what tells of its end.
Telling == {"event", "success", "operation", "input_reports_accepted_delta"} \cup Findings
Dimensions == {"model", "mode", "connection", "operator_setup", "run_index"}

LEMMA EventIs ==
    ASSUME NEW dimensions, DOMAIN dimensions \subseteq Dimensions, NEW event, NEW fields
    PROVE  /\ Evident(dimensions, event, fields).event = event
           /\ \A name \in DOMAIN fields \cap (Telling \ {"event"}) :
                /\ name \in DOMAIN Evident(dimensions, event, fields)
                /\ Evident(dimensions, event, fields)[name] = fields[name]
<1>1. "event" \in DOMAIN Evident(dimensions, event, fields)
  BY DEF Evident
<1>2. \A name \in Telling \ {"event"} : name # "schema_version" /\ name \notin Dimensions
  BY DEF Telling, Findings, Dimensions
<1> QED
  BY <1>2 DEF Evident

\* Events that neither tell of a failure nor count.
Counted == {"operation_complete", "close_complete", "adapter_reopen_complete"}
Speaking == Counted \cup {"operation_failure", "direct_idle_complete", "profile_postflight"}
Quiet(e) == e.event \notin Counted /\ ~Tells(e)

LEMMA SpeaksNot ==
    ASSUME NEW e, e.event \notin Speaking PROVE Quiet(e)
BY DEF Quiet, Tells, Speaking, Counted

LEMMA FailureTells ==
    ASSUME NEW e, e.event = "operation_failure" PROVE Tells(e) /\ e.event \notin Counted
BY DEF Tells, Counted

LEMMA CountedTellsNot ==
    ASSUME NEW e, e.event \in Counted PROVE ~Tells(e)
BY DEF Tells, Counted

-----------------------------------------------------------------------------
(* What the evidence says, and what has been passed                         *)

Evidence(log, passed, needs, operations, n) ==
    /\ IsList(log)
    /\ passed \subseteq needs \cup {"pre_input"}
    /\ Told(log) <=> ~(needs \subseteq passed)
    /\ Count(log, "close_complete") = IF "close" \in passed THEN 1 ELSE 0
    /\ Count(log, "adapter_reopen_complete") = IF "reopen" \in passed THEN 1 ELSE 0
    /\ n \in Nat /\ Completed(log, operations, n)

LEMMA NothingWritten ==
    ASSUME NEW operations PROVE Evidence(<<>>, {}, {}, operations, 0)
<1>1. <<>> \in Seq({}) /\ DOMAIN <<>> = {}
  OBVIOUS
<1>2. \A event : Positions(<<>>, event) = {}
  BY <1>1 DEF Positions
<1>3. Cardinality({}) = 0
  BY FS_EmptySet
<1> QED
  BY <1>1, <1>2, <1>3 DEF Evidence, IsList, Told, Count, Completed

LEMMA QuietStep ==
    ASSUME NEW log, NEW passed, NEW needs, NEW operations, NEW n,
           Evidence(log, passed, needs, operations, n), NEW e, Quiet(e)
    PROVE  Evidence(Append(log, e), passed, needs, operations, n)
<1> DEFINE more == Append(log, e)
<1>1. /\ IsList(log) /\ e.event \notin Counted /\ n \in Nat /\ Completed(log, operations, n)
      /\ ~Tells(e)
  BY DEF Evidence, Quiet
<1>2. IsList(more) /\ (Told(more) <=> Told(log))
  BY <1>1, OnLog, ToldOn
<1>3. \A event \in Counted : Count(more, event) = Count(log, event)
  BY <1>1, CountOn
<1>4. Completed(more, operations, n)
  BY <1>1, CompletedOn DEF Counted
<1> HIDE DEF more
<1> QED
  BY <1>2, <1>3, <1>4 DEF Evidence, Counted, more

\* A failure is told, and something that is still needed is not passed.
LEMMA FailStep ==
    ASSUME NEW log, NEW passed, NEW needs, NEW operations, NEW n,
           Evidence(log, passed, needs, operations, n),
           NEW e, Tells(e), e.event \notin Counted,
           NEW more, needs \subseteq more, NEW check \in more \ (needs \cup {"pre_input"})
    PROVE  Evidence(Append(log, e), passed, more, operations, n) /\ Told(Append(log, e))
<1> DEFINE longer == Append(log, e)
<1>1. IsList(log) /\ n \in Nat /\ Completed(log, operations, n) /\ check \notin passed
  BY DEF Evidence
<1>2. IsList(longer) /\ Told(longer)
  BY <1>1, OnLog, ToldOn
<1>3. \A event \in Counted : Count(longer, event) = Count(log, event)
  BY <1>1, CountOn
<1>4. Completed(longer, operations, n)
  BY <1>1, CompletedOn DEF Counted
<1> HIDE DEF longer
<1>5. passed \subseteq more \cup {"pre_input"} /\ ~(more \subseteq passed)
  BY <1>1 DEF Evidence
<1> QED
  BY <1>1, <1>2, <1>3, <1>4, <1>5 DEF Evidence, Counted, longer

LEMMA PassStep ==
    ASSUME NEW log, NEW passed, NEW needs, NEW operations, NEW n,
           Evidence(log, passed, needs, operations, n),
           NEW check, check \notin needs \cup {"pre_input", "close", "reopen"}
    PROVE  Evidence(log, passed \cup {check}, needs \cup {check}, operations, n)
<1>1. check \notin passed
  BY DEF Evidence
<1>2. needs \cup {check} \subseteq passed \cup {check} <=> needs \subseteq passed
  BY <1>1
<1>3. /\ passed \cup {check} \subseteq (needs \cup {check}) \cup {"pre_input"}
      /\ "close" \in passed \cup {check} <=> "close" \in passed
      /\ "reopen" \in passed \cup {check} <=> "reopen" \in passed
  BY DEF Evidence
<1> QED
  BY <1>2, <1>3 DEF Evidence

\* What a scenario does before the input is needed by no success.
LEMMA PreInputStep ==
    ASSUME NEW log, NEW passed, NEW operations, NEW n,
           Evidence(log, passed, {}, operations, n)
    PROVE  Evidence(log, passed \cup {"pre_input"}, {}, operations, n)
BY DEF Evidence

LEMMA CloseStep ==
    ASSUME NEW log, NEW passed, NEW needs, NEW operations, NEW n,
           Evidence(log, passed, needs, operations, n),
           "close" \notin needs, NEW e, e.event = "close_complete"
    PROVE  Evidence(Append(log, e), passed \cup {"close"}, needs \cup {"close"}, operations, n)
<1> DEFINE longer == Append(log, e)
<1>1. /\ IsList(log) /\ n \in Nat /\ Completed(log, operations, n) /\ "close" \notin passed
      /\ ~Tells(e)
  BY CountedTellsNot DEF Evidence, Counted
<1>2. IsList(longer) /\ (Told(longer) <=> Told(log))
  BY <1>1, OnLog, ToldOn
<1>3. /\ Count(longer, "adapter_reopen_complete") = Count(log, "adapter_reopen_complete")
      /\ Count(longer, "close_complete") = Count(log, "close_complete") + 1
  BY <1>1, CountOn
<1>4. Completed(longer, operations, n)
  BY <1>1, CompletedOn
<1>5. /\ passed \cup {"close"} \subseteq (needs \cup {"close"}) \cup {"pre_input"}
      /\ "reopen" \in passed \cup {"close"} <=> "reopen" \in passed
      /\ needs \cup {"close"} \subseteq passed \cup {"close"} <=> needs \subseteq passed
  BY <1>1 DEF Evidence
<1> HIDE DEF longer
<1> QED
  BY <1>1, <1>2, <1>3, <1>4, <1>5 DEF Evidence, longer

LEMMA ReopenStep ==
    ASSUME NEW log, NEW passed, NEW needs, NEW operations, NEW n,
           Evidence(log, passed, needs, operations, n),
           "reopen" \notin needs, NEW e, e.event = "adapter_reopen_complete"
    PROVE  Evidence(Append(log, e), passed \cup {"reopen"}, needs \cup {"reopen"}, operations, n)
<1> DEFINE longer == Append(log, e)
<1>1. /\ IsList(log) /\ n \in Nat /\ Completed(log, operations, n) /\ "reopen" \notin passed
      /\ ~Tells(e)
  BY CountedTellsNot DEF Evidence, Counted
<1>2. IsList(longer) /\ (Told(longer) <=> Told(log))
  BY <1>1, OnLog, ToldOn
<1>3. /\ Count(longer, "adapter_reopen_complete") = Count(log, "adapter_reopen_complete") + 1
      /\ Count(longer, "close_complete") = Count(log, "close_complete")
  BY <1>1, CountOn
<1>4. Completed(longer, operations, n)
  BY <1>1, CompletedOn
<1>5. /\ passed \cup {"reopen"} \subseteq (needs \cup {"reopen"}) \cup {"pre_input"}
      /\ "close" \in passed \cup {"reopen"} <=> "close" \in passed
      /\ needs \cup {"reopen"} \subseteq passed \cup {"reopen"} <=> needs \subseteq passed
  BY <1>1 DEF Evidence
<1> HIDE DEF longer
<1> QED
  BY <1>1, <1>2, <1>3, <1>4, <1>5 DEF Evidence, longer

\* The next operation of the sequence is complete.
LEMMA OperationStep ==
    ASSUME NEW log, NEW passed, NEW needs, NEW operations, NEW n,
           Evidence(log, passed, needs, operations, n),
           NEW e, e.event = "operation_complete", e.operation = operations[n + 1].name
    PROVE  Evidence(Append(log, e), passed, needs, operations, n + 1)
<1> DEFINE longer == Append(log, e)
<1>1. IsList(log) /\ n \in Nat /\ Completed(log, operations, n) /\ ~Tells(e)
  BY CountedTellsNot DEF Evidence, Counted
<1>2. IsList(longer) /\ (Told(longer) <=> Told(log))
  BY <1>1, OnLog, ToldOn
<1>3. /\ Count(longer, "adapter_reopen_complete") = Count(log, "adapter_reopen_complete")
      /\ Count(longer, "close_complete") = Count(log, "close_complete")
  BY <1>1, CountOn
<1>4. Completed(longer, operations, n + 1)
  BY <1>1, CompletedOn
<1> HIDE DEF longer
<1> QED
  BY <1>1, <1>2, <1>3, <1>4 DEF Evidence, longer

\* The last event and what it leaves of the evidence.
LEMMA LastEvent ==
    ASSUME NEW log, IsList(log), NEW e
    PROVE  Last(Append(log, e)) = e
BY OnLog DEF Last

-----------------------------------------------------------------------------
(* Where a scenario is, what it needs and how far its input is              *)

LEMMA Concats ==
    ASSUME NEW log, IsList(log), NEW e, NEW f
    PROVE  /\ log \o <<>> = log /\ log \o <<e>> = Append(log, e)
           /\ log \o <<e, f>> = Append(Append(log, e), f)
           /\ log \o Append(<<>>, e) = Append(log, e)
           /\ log \o Append(<<e>>, f) = Append(Append(log, e), f)
<1>1. PICK S : log \in Seq(S)
  BY DEF IsList
<1> DEFINE T == S \cup {e, f}
<1>2. log \in Seq(T) /\ e \in T /\ f \in T
  BY <1>1
<1>3. log \o <<>> = log /\ log \o <<e>> = Append(log, e)
  BY <1>2
<1>4. log \o <<e, f>> = Append(Append(log, e), f)
  BY <1>2
<1>5. Append(<<>>, e) = <<e>> /\ Append(<<e>>, f) = <<e, f>>
  <2>1. <<>> \in Seq(T) /\ Len(<<>>) = 0
    OBVIOUS
  <2>2. <<e>> \in Seq(T) /\ Len(<<e>>) = 1 /\ <<e>>[1] = e
    BY <1>2
  <2>3. <<e, f>> \in Seq(T) /\ Len(<<e, f>>) = 2 /\ <<e, f>>[1] = e /\ <<e, f>>[2] = f
    BY <1>2
  <2>4. Append(<<>>, e) \in Seq(T) /\ Len(Append(<<>>, e)) = 1 /\ Append(<<>>, e)[1] = e
    BY <1>2, <2>1, AppendProperties
  <2>5. /\ Append(<<e>>, f) \in Seq(T) /\ Len(Append(<<e>>, f)) = 2
        /\ Append(<<e>>, f)[1] = e /\ Append(<<e>>, f)[2] = f
    BY <1>2, <2>2, AppendProperties
  <2> HIDE DEF T
  <2>6. Append(<<>>, e) = <<e>>
    BY <2>2, <2>4, SeqEqual
  <2>7. \A i \in 1 .. 2 : i = 1 \/ i = 2
    OBVIOUS
  <2>8. Append(<<e>>, f) = <<e, f>>
    BY <2>3, <2>5, <2>7, SeqEqual
  <2> QED
    BY <2>6, <2>8
<1> QED
  BY <1>3, <1>4, <1>5

\* What is left of a list after its first n elements.
Rest(list, n) == SubSeq(list, n + 1, Len(list))
LEMMA RestIs ==
    ASSUME NEW list, IsList(list), NEW n \in 0 .. Len(list)
    PROVE  /\ Len(list) \in Nat /\ Rest(list, 0) = list
           /\ Rest(list, n) = <<>> <=> n = Len(list)
           /\ n # Len(list) => /\ n + 1 \in 0 .. Len(list)
                               /\ Head(Rest(list, n)) = list[n + 1]
                               /\ Tail(Rest(list, n)) = Rest(list, n + 1)
<1>1. PICK S : list \in Seq(S)
  BY DEF IsList
<1>2. Len(list) \in Nat
  BY <1>1
<1>3. Rest(list, 0) = list
  BY <1>1 DEF Rest
<1>4. Rest(list, n) = <<>> <=> n = Len(list)
  <2>1. /\ Rest(list, n) \in Seq(S)
        /\ Len(Rest(list, n)) = IF n + 1 <= Len(list) THEN Len(list) - n ELSE 0
    BY <1>1, <1>2, SubSeqProperties DEF Rest
  <2> QED
    BY <1>2, <2>1, EmptySeq
<1>5. ASSUME n # Len(list)
      PROVE  /\ n + 1 \in 0 .. Len(list)
             /\ Head(Rest(list, n)) = list[n + 1]
             /\ Tail(Rest(list, n)) = Rest(list, n + 1)
  <2>1. n + 1 \in 0 .. Len(list) /\ n + 1 <= Len(list)
    BY <1>2, <1>5
  <2>2. Head(Rest(list, n)) = list[n + 1]
    BY <1>1, <1>2, <2>1 DEF Rest
  <2>3. Tail(Rest(list, n)) = Rest(list, n + 1)
    BY <1>1, <1>2, <2>1 DEF Rest
  <2> QED
    BY <2>1, <2>2, <2>3
<1> QED
  BY <1>2, <1>3, <1>4, <1>5

\* The operations of each scenario are a list.
LEMMA Tens ==
    ASSUME NEW a, NEW b, NEW c, NEW d, NEW e, NEW f, NEW g, NEW h, NEW i, NEW j
    PROVE  <<a, b, c, d, e, f, g, h, i, j>> \in Seq({a, b, c, d, e, f, g, h, i, j})
OBVIOUS
LEMMA Elevens ==
    ASSUME NEW a, NEW b, NEW c, NEW d, NEW e, NEW f, NEW g, NEW h, NEW i, NEW j, NEW k
    PROVE  IsList(<<a, b, c, d, e, f, g, h, i, j, k>>)
<1>1. <<a, b, c, d, e, f, g, h, i, j, k>> \in Seq({a, b, c, d, e, f, g, h, i, j, k})
  OBVIOUS
<1> QED
  BY <1>1 DEF IsList
LEMMA Twelves ==
    ASSUME NEW a, NEW b, NEW c, NEW d, NEW e, NEW f, NEW g, NEW h, NEW i, NEW j, NEW k, NEW l
    PROVE  IsList(<<a, b, c, d, e, f, g, h, i, j, k, l>>)
<1>1. <<a, b, c, d, e, f, g, h, i, j, k, l>> \in Seq({a, b, c, d, e, f, g, h, i, j, k, l})
  OBVIOUS
<1> QED
  BY <1>1 DEF IsList
LEMMA TenAndOne ==
    ASSUME NEW a, NEW b, NEW c, NEW d, NEW e, NEW f, NEW g, NEW h, NEW i, NEW j, NEW k
    PROVE  IsList(<<a, b, c, d, e, f, g, h, i, j>> \o <<k>>)
<1> DEFINE S == {a, b, c, d, e, f, g, h, i, j}
           list == <<a, b, c, d, e, f, g, h, i, j>>
<1>1. list \in Seq(S)
  BY Tens
<1>2. <<k>> \in Seq({k})
  OBVIOUS
<1> HIDE DEF list, S
<1>3. list \in Seq(S \cup {k}) /\ <<k>> \in Seq(S \cup {k})
  BY <1>1, <1>2
<1>4. list \o <<k>> \in Seq(S \cup {k})
  BY <1>3
<1> QED
  BY <1>4 DEF IsList, list

LEMMA OperationsAreList ==
    ASSUME NEW job, job.name \in Runner!Scenarios PROVE IsList(Operations(job))
<1>1. CASE job.name = "joycon-profile"
  <2>1. IsList(Runner!JoyCon!run_left_input_sequence(job.mode))
    BY TenAndOne, Zenon
    DEF Runner!JoyCon!run_left_input_sequence, Runner!JoyCon!run_explicit_neutral
  <2>2. IsList(Runner!JoyCon!run_right_input_sequence(job.mode))
    BY TenAndOne, Zenon
    DEF Runner!JoyCon!run_right_input_sequence, Runner!JoyCon!run_explicit_neutral
  <2>3. Operations(job) = Runner!JoyCon!run_input_sequence(job)
    BY <1>1 DEF Operations
  <2> QED
    BY <2>1, <2>2, <2>3 DEF Runner!JoyCon!run_input_sequence
<1>2. CASE job.name = "pro-profile"
  <2>1. IsList(Runner!Profile!run_input_sequence(job.mode))
    BY Elevens, Zenon DEF Runner!Profile!run_input_sequence
  <2>2. Operations(job) = IF Runner!Profile!expects_connection(job)
                          THEN Runner!Profile!run_input_sequence(job.mode) ELSE <<>>
    BY <1>2 DEF Operations
  <2>3. <<>> \in Seq({})
    OBVIOUS
  <2>4. IsList(<<>>)
    BY <2>3 DEF IsList
  <2> QED
    BY <2>1, <2>2, <2>4
<1>3. CASE job.name = "pro-periodic"
  <2>1. IsList(Runner!Periodic!run_input_sequence)
    BY Twelves, Zenon DEF Runner!Periodic!run_input_sequence
  <2> QED
    BY <1>3, <2>1 DEF Operations
<1> QED
  BY <1>1, <1>2, <1>3 DEF Runner!Scenarios

-----------------------------------------------------------------------------
(* What a success needs from where a scenario is                            *)

All == {"idle", "input", "close", "reopen"}
Reopening == {"reopen", "reopen_open", "reopen_close"}
InInput == {"input", "operation"}
Early(name) ==
    {"start", "pair", "build", "open", "reconnect", "ready", "close_expected"}
    \cup (IF name = "joycon-profile" THEN {"close_failed"} ELSE {})
    \cup (IF name = "pro-periodic" THEN {} ELSE {"idle"})
NeedsOf(name, at) ==
    IF at \in Early(name) THEN {}
    ELSE (IF name = "pro-periodic" THEN {"created"} ELSE {"idle"})
         \cup (IF at \in InInput THEN {} ELSE {"input"})
         \cup (IF at \in InInput \cup {"close"} THEN {} ELSE {"close"})
         \cup (IF name # "pro-periodic" \/ at \in InInput \cup {"close", "validate"}
               THEN {} ELSE {"valid"})
         \cup (IF at \in InInput \cup {"close", "validate"} \cup Reopening
               THEN {} ELSE {"reopen"})
Late(name, at) == at \notin Early(name) \cup InInput

\* How far the input is: the first n operations are done.
Progress(name, operations, at, log, todo, n) ==
    /\ n \in 0 .. Len(operations)
    /\ at \in Early(name) => n = 0
    /\ at \in InInput => todo = Rest(operations, n)
    /\ at = "operation" => todo # <<>>
    /\ Late(name, at) => Told(log) \/ n = Len(operations)
Stands(name, operations, at, log, passed, todo) ==
    \E n : /\ Evidence(log, passed, NeedsOf(name, at), operations, n)
           /\ Progress(name, operations, at, log, todo, n)

LEMMA ListLength == ASSUME NEW list, IsList(list) PROVE Len(list) \in Nat
BY DEF IsList

\* A scenario that has not begun.
LEMMA StandsFirst ==
    ASSUME NEW name, NEW operations, IsList(operations), NEW todo
    PROVE  Stands(name, operations, "start", <<>>, {}, todo)
<1>1. "start" \in Early(name) /\ ~Late(name, "start") /\ "start" \notin InInput
  BY DEF Early, Late, InInput
<1>2. 0 \in 0 .. Len(operations)
  BY ListLength
<1> QED
  BY <1>1, <1>2, NothingWritten DEF Stands, Progress, NeedsOf

\* The evidence is a list, and what is passed is needed.
LEMMA StandsList ==
    ASSUME NEW name, NEW operations, NEW at, NEW log, NEW passed, NEW todo,
           Stands(name, operations, at, log, passed, todo)
    PROVE  /\ IsList(log) /\ (Told(log) <=> ~(NeedsOf(name, at) \subseteq passed))
BY DEF Stands, Evidence

\* A step early in a scenario that says nothing, or nothing that counts.
LEMMA EarlyOn ==
    ASSUME NEW name, NEW operations, NEW at \in Early(name), NEW later \in Early(name),
           NEW log, NEW passed, NEW todo, Stands(name, operations, at, log, passed, todo),
           NEW more, more = log \/ \E e : Quiet(e) /\ more = Append(log, e)
    PROVE  Stands(name, operations, later, more, passed, todo)
<1>1. PICK n : /\ Evidence(log, passed, {}, operations, n)
               /\ n \in 0 .. Len(operations) /\ n = 0
  BY DEF Stands, Progress, NeedsOf
<1>2. Evidence(more, passed, {}, operations, n)
  BY <1>1, QuietStep
<1>3. later \notin InInput /\ ~Late(name, later) /\ NeedsOf(name, later) = {}
  BY DEF Early, InInput, Late, NeedsOf
<1>4. Progress(name, operations, later, more, todo, n)
  BY <1>1, <1>3 DEF Progress, InInput
<1> QED
  BY <1>2, <1>3, <1>4 DEF Stands

LEMMA EarlyPasses ==
    ASSUME NEW name, NEW operations, NEW at \in Early(name), NEW later \in Early(name),
           NEW log, NEW passed, NEW todo, Stands(name, operations, at, log, passed, todo)
    PROVE  Stands(name, operations, later, log, passed \cup {"pre_input"}, todo)
<1>1. PICK n : /\ Evidence(log, passed, {}, operations, n)
               /\ n \in 0 .. Len(operations) /\ n = 0
  BY DEF Stands, Progress, NeedsOf
<1>2. Evidence(log, passed \cup {"pre_input"}, {}, operations, n)
  BY <1>1, PreInputStep
<1>3. later \notin InInput /\ ~Late(name, later) /\ NeedsOf(name, later) = {}
  BY DEF Early, InInput, Late, NeedsOf
<1>4. Progress(name, operations, later, log, todo, n)
  BY <1>1, <1>3 DEF Progress, InInput
<1> QED
  BY <1>2, <1>3, <1>4 DEF Stands

\* A failure leads to where more is needed, and what it is about is not passed.
LEMMA FailsOn ==
    ASSUME NEW name, NEW operations, NEW at, NEW later, Late(name, later),
           NEW log, NEW passed, NEW todo, Stands(name, operations, at, log, passed, todo),
           NEW e, Tells(e), e.event \notin Counted,
           NeedsOf(name, at) \subseteq NeedsOf(name, later),
           NEW check \in NeedsOf(name, later) \ (NeedsOf(name, at) \cup {"pre_input"})
    PROVE  Stands(name, operations, later, Append(log, e), passed, todo)
<1>1. PICK n : /\ Evidence(log, passed, NeedsOf(name, at), operations, n)
               /\ n \in 0 .. Len(operations)
  BY DEF Stands, Progress
<1>2. /\ Evidence(Append(log, e), passed, NeedsOf(name, later), operations, n)
      /\ Told(Append(log, e))
  BY <1>1, FailStep
<1>3. Progress(name, operations, later, Append(log, e), todo, n)
  BY <1>1, <1>2 DEF Progress, Late, InInput
<1> QED
  BY <1>2, <1>3 DEF Stands

\* After the input nothing is done that an earlier failure is forgotten by.
LEMMA LateOn ==
    ASSUME NEW name, NEW operations, NEW at, Late(name, at), NEW later, Late(name, later),
           NEW log, NEW passed, NEW todo, Stands(name, operations, at, log, passed, todo),
           NEW more, more = log \/ \E e : Quiet(e) /\ more = Append(log, e),
           NeedsOf(name, later) = NeedsOf(name, at)
    PROVE  Stands(name, operations, later, more, passed, todo)
<1>1. PICK n : /\ Evidence(log, passed, NeedsOf(name, at), operations, n)
               /\ n \in 0 .. Len(operations) /\ (Told(log) \/ n = Len(operations))
  BY DEF Stands, Progress
<1>2. Evidence(more, passed, NeedsOf(name, at), operations, n)
  BY <1>1, QuietStep
<1>3. Told(log) => Told(more)
  BY <1>1, <1>2 DEF Evidence
<1>4. Progress(name, operations, later, more, todo, n)
  BY <1>1, <1>3 DEF Progress, Late, InInput
<1> QED
  BY <1>2, <1>4 DEF Stands

LEMMA LatePasses ==
    ASSUME NEW name, NEW operations, NEW at, Late(name, at), NEW later, Late(name, later),
           NEW log, NEW passed, NEW todo, Stands(name, operations, at, log, passed, todo),
           NEW e, NEW check, check \notin NeedsOf(name, at) \cup {"pre_input"},
           \/ check \notin {"close", "reopen"} /\ Quiet(e)
           \/ check = "close" /\ e.event = "close_complete"
           \/ check = "reopen" /\ e.event = "adapter_reopen_complete",
           NeedsOf(name, later) = NeedsOf(name, at) \cup {check}
    PROVE  Stands(name, operations, later, Append(log, e), passed \cup {check}, todo)
<1> DEFINE more == Append(log, e)
           needs == NeedsOf(name, at)
<1>1. PICK n : /\ Evidence(log, passed, needs, operations, n)
               /\ n \in 0 .. Len(operations) /\ (Told(log) \/ n = Len(operations))
  BY DEF Stands, Progress
<1>2. Evidence(more, passed \cup {check}, needs \cup {check}, operations, n)
  <2>1. CASE check \notin {"close", "reopen"} /\ Quiet(e)
    <3>1. Evidence(more, passed, needs, operations, n)
      BY <1>1, <2>1, QuietStep
    <3> HIDE DEF more, needs
    <3>2. check \notin needs \cup {"pre_input", "close", "reopen"}
      BY <2>1 DEF needs
    <3> QED
      BY <3>1, <3>2, PassStep
  <2>2. CASE check = "close" /\ e.event = "close_complete"
    BY <1>1, <2>2, CloseStep
  <2>3. CASE check = "reopen" /\ e.event = "adapter_reopen_complete"
    BY <1>1, <2>3, ReopenStep
  <2> QED
    BY <2>1, <2>2, <2>3
<1>3. Told(log) => Told(more)
  BY <1>1, ToldOn DEF Evidence
<1>4. Progress(name, operations, later, more, todo, n)
  BY <1>1, <1>3 DEF Progress, Late, InInput
<1> QED
  BY <1>2, <1>4 DEF Stands

\* What the input needs, and the close after it.
LEMMA InputNeeds ==
    ASSUME NEW name
    PROVE  /\ NeedsOf(name, "input") = IF name = "pro-periodic" THEN {"created"} ELSE {"idle"}
           /\ NeedsOf(name, "operation") = NeedsOf(name, "input")
           /\ NeedsOf(name, "close") = NeedsOf(name, "input") \cup {"input"}
           /\ "input" \notin NeedsOf(name, "input")
           /\ {"input", "operation", "close"} \cap Early(name) = {}
           /\ InInput = {"input", "operation"} /\ Late(name, "close")
           /\ ~Late(name, "input") /\ ~Late(name, "operation")
<1>1. /\ {"input", "operation", "close"} \cap Early(name) = {} /\ InInput = {"input", "operation"}
      /\ "input" \notin Early(name) /\ "operation" \notin Early(name) /\ "close" \notin Early(name)
      /\ "input" \in InInput /\ "operation" \in InInput /\ "close" \notin InInput
  BY DEF Early, InInput
<1>2. Late(name, "close") /\ ~Late(name, "input") /\ ~Late(name, "operation")
  BY <1>1 DEF Late
<1>3. NeedsOf(name, "input") = IF name = "pro-periodic" THEN {"created"} ELSE {"idle"}
  BY <1>1 DEF NeedsOf
<1>4. NeedsOf(name, "operation") = IF name = "pro-periodic" THEN {"created"} ELSE {"idle"}
  BY <1>1 DEF NeedsOf
<1>5. NeedsOf(name, "close")
      = IF name = "pro-periodic" THEN {"created", "input"} ELSE {"idle", "input"}
  BY <1>1 DEF NeedsOf
<1>6. CASE name = "pro-periodic"
  BY <1>1, <1>2, <1>3, <1>4, <1>5, <1>6
<1>7. CASE name # "pro-periodic"
  BY <1>1, <1>2, <1>3, <1>4, <1>5, <1>7
<1> QED
  BY <1>6, <1>7

\* The input begins, goes on by an operation and is over.
LEMMA InputBegins ==
    ASSUME NEW name, NEW operations, IsList(operations), NEW at \in Early(name),
           NEW log, NEW passed, NEW todo, Stands(name, operations, at, log, passed, todo),
           NEW more, NEW after,
           NEW check, NeedsOf(name, "input") = {check}, check \notin {"pre_input", "close", "reopen"},
           \/ /\ more = log \/ \E e : Quiet(e) /\ more = Append(log, e)
              /\ after = passed \cup {check}
           \/ /\ \E e : Tells(e) /\ e.event \notin Counted /\ more = Append(log, e)
              /\ after = passed
    PROVE  Stands(name, operations, "input", more, after, operations)
<1>1. PICK n : /\ Evidence(log, passed, {}, operations, n)
               /\ n \in 0 .. Len(operations) /\ n = 0
  BY DEF Stands, Progress, NeedsOf
<1>2. Evidence(more, after, {check}, operations, n)
  <2>1. CASE /\ more = log \/ \E e : Quiet(e) /\ more = Append(log, e)
             /\ after = passed \cup {check}
    <3>1. Evidence(more, passed, {}, operations, n)
      <4>1. CASE more = log
        BY <1>1, <4>1
      <4>2. CASE \E e : Quiet(e) /\ more = Append(log, e)
        BY <1>1, <4>2, QuietStep
      <4> QED
        BY <2>1, <4>1, <4>2
    <3>2. check \notin {} \cup {"pre_input", "close", "reopen"}
      OBVIOUS
    <3>3. Evidence(more, passed \cup {check}, {} \cup {check}, operations, n)
      BY <3>1, <3>2, PassStep
    <3>4. {} \cup {check} = {check}
      OBVIOUS
    <3> QED
      BY <2>1, <3>3, <3>4
  <2>2. CASE /\ \E e : Tells(e) /\ e.event \notin Counted /\ more = Append(log, e)
             /\ after = passed
    <3>1. {} \subseteq {check} /\ check \in {check} \ ({} \cup {"pre_input"})
      OBVIOUS
    <3> QED
      BY <1>1, <2>2, <3>1, FailStep
  <2> QED
    BY <2>1, <2>2
<1>3. "input" \notin Early(name) /\ "input" \in InInput /\ ~Late(name, "input")
  BY DEF Early, InInput, Late
<1>4. Progress(name, operations, "input", more, operations, n)
  BY <1>1, <1>3, RestIs DEF Progress
<1> QED
  BY <1>2, <1>4 DEF Stands

LEMMA OperationBegins ==
    ASSUME NEW name, NEW operations, NEW log, NEW passed, NEW todo, NEW at \in InInput,
           Stands(name, operations, at, log, passed, todo), todo # <<>>
    PROVE  Stands(name, operations, "operation", log, passed, todo)
<1>1. PICK n : /\ Evidence(log, passed, NeedsOf(name, at), operations, n)
               /\ n \in 0 .. Len(operations) /\ todo = Rest(operations, n)
  BY DEF Stands, Progress
<1>2. /\ "operation" \notin Early(name) /\ ~Late(name, "operation")
      /\ NeedsOf(name, "operation") = NeedsOf(name, at)
  BY InputNeeds
<1>3. Progress(name, operations, "operation", log, todo, n)
  BY <1>1, <1>2 DEF Progress
<1> QED
  BY <1>1, <1>2, <1>3 DEF Stands

\* The operation that is complete is the next one, also when it is not
\* counted: what follows then is a failure.
LEMMA OperationCompletes ==
    ASSUME NEW name, NEW operations, IsList(operations), NEW log, NEW passed, NEW todo,
           Stands(name, operations, "operation", log, passed, todo),
           NEW e, e.event = "operation_complete", e.operation = Head(todo).name
    PROVE  /\ Stands(name, operations, "input", Append(log, e), passed, Tail(todo))
           /\ \A f, others : Tells(f) /\ f.event \notin Counted
                => Stands(name, operations, "close", Append(Append(log, e), f), passed, others)
<1>1. PICK n : /\ Evidence(log, passed, NeedsOf(name, "operation"), operations, n)
               /\ n \in 0 .. Len(operations) /\ todo = Rest(operations, n) /\ todo # <<>>
  BY DEF Stands, Progress, InInput
<1>2. /\ n # Len(operations) /\ n + 1 \in 0 .. Len(operations)
      /\ Head(todo) = operations[n + 1] /\ Tail(todo) = Rest(operations, n + 1)
  BY <1>1, RestIs
<1>3. Evidence(Append(log, e), passed, NeedsOf(name, "operation"), operations, n + 1)
  BY <1>1, <1>2, OperationStep
<1>4. /\ "input" \notin Early(name) /\ ~Late(name, "input")
      /\ NeedsOf(name, "input") = NeedsOf(name, "operation")
  BY InputNeeds
<1>5. Progress(name, operations, "input", Append(log, e), Tail(todo), n + 1)
  BY <1>2, <1>4 DEF Progress
<1>6. /\ NeedsOf(name, "operation") \subseteq NeedsOf(name, "close")
      /\ "input" \in NeedsOf(name, "close") \ (NeedsOf(name, "operation") \cup {"pre_input"})
      /\ Late(name, "close") /\ "close" \notin Early(name) \cup InInput
  BY InputNeeds
<1>7. ASSUME NEW f, NEW others, Tells(f), f.event \notin Counted
      PROVE  Stands(name, operations, "close", Append(Append(log, e), f), passed, others)
  <2>1. /\ Evidence(Append(Append(log, e), f), passed, NeedsOf(name, "close"), operations, n + 1)
        /\ Told(Append(Append(log, e), f))
    BY <1>3, <1>6, <1>7, FailStep
  <2>2. Progress(name, operations, "close", Append(Append(log, e), f), others, n + 1)
    BY <1>2, <1>6, <2>1 DEF Progress, InInput
  <2> QED
    BY <2>1, <2>2 DEF Stands
<1> QED
  BY <1>3, <1>4, <1>5, <1>7 DEF Stands

LEMMA OperationFails ==
    ASSUME NEW name, NEW operations, NEW log, NEW passed, NEW todo,
           Stands(name, operations, "operation", log, passed, todo),
           NEW e, Tells(e), e.event \notin Counted
    PROVE  Stands(name, operations, "close", Append(log, e), passed, todo)
<1>1. /\ NeedsOf(name, "operation") \subseteq NeedsOf(name, "close")
      /\ "input" \in NeedsOf(name, "close") \ (NeedsOf(name, "operation") \cup {"pre_input"})
      /\ Late(name, "close")
  BY InputNeeds
<1> QED
  BY <1>1, FailsOn

LEMMA InputEnds ==
    ASSUME NEW name, NEW operations, IsList(operations), NEW log, NEW passed,
           Stands(name, operations, "input", log, passed, <<>>)
    PROVE  Stands(name, operations, "close", log, passed \cup {"input"}, <<>>)
<1>1. PICK n : /\ Evidence(log, passed, NeedsOf(name, "input"), operations, n)
               /\ n \in 0 .. Len(operations) /\ <<>> = Rest(operations, n)
  BY DEF Stands, Progress, InInput
<1>2. n = Len(operations)
  BY <1>1, RestIs
<1>3. /\ "input" \notin NeedsOf(name, "input") \cup {"pre_input", "close", "reopen"}
      /\ NeedsOf(name, "close") = NeedsOf(name, "input") \cup {"input"}
      /\ "close" \notin Early(name) \cup InInput
  BY InputNeeds
<1>4. Evidence(log, passed \cup {"input"}, NeedsOf(name, "close"), operations, n)
  BY <1>1, <1>3, PassStep
<1>5. Progress(name, operations, "close", log, <<>>, n)
  BY <1>1, <1>2, <1>3 DEF Progress, InInput
<1> QED
  BY <1>4, <1>5 DEF Stands

-----------------------------------------------------------------------------
(* The steps of a scenario, by what they write                              *)

\* What the evidence says of a scenario on its way.
Says ==
    Stands(Job.name, Operations(Job), tool.at, tool.log, tool.passed, tool.todo)
\* Which profile was found, and whether a connection is expected.
Setup(job, at, before) ==
    /\ job.name = "pro-periodic" => before = <<>>
    /\ job.name = "pro-profile" /\ at \in InInput \cup {"idle", "close"}
       => job.setup # "stale-bond"
    /\ job.name = "pro-profile" /\ at = "close_expected" => job.setup = "stale-bond"
\* Where a scenario is only after a failure
Fallen(name) ==
    {"late_postflight", "close_unexpected"}
    \cup (IF name = "pro-profile" THEN {"close_failed"} ELSE {})
EvidenceInv ==
    IsScenario =>
        /\ tool.at # "shell"
        /\ tool.at # "done" =>
            /\ Says /\ Setup(Job, tool.at, tool.before)
            /\ tool.at \in Fallen(Job.name) => Told(tool.log)
        /\ tool.at = "done" => ExitTellsTheEvidence
Going == IsScenario /\ tool.at \notin {"shell", "done"}
Fails(e) == Tells(e) /\ e.event \notin Counted

LEMMA GoesOn ==
    ASSUME Going, tool'.job = tool.job, tool'.at \notin {"shell", "done"},
           Stands(Job.name, Operations(Job), tool'.at, tool'.log, tool'.passed, tool'.todo),
           Setup(Job, tool'.at, tool'.before),
           tool'.at \in Fallen(Job.name) => Told(tool'.log)
    PROVE  EvidenceInv'
BY DEF EvidenceInv, Says, Job, Going

LEMMA IsGoing ==
    ASSUME EvidenceInv, Going
    PROVE  /\ Says /\ IsList(tool.log) /\ IsList(Operations(Job))
           /\ Setup(Job, tool.at, tool.before)
           /\ tool.at \in Fallen(Job.name) => Told(tool.log)
<1>1. Says /\ Setup(Job, tool.at, tool.before) /\ (tool.at \in Fallen(Job.name) => Told(tool.log))
  BY DEF EvidenceInv, Going
<1>2. IsList(tool.log)
  BY <1>1, StandsList DEF Says
<1>3. IsList(Operations(Job))
  BY OperationsAreList DEF Going, IsScenario
<1> QED
  BY <1>1, <1>2, <1>3

\* Evidence that is written, and a check that is passed.
LEMMA LogWritten ==
    ASSUME Shape, IsList(tool.log), NEW label, NEW events, NEW checks,
           \/ tool' = [tool EXCEPT !.at = label, !.log = @ \o events] /\ checks = {}
           \/ tool' = [tool EXCEPT !.at = label, !.log = @ \o events, !.passed = @ \cup checks]
    PROVE  /\ tool'.at = label /\ tool'.job = tool.job /\ tool'.todo = tool.todo
           /\ tool'.before = tool.before /\ tool'.passed = tool.passed \cup checks
           /\ tool'.log = tool.log \o events
           /\ events = <<>> => tool'.log = tool.log
           /\ \A e : events = <<e>> => tool'.log = Append(tool.log, e)
           /\ \A e, f : events = <<e, f>> => tool'.log = Append(Append(tool.log, e), f)
<1>1. /\ tool'.at = label /\ tool'.job = tool.job /\ tool'.todo = tool.todo
      /\ tool'.before = tool.before /\ tool'.passed = tool.passed \cup checks
      /\ tool'.log = tool.log \o events
  BY DEF Shape
<1>2. tool.log \o <<>> = tool.log
  BY Concats
<1>3. \A e : tool.log \o <<e>> = Append(tool.log, e)
  BY Concats
<1>4. \A e, f : tool.log \o <<e, f>> = Append(Append(tool.log, e), f)
  BY Concats
<1> QED
  BY <1>1, <1>2, <1>3, <1>4

\* A failure.
FallsTo(name, at, later) ==
    /\ Late(name, later) /\ NeedsOf(name, at) \subseteq NeedsOf(name, later)
    /\ \E check \in NeedsOf(name, later) : check \notin NeedsOf(name, at) \cup {"pre_input"}
LEMMA ToolFails ==
    ASSUME Shape, EvidenceInv, Going, NEW label, label \notin {"shell", "done"},
           NEW e, Fails(e), tool' = [tool EXCEPT !.at = label, !.log = @ \o <<e>>],
           FallsTo(Job.name, tool.at, label), Setup(Job, label, tool.before)
    PROVE  EvidenceInv'
<1>1. /\ Says /\ IsList(tool.log)
  BY IsGoing
<1>2. /\ tool'.at = label /\ tool'.job = tool.job /\ tool'.todo = tool.todo
      /\ tool'.before = tool.before /\ tool'.passed = tool.passed
      /\ tool'.log = Append(tool.log, e)
  <2>1. tool' = [tool EXCEPT !.at = label, !.log = @ \o <<e>>] /\ {} = {}
    OBVIOUS
  <2> HIDE DEF Shape
  <2>2. /\ tool'.at = label /\ tool'.job = tool.job /\ tool'.todo = tool.todo
        /\ tool'.before = tool.before /\ tool'.passed = tool.passed \cup {}
        /\ \A f : <<e>> = <<f>> => tool'.log = Append(tool.log, f)
    BY <1>1, <2>1, LogWritten, ZenonT(40)
  <2> QED
    BY <2>2
<1>3. Stands(Job.name, Operations(Job), label, Append(tool.log, e), tool.passed, tool.todo)
  <2>1. PICK check \in NeedsOf(Job.name, label) \ (NeedsOf(Job.name, tool.at) \cup {"pre_input"}) :
            TRUE
    BY DEF FallsTo
  <2> QED
    BY <1>1, <2>1, FailsOn DEF FallsTo, Says, Fails
<1>4. Told(tool'.log)
  BY <1>1, <1>2, ToldOn DEF Fails
<1> QED
  BY <1>2, <1>3, <1>4, GoesOn

\* A step that is not seen in the evidence, or by nothing that counts.
LEMMA ToolGoes ==
    ASSUME Shape, EvidenceInv, Going, NEW label, label \notin {"shell", "done"},
           NEW events, events = <<>> \/ \E e : Quiet(e) /\ events = <<e>>,
           tool' = [tool EXCEPT !.at = label, !.log = @ \o events],
           \/ tool.at \in Early(Job.name) /\ label \in Early(Job.name)
           \/ /\ Late(Job.name, tool.at) /\ Late(Job.name, label)
              /\ NeedsOf(Job.name, tool.at) = NeedsOf(Job.name, label),
           Setup(Job, label, tool.before), label \notin Fallen(Job.name)
    PROVE  EvidenceInv'
<1>1. /\ Says /\ IsList(tool.log)
  BY IsGoing
<1>2. /\ tool'.at = label /\ tool'.job = tool.job /\ tool'.todo = tool.todo
      /\ tool'.before = tool.before /\ tool'.passed = tool.passed
      /\ tool'.log = tool.log \/ \E e : Quiet(e) /\ tool'.log = Append(tool.log, e)
  <2>1. tool' = [tool EXCEPT !.at = label, !.log = @ \o events] /\ {} = {}
    OBVIOUS
  <2>2. /\ tool'.at = label /\ tool'.job = tool.job /\ tool'.todo = tool.todo
        /\ tool'.before = tool.before /\ tool'.passed = tool.passed \cup {}
        /\ events = <<>> => tool'.log = tool.log
        /\ \A f : events = <<f>> => tool'.log = Append(tool.log, f)
    BY <1>1, <2>1, LogWritten, ZenonT(40)
  <2> QED
    BY <2>2
<1>3. Stands(Job.name, Operations(Job), label, tool'.log, tool.passed, tool.todo)
  <2>1. CASE tool.at \in Early(Job.name) /\ label \in Early(Job.name)
    BY <1>1, <1>2, <2>1, EarlyOn DEF Says
  <2>2. CASE /\ Late(Job.name, tool.at) /\ Late(Job.name, label)
             /\ NeedsOf(Job.name, tool.at) = NeedsOf(Job.name, label)
    BY <1>1, <1>2, <2>2, LateOn DEF Says
  <2> QED
    BY <2>1, <2>2
<1> QED
  BY <1>2, <1>3, GoesOn

\* A check that is passed with an event.
LEMMA ToolPasses ==
    ASSUME Shape, EvidenceInv, Going, NEW label, label \notin {"shell", "done"},
           NEW e, NEW check,
           tool' = [tool EXCEPT !.at = label, !.log = @ \o <<e>>, !.passed = @ \cup {check}],
           Late(Job.name, tool.at), Late(Job.name, label),
           check \notin NeedsOf(Job.name, tool.at) \cup {"pre_input"},
           \/ check \notin {"close", "reopen"} /\ Quiet(e)
           \/ check = "close" /\ e.event = "close_complete"
           \/ check = "reopen" /\ e.event = "adapter_reopen_complete",
           NeedsOf(Job.name, label) = NeedsOf(Job.name, tool.at) \cup {check},
           Setup(Job, label, tool.before), label \notin Fallen(Job.name)
    PROVE  EvidenceInv'
<1>1. /\ Says /\ IsList(tool.log)
  BY IsGoing
<1>2. /\ tool'.at = label /\ tool'.job = tool.job /\ tool'.todo = tool.todo
      /\ tool'.before = tool.before /\ tool'.passed = tool.passed \cup {check}
      /\ tool'.log = Append(tool.log, e)
  <2>1. /\ tool'.at = label /\ tool'.job = tool.job /\ tool'.todo = tool.todo
        /\ tool'.before = tool.before /\ tool'.passed = tool.passed \cup {check}
        /\ \A f : <<e>> = <<f>> => tool'.log = Append(tool.log, f)
    BY <1>1, LogWritten
  <2> QED
    BY <2>1
<1>3. Stands(Job.name, Operations(Job), label, Append(tool.log, e), tool.passed \cup {check},
             tool.todo)
  BY <1>1, LatePasses DEF Says
<1> QED
  BY <1>2, <1>3, GoesOn

\* The input as the program runs through it.
InputFound(check) ==
    \/ /\ tool'.log = tool.log \/ \E e : Quiet(e) /\ tool'.log = Append(tool.log, e)
       /\ tool'.passed = tool.passed \cup {check}
    \/ /\ \E e : Fails(e) /\ tool'.log = Append(tool.log, e)
       /\ tool'.passed = tool.passed
LEMMA ToolInputBegins ==
    ASSUME Shape, EvidenceInv, Going, tool.at \in Early(Job.name), tool'.at = "input",
           tool'.job = tool.job, tool'.before = tool.before, tool'.todo = Operations(Job),
           NEW check, NeedsOf(Job.name, "input") = {check}, InputFound(check),
           Setup(Job, "input", tool.before)
    PROVE  EvidenceInv'
<1>1. Says /\ IsList(tool.log) /\ IsList(Operations(Job))
  BY IsGoing
<1>2. check \notin {"pre_input", "close", "reopen"}
  BY InputNeeds
<1> DEFINE name == Job.name
           operations == Operations(Job)
           at == tool.at
           log == tool.log
           passed == tool.passed
           todo == tool.todo
           more == tool'.log
           after == tool'.passed
<1>3. Stands(name, operations, at, log, passed, todo) /\ IsList(operations) /\ at \in Early(name)
      /\ NeedsOf(name, "input") = {check}
  BY <1>1 DEF Says
<1>4. \/ /\ more = log \/ \E e : Quiet(e) /\ more = Append(log, e)
         /\ after = passed \cup {check}
      \/ /\ \E e : Tells(e) /\ e.event \notin Counted /\ more = Append(log, e)
         /\ after = passed
  BY DEF InputFound, Fails
<1> HIDE DEF name, operations, at, log, passed, todo, more, after
<1>5. Stands(name, operations, "input", more, after, operations)
  BY <1>2, <1>3, <1>4, InputBegins
<1>6. "input" \notin Fallen(Job.name)
  BY DEF Fallen
<1> QED
  BY <1>5, <1>6, GoesOn DEF name, operations, more, after

LEMMA ToolOperationBegins ==
    ASSUME Shape, EvidenceInv, Going, NEW calls,
           \/ /\ tool.at = "input" /\ tool.todo # <<>>
              /\ tool' = [tool EXCEPT !.at = "operation", !.calls = calls]
           \/ tool.at = "operation" /\ tool' = [tool EXCEPT !.calls = calls]
    PROVE  EvidenceInv'
<1>1. Says /\ Setup(Job, tool.at, tool.before)
  BY IsGoing
<1>2. /\ tool.at \in InInput /\ tool'.at = "operation"
      /\ tool'.job = tool.job /\ tool'.todo = tool.todo /\ tool'.before = tool.before
      /\ tool'.passed = tool.passed /\ tool'.log = tool.log
  BY DEF Shape, InInput
<1>3. Stands(Job.name, Operations(Job), "operation", tool.log, tool.passed, tool.todo)
  BY <1>1, <1>2, OperationBegins DEF Says
<1>4. "operation" \notin Fallen(Job.name) /\ Setup(Job, "operation", tool.before)
  BY <1>1, <1>2 DEF Fallen, Setup, InInput
<1> QED
  BY <1>2, <1>3, <1>4, GoesOn

OperationIs(e) == e.event = "operation_complete" /\ e.operation = Head(tool.todo).name
OperationCounts(e) ==
    tool' = [tool EXCEPT !.at = "input", !.todo = Tail(@), !.log = Append(@, e)]
OperationFaults(e, f) ==
    Fails(f) /\ tool' = [tool EXCEPT !.at = "close", !.log = @ \o <<e, f>>]
LEMMA ToolOperationCompletes ==
    ASSUME Shape, EvidenceInv, Going, tool.at = "operation", NEW e, OperationIs(e),
           OperationCounts(e) \/ \E f : OperationFaults(e, f)
    PROVE  EvidenceInv'
<1>1. Says /\ IsList(tool.log) /\ IsList(Operations(Job)) /\ Setup(Job, tool.at, tool.before)
  BY IsGoing
<1>2. /\ Stands(Job.name, Operations(Job), "input", Append(tool.log, e), tool.passed,
                Tail(tool.todo))
      /\ \A f, others : Tells(f) /\ f.event \notin Counted
           => Stands(Job.name, Operations(Job), "close", Append(Append(tool.log, e), f),
                     tool.passed, others)
  BY <1>1, OperationCompletes DEF Says, OperationIs
<1>3. /\ {"input", "close"} \cap Fallen(Job.name) = {}
      /\ Setup(Job, "input", tool.before) /\ Setup(Job, "close", tool.before)
  BY <1>1 DEF Fallen, Setup, InInput
<1>4. CASE OperationCounts(e)
  <2>1. /\ tool'.at = "input" /\ tool'.job = tool.job /\ tool'.todo = Tail(tool.todo)
        /\ tool'.before = tool.before /\ tool'.passed = tool.passed
        /\ tool'.log = Append(tool.log, e)
    BY <1>4 DEF OperationCounts, Shape
  <2> QED
    BY <1>2, <1>3, <2>1, GoesOn
<1>5. ASSUME NEW f, OperationFaults(e, f) PROVE EvidenceInv'
  <2>1. /\ tool'.at = "close" /\ tool'.job = tool.job /\ tool'.todo = tool.todo
        /\ tool'.before = tool.before /\ tool'.passed = tool.passed
        /\ tool'.log = tool.log \o <<e, f>>
    BY <1>5 DEF OperationFaults, Shape
  <2>2. tool.log \o <<e, f>> = Append(Append(tool.log, e), f)
    BY <1>1, Concats
  <2>3. Stands(Job.name, Operations(Job), "close", Append(Append(tool.log, e), f),
               tool.passed, tool.todo)
    BY <1>2, <1>5 DEF OperationFaults, Fails
  <2> QED
    BY <1>3, <2>1, <2>2, <2>3, GoesOn
<1> QED
  BY <1>4, <1>5

LEMMA ToolInputEnds ==
    ASSUME Shape, EvidenceInv, Going, tool.at = "input", tool.todo = <<>>,
           tool' = [tool EXCEPT !.at = "close", !.log = @ \o <<>>, !.passed = @ \cup {"input"}]
    PROVE  EvidenceInv'
<1>1. Says /\ IsList(tool.log) /\ IsList(Operations(Job)) /\ Setup(Job, tool.at, tool.before)
  BY IsGoing
<1>2. /\ tool'.at = "close" /\ tool'.job = tool.job /\ tool'.todo = <<>>
      /\ tool'.before = tool.before /\ tool'.passed = tool.passed \cup {"input"}
      /\ tool'.log = tool.log
  <2>1. /\ tool'.at = "close" /\ tool'.job = tool.job /\ tool'.todo = <<>>
        /\ tool'.before = tool.before /\ tool'.passed = tool.passed \cup {"input"}
        /\ tool'.log = tool.log \o <<>>
    BY DEF Shape
  <2> QED
    BY <1>1, <2>1, Concats
<1>3. Stands(Job.name, Operations(Job), "close", tool.log, tool.passed \cup {"input"}, <<>>)
  BY <1>1, InputEnds DEF Says
<1>4. "close" \notin Fallen(Job.name) /\ Setup(Job, "close", tool.before)
  BY <1>1 DEF Fallen, Setup, InInput
<1> QED
  BY <1>2, <1>3, <1>4, GoesOn

\* A scenario that ends in failure, and one that succeeds.
Ends(events, c, exit) ==
    tool' = [tool EXCEPT !.at = "done", !.log = @ \o Append(events, c), !.exit = exit]
LEMMA EndIs ==
    ASSUME Shape, IsList(tool.log), NEW events, NEW c, NEW exit, Ends(events, c, exit)
    PROVE  /\ tool'.at = "done" /\ tool'.job = tool.job /\ tool'.before = tool.before
           /\ tool'.exit = exit
           /\ events = <<>> => tool'.log = Append(tool.log, c)
           /\ \A e : events = <<e>> => tool'.log = Append(Append(tool.log, e), c)
<1>1. /\ tool'.at = "done" /\ tool'.job = tool.job /\ tool'.before = tool.before
      /\ tool'.exit = exit /\ tool'.log = tool.log \o Append(events, c)
  BY DEF Ends, Shape
<1>2. tool.log \o Append(<<>>, c) = Append(tool.log, c)
  BY Concats
<1>3. \A e : tool.log \o Append(<<e>>, c) = Append(Append(tool.log, e), c)
  BY Concats
<1> QED
  BY <1>1, <1>2, <1>3

LEMMA EndsInFailure ==
    ASSUME Shape, EvidenceInv, Going, NEW events, NEW c, c.event = "runner_complete", ~c.success,
           \/ events = <<>> /\ Told(tool.log)
           \/ \E e : events = <<e>> /\ (Told(tool.log) \/ Tells(e)),
           Ends(events, c, 1)
    PROVE  EvidenceInv'
<1>1. IsList(tool.log)
  BY IsGoing
<1>2. /\ tool'.at = "done" /\ tool'.exit = 1
      /\ \E more : IsList(more) /\ Told(more) /\ tool'.log = Append(more, c)
  <2>1. CASE events = <<>> /\ Told(tool.log)
    BY <1>1, <2>1, EndIs
  <2>2. ASSUME NEW e, events = <<e>>, Told(tool.log) \/ Tells(e)
        PROVE  \E more : IsList(more) /\ Told(more) /\ tool'.log = Append(more, c)
    <3>1. IsList(Append(tool.log, e)) /\ Told(Append(tool.log, e))
      BY <1>1, <2>2, OnLog, ToldOn
    <3>2. tool'.log = Append(Append(tool.log, e), c)
      BY <1>1, <2>2, EndIs
    <3> QED
      BY <3>1, <3>2
  <2>3. tool'.at = "done" /\ tool'.exit = 1
    BY <1>1, EndIs
  <2> QED
    BY <2>1, <2>2, <2>3
<1>3. Told(tool'.log) /\ Last(tool'.log) = c
  BY <1>2, ToldOn, LastEvent
<1>4. FailureIsNamed'
  BY <1>3 DEF FailureIsNamed, Told
<1>5. SuccessIsEarned'
  BY <1>2 DEF SuccessIsEarned, ToolEnds
<1> QED
  BY <1>2, <1>4, <1>5 DEF EvidenceInv, ExitTellsTheEvidence

LEMMA EndsInSuccess ==
    ASSUME Shape, EvidenceInv, Going, NEW events, NEW c, Quiet(c),
           events = <<>> \/ \E e : events = <<e>> /\ Quiet(e),
           Late(Job.name, tool.at), NeedsOf(Job.name, tool.at) \subseteq tool.passed,
           {"close", "reopen"} \subseteq tool.passed,
           tool.before # <<>> => world'.disk[Job.profile] = tool.before[1],
           Ends(events, c, 0)
    PROVE  EvidenceInv'
<1>1. Says /\ IsList(tool.log)
  BY IsGoing
<1> DEFINE operations == Operations(Job)
           needs == NeedsOf(Job.name, tool.at)
<1> HIDE DEF operations, needs
<1>2. /\ Evidence(tool.log, tool.passed, needs, operations, Len(operations))
      /\ ~Told(tool.log)
  BY <1>1 DEF Says, Stands, Progress, Evidence, operations, needs
<1>3. /\ tool'.at = "done" /\ tool'.exit = 0 /\ tool'.job = tool.job
      /\ tool'.before = tool.before
      /\ Evidence(tool'.log, tool.passed, needs, operations, Len(operations))
  <2>1. ASSUME events = <<>>
        PROVE  Evidence(tool'.log, tool.passed, needs, operations, Len(operations))
    <3>1. Evidence(Append(tool.log, c), tool.passed, needs, operations, Len(operations))
      BY <1>2, QuietStep
    <3>2. tool'.log = Append(tool.log, c)
      BY <1>1, <2>1, EndIs
    <3> QED
      BY <3>1, <3>2
  <2>2. ASSUME NEW e, events = <<e>>, Quiet(e)
        PROVE  Evidence(tool'.log, tool.passed, needs, operations, Len(operations))
    <3>1. Evidence(Append(tool.log, e), tool.passed, needs, operations, Len(operations))
      BY <1>2, <2>2, QuietStep
    <3>2. Evidence(Append(Append(tool.log, e), c), tool.passed, needs, operations,
                   Len(operations))
      BY <3>1, QuietStep
    <3>3. tool'.log = Append(Append(tool.log, e), c)
      BY <1>1, <2>2, EndIs
    <3> QED
      BY <3>2, <3>3
  <2>3. tool'.at = "done" /\ tool'.exit = 0 /\ tool'.job = tool.job /\ tool'.before = tool.before
    BY <1>1, EndIs
  <2>4. Evidence(tool'.log, tool.passed, needs, operations, Len(operations))
    BY <2>1, <2>2
  <2> QED
    BY <2>3, <2>4
<1>4. /\ ~Told(tool'.log) /\ Completed(tool'.log, operations, Len(operations))
      /\ Count(tool'.log, "close_complete") = 1 /\ Count(tool'.log, "adapter_reopen_complete") = 1
  <2>1. "close" \in tool.passed /\ "reopen" \in tool.passed /\ needs \subseteq tool.passed
    BY DEF needs
  <2> QED
    BY <1>3, <2>1 DEF Evidence
<1>5. SuccessIsEarned'
  BY <1>3, <1>4 DEF SuccessIsEarned, Told, Count, Job, operations
<1>6. FailureIsNamed'
  BY <1>3 DEF FailureIsNamed, ToolEnds
<1> QED
  BY <1>3, <1>5, <1>6 DEF EvidenceInv, ExitTellsTheEvidence

-----------------------------------------------------------------------------
(* What the events of a scenario say                                        *)

LEMMA NamedEvent ==
    ASSUME NEW dimensions, DOMAIN dimensions \subseteq Dimensions, NEW event, NEW fields
    PROVE  Evident(dimensions, event, fields).event = event
BY EventIs

LEMMA FailureEvent ==
    ASSUME NEW dimensions, DOMAIN dimensions \subseteq Dimensions, NEW fields
    PROVE  Fails(Evident(dimensions, "operation_failure", fields))
BY NamedEvent, FailureTells DEF Fails

LEMMA QuietEvent ==
    ASSUME NEW dimensions, DOMAIN dimensions \subseteq Dimensions,
           NEW event, event \notin Speaking, NEW fields
    PROVE  Quiet(Evident(dimensions, event, fields))
BY NamedEvent, SpeaksNot

LEMMA OperationEvent ==
    ASSUME NEW dimensions, DOMAIN dimensions \subseteq Dimensions, NEW name
    PROVE  Evident(dimensions, "operation_complete", [operation |-> name]).operation = name
<1>1. "operation" \in DOMAIN [operation |-> name] \cap (Telling \ {"event"})
  BY DEF Telling
<1>2. [operation |-> name]["operation"] = name
  OBVIOUS
<1> QED
  BY <1>1, <1>2, EventIs

LEMMA IdleEvent ==
    ASSUME NEW dimensions, DOMAIN dimensions \subseteq Dimensions, NEW delta
    PROVE  LET e == Evident(dimensions, "direct_idle_complete",
                            [input_reports_accepted_delta |-> delta])
           IN  IF delta > 0 THEN Fails(e) ELSE Quiet(e)
<1> DEFINE fields == [input_reports_accepted_delta |-> delta]
           e == Evident(dimensions, "direct_idle_complete", fields)
<1>1. "input_reports_accepted_delta" \in DOMAIN fields \cap (Telling \ {"event"})
  BY DEF Telling
<1>2. fields["input_reports_accepted_delta"] = delta
  OBVIOUS
<1> HIDE DEF fields
<1>3. e.input_reports_accepted_delta = delta /\ e.event = "direct_idle_complete"
  BY <1>1, <1>2, EventIs
<1> HIDE DEF e
<1>4. Tells(e) <=> delta > 0
  BY <1>3 DEF Tells
<1>5. e.event \notin Counted
  BY <1>3 DEF Counted
<1> QED
  BY <1>4, <1>5 DEF Fails, Quiet, e, fields

LEMMA PostflightEvent ==
    ASSUME NEW dimensions, DOMAIN dimensions \subseteq Dimensions,
           NEW fields, DOMAIN fields \subseteq Findings
    PROVE  LET e == Evident(dimensions, "profile_postflight", fields)
           IN  IF \A f \in DOMAIN fields : fields[f] THEN Quiet(e) ELSE Fails(e)
<1> DEFINE e == Evident(dimensions, "profile_postflight", fields)
<1>1. /\ e.event = "profile_postflight"
      /\ \A f \in DOMAIN fields : f \in DOMAIN e /\ e[f] = fields[f]
  BY EventIs DEF Telling, Findings
<1>2. Findings \cap DOMAIN e = DOMAIN fields
  <2>1. DOMAIN e = {"schema_version", "event"} \cup DOMAIN dimensions \cup DOMAIN fields
    BY DEF Evident
  <2>2. Findings \cap ({"schema_version", "event"} \cup Dimensions) = {}
    BY DEF Findings, Dimensions
  <2> HIDE DEF e
  <2> QED
    BY <2>1, <2>2
<1> HIDE DEF e
<1>3. Tells(e) <=> \E f \in DOMAIN fields : ~fields[f]
  BY <1>1, <1>2 DEF Tells
<1>4. e.event \notin Counted
  BY <1>1 DEF Counted
<1> QED
  BY <1>3, <1>4 DEF Fails, Quiet, e

LEMMA CompletionEvent ==
    ASSUME NEW dimensions, DOMAIN dimensions \subseteq Dimensions, NEW success
    PROVE  LET e == Evident(dimensions, "runner_complete", [success |-> success])
           IN  e.event = "runner_complete" /\ e.success = success /\ Quiet(e)
<1> DEFINE fields == [success |-> success]
           e == Evident(dimensions, "runner_complete", fields)
<1>1. "success" \in DOMAIN fields \cap (Telling \ {"event"})
  BY DEF Telling
<1>2. fields["success"] = success
  OBVIOUS
<1> HIDE DEF fields
<1>3. e.success = success /\ e.event = "runner_complete"
  BY <1>1, <1>2, EventIs
<1> HIDE DEF e
<1>4. e.event \notin Speaking
  BY <1>3 DEF Speaking, Counted
<1> QED
  BY <1>3, <1>4, SpeaksNot DEF e, fields

-----------------------------------------------------------------------------
(* The adapter is opened again                                              *)

ReopensOn(label, events) == tool' = [tool EXCEPT !.at = label, !.log = @ \o events]
ReopensWith(label, e) ==
    tool' = [tool EXCEPT !.at = label, !.log = @ \o <<e>>, !.passed = @ \cup {"reopen"}]
ReopenNeed(name, end) == end = IF name = "pro-periodic" THEN "complete" ELSE "postflight"

LEMMA ReopenNeeds ==
    ASSUME NEW name, NEW at \in Reopening, NEW end, ReopenNeed(name, end)
    PROVE  /\ NeedsOf(name, end) = NeedsOf(name, at) \cup {"reopen"}
           /\ "reopen" \notin NeedsOf(name, at) \cup {"pre_input"}
           /\ Late(name, at) /\ Late(name, end) /\ end \notin Fallen(name) /\ at \notin Fallen(name)
           /\ NeedsOf(name, "reopen") = NeedsOf(name, at)
           /\ at \notin {"shell", "done"} /\ end \notin {"shell", "done"}
           /\ end \notin InInput \cup {"idle", "close", "close_expected"}
           /\ at \notin InInput \cup {"idle", "close", "close_expected"}
<1>1. /\ at \in {"reopen", "reopen_open", "reopen_close"} /\ end \in {"complete", "postflight"}
  BY DEF Reopening, ReopenNeed
<1>2. /\ at \notin Early(name) \cup InInput \cup {"close", "validate"}
      /\ end \notin Early(name) \cup InInput \cup {"close", "validate"} \cup Reopening
      /\ "reopen" \notin Early(name) \cup InInput \cup {"close", "validate"}
      /\ "reopen" \in Reopening
  BY <1>1 DEF Early, InInput, Reopening
<1>3. /\ NeedsOf(name, at) = (IF name = "pro-periodic" THEN {"created", "valid"} ELSE {"idle"})
                             \cup {"input", "close"}
      /\ NeedsOf(name, "reopen") = (IF name = "pro-periodic" THEN {"created", "valid"} ELSE {"idle"})
                             \cup {"input", "close"}
      /\ NeedsOf(name, end) = (IF name = "pro-periodic" THEN {"created", "valid"} ELSE {"idle"})
                             \cup {"input", "close", "reopen"}
  BY <1>2 DEF NeedsOf
<1>4. Late(name, at) /\ Late(name, end) /\ end \notin Fallen(name) /\ at \notin Fallen(name)
  BY <1>1, <1>2 DEF Late, Fallen
<1> QED
  BY <1>1, <1>2, <1>3, <1>4 DEF InInput

LEMMA ToolReopens ==
    ASSUME Shape, EvidenceInv, Going, NEW end, ReopenNeed(Job.name, end), tool.at \in Reopening,
           \/ \E label \in Reopening : \E events : ReopensOn(label, events)
                 /\ (events = <<>> \/ \E e : Quiet(e) /\ events = <<e>>)
           \/ \E start, e : Quiet(start) /\ Fails(e) /\ ReopensOn(end, <<start, e>>)
           \/ \E e : Fails(e) /\ ReopensOn(end, <<e>>)
           \/ \E e : e.event = "adapter_reopen_complete" /\ ReopensWith(end, e)
    PROVE  EvidenceInv'
<1>1. Says /\ IsList(tool.log) /\ Setup(Job, tool.at, tool.before)
  BY IsGoing
<1>2. /\ NeedsOf(Job.name, end) = NeedsOf(Job.name, tool.at) \cup {"reopen"}
      /\ "reopen" \notin NeedsOf(Job.name, tool.at) \cup {"pre_input"}
      /\ Late(Job.name, tool.at) /\ Late(Job.name, end)
      /\ end \notin Fallen(Job.name) /\ end \notin {"shell", "done"}
      /\ NeedsOf(Job.name, "reopen") = NeedsOf(Job.name, tool.at)
  BY ReopenNeeds
<1>3. FallsTo(Job.name, tool.at, end)
  BY <1>2 DEF FallsTo
<1>4. Setup(Job, end, tool.before)
  <2>1. end \notin InInput \cup {"idle", "close", "close_expected"}
    BY ReopenNeeds
  <2> QED
    BY <1>1, <2>1 DEF Setup
<1>5. ASSUME NEW label \in Reopening, NEW events, ReopensOn(label, events),
             events = <<>> \/ \E e : Quiet(e) /\ events = <<e>>
      PROVE  EvidenceInv'
  <2>1. /\ Late(Job.name, label) /\ label \notin Fallen(Job.name) /\ label \notin {"shell", "done"}
        /\ NeedsOf(Job.name, "reopen") = NeedsOf(Job.name, label)
        /\ label \notin InInput \cup {"idle", "close", "close_expected"}
    BY ReopenNeeds
  <2>2. Setup(Job, label, tool.before)
    BY <1>1, <2>1 DEF Setup
  <2> QED
    BY <1>2, <1>5, <2>1, <2>2, ToolGoes DEF ReopensOn
<1>6. ASSUME NEW start, NEW e, Quiet(start), Fails(e), ReopensOn(end, <<start, e>>)
      PROVE  EvidenceInv'
  <2>1. /\ tool'.at = end /\ tool'.job = tool.job /\ tool'.todo = tool.todo
        /\ tool'.before = tool.before /\ tool'.passed = tool.passed
        /\ tool'.log = tool.log \o <<start, e>>
    BY <1>6 DEF ReopensOn, Shape
  <2>2. tool.log \o <<start, e>> = Append(Append(tool.log, start), e)
    BY <1>1, Concats
  <2>3. Stands(Job.name, Operations(Job), tool.at, Append(tool.log, start), tool.passed,
               tool.todo)
    BY <1>1, <1>2, <1>6, LateOn DEF Says
  <2>4. Stands(Job.name, Operations(Job), end, Append(Append(tool.log, start), e), tool.passed,
               tool.todo)
    BY <1>2, <1>6, <2>3, FailsOn DEF Fails
  <2> QED
    BY <1>2, <1>4, <2>1, <2>2, <2>4, GoesOn
<1>7. ASSUME NEW e, Fails(e), ReopensOn(end, <<e>>) PROVE EvidenceInv'
  BY <1>2, <1>3, <1>4, <1>7, ToolFails DEF ReopensOn
<1>8. ASSUME NEW e, e.event = "adapter_reopen_complete", ReopensWith(end, e) PROVE EvidenceInv'
  BY <1>2, <1>4, <1>8, ToolPasses DEF ReopensWith
<1> QED
  BY <1>5, <1>6, <1>7, <1>8

-----------------------------------------------------------------------------
(* joycon-profile                                                           *)

\* Where a failure leads, with an existing profile or without.
LEMMA ProfileLeads ==
    ASSUME NEW name, name # "pro-periodic"
    PROVE  /\ \A at \in Early(name), later \in {"close", "late_postflight", "close_unexpected"} :
                FallsTo(name, at, later)
           /\ FallsTo(name, "operation", "close") /\ FallsTo(name, "close", "reopen")
<1>1. /\ "close" \notin Early(name) \cup InInput \cup Reopening
      /\ "reopen" \notin Early(name) \cup InInput \cup {"close", "validate"}
      /\ "reopen" \in Reopening
      /\ "operation" \notin Early(name) /\ "operation" \in InInput
      /\ {"late_postflight", "close_unexpected"}
         \cap (Early(name) \cup InInput \cup {"close", "validate"} \cup Reopening) = {}
  BY DEF Early, InInput, Reopening
<1>2. /\ NeedsOf(name, "close") = {"idle", "input"}
      /\ NeedsOf(name, "operation") = {"idle"}
      /\ NeedsOf(name, "reopen") = {"idle", "input", "close"}
  BY <1>1 DEF NeedsOf
<1>3. \A later \in {"late_postflight", "close_unexpected"} : NeedsOf(name, later) = All
  BY <1>1 DEF NeedsOf, All
<1>4. \A at \in Early(name) : NeedsOf(name, at) = {}
  BY DEF NeedsOf
<1>5. \A later \in {"close", "late_postflight", "close_unexpected", "reopen"} : Late(name, later)
  BY <1>1 DEF Late
<1> QED
  BY <1>2, <1>3, <1>4, <1>5 DEF FallsTo, All

LEMMA JoyConWrites ==
    /\ DOMAIN Runner!JoyCon!evidence_dimensions \subseteq Dimensions
    /\ \A event, fields :
        Runner!JoyCon!Event(event, fields)
          = Evident(Runner!JoyCon!evidence_dimensions, event, fields)
<1>1. DOMAIN Runner!JoyCon!evidence_dimensions \subseteq Dimensions
  BY DEF Runner!JoyCon!evidence_dimensions, Dimensions
<1>2. \A event, fields :
        Runner!JoyCon!Event(event, fields)
          = Evident(Runner!JoyCon!evidence_dimensions, event, fields)
  BY Zenon DEF Runner!JoyCon!Event, Runner!JoyCon!evidence_event, Evident
<1> QED
  BY <1>1, <1>2

LEMMA JoyConFails ==
    ASSUME NEW operation, NEW kind
    PROVE  /\ Fails(Runner!JoyCon!ControllerFailure(operation, kind))
           /\ Fails(Runner!JoyCon!FixedFailure(operation, kind))
<1>1. \A fields : Fails(Runner!JoyCon!Event("operation_failure", fields))
  BY JoyConWrites, FailureEvent
<1> QED
  BY <1>1, Zenon
  DEF Runner!JoyCon!ControllerFailure, Runner!JoyCon!FixedFailure,
      Runner!JoyCon!controller_failure_event, Runner!JoyCon!fixed_failure, Runner!JoyCon!Event

LEMMA JoyConEnds ==
    ASSUME NEW success, NEW events, Runner!JoyCon!Complete(success, events)
    PROVE  \E c : /\ c.event = "runner_complete" /\ c.success = success /\ Quiet(c)
                  /\ Ends(events, c, IF success THEN 0 ELSE 1)
<1> DEFINE c == Runner!JoyCon!completion_event(Runner!JoyCon!evidence_dimensions, success)
<1>1. c = Runner!JoyCon!Event("runner_complete", [success |-> success])
  BY DEF Runner!JoyCon!completion_event, Runner!JoyCon!Event
<1>2. c.event = "runner_complete" /\ c.success = success /\ Quiet(c)
  BY <1>1, JoyConWrites, CompletionEvent
<1>3. Ends(events, c, IF success THEN 0 ELSE 1)
  BY DEF Runner!JoyCon!Complete, Runner!JoyCon!Completes, Ends
<1> QED
  BY <1>2, <1>3

LEMMA JoyConEndsInFailure ==
    ASSUME Shape, EvidenceInv, Going, NEW e, Fails(e), Runner!JoyCon!Complete(FALSE, <<e>>)
    PROVE  EvidenceInv'
<1>1. PICK c : c.event = "runner_complete" /\ ~c.success /\ Ends(<<e>>, c, 1)
  BY JoyConEnds
<1> QED
  BY <1>1, EndsInFailure DEF Fails

\* Up to the input
LEMMA JoyConBegins ==
    ASSUME Shape, EvidenceInv, Going,
           \/ Runner!JoyCon!prepare_profile \/ Runner!JoyCon!create_paired \/ Runner!JoyCon!BuildRun
           \/ Runner!JoyCon!open \/ Runner!JoyCon!reconnect \/ Runner!JoyCon!close_without_neutral
           \/ Runner!JoyCon!verify_pre_input_idle
    PROVE  EvidenceInv'
<1> USE DEF Runner!JoyCon!Here, Runner!JoyCon!At
<1>1. Job.name = "joycon-profile"
  BY DEF Job, Runner!JoyCon!prepare_profile, Runner!JoyCon!create_paired, Runner!JoyCon!BuildRun,
         Runner!JoyCon!open, Runner!JoyCon!reconnect, Runner!JoyCon!close_without_neutral,
         Runner!JoyCon!verify_pre_input_idle
<1>2. Says /\ IsList(tool.log)
  BY IsGoing
<1>3. \A at, before : Setup(Job, at, before)
  BY <1>1 DEF Setup
<1>4. /\ {"start", "pair", "build", "open", "reconnect", "ready", "idle", "close_failed"}
         \subseteq Early("joycon-profile")
      /\ {"late_postflight", "close"} \cap Early("joycon-profile") = {}
      /\ \A at \in Early("joycon-profile") : at \notin Fallen("joycon-profile")
                                             /\ at \notin {"shell", "done"}
  BY DEF Early, Fallen
<1>5. ASSUME tool.at \in Early(Job.name), NEW label \in Early(Job.name),
             Runner!JoyCon!Goes(label, <<>>)
      PROVE  EvidenceInv'
  BY <1>1, <1>3, <1>4, <1>5, ToolGoes DEF Runner!JoyCon!Goes
<1>6. ASSUME tool.at \in Early(Job.name), NEW label \in {"late_postflight", "close"},
             NEW e, Fails(e), Runner!JoyCon!Goes(label, <<e>>)
      PROVE  EvidenceInv'
  BY <1>1, <1>3, <1>6, ProfileLeads, ToolFails DEF Runner!JoyCon!Goes
<1>7. ASSUME tool.at \in Early(Job.name), tool'.at \in Early(Job.name),
             tool'.job = tool.job, tool'.log = tool.log, tool'.passed = tool.passed
      PROVE  EvidenceInv'
  <2>1. Stands(Job.name, Operations(Job), tool'.at, tool.log, tool.passed, tool.todo)
    BY <1>2, <1>7, EarlyOn DEF Says
  <2>2. Stands(Job.name, Operations(Job), tool'.at, tool.log, tool.passed, tool'.todo)
    BY <1>7, <2>1 DEF Stands, Progress, Early, InInput
  <2> QED
    BY <1>1, <1>3, <1>4, <1>7, <2>2, GoesOn
<1>8. CASE Runner!JoyCon!prepare_profile
  <2>1. \/ \E fault : Runner!JoyCon!Complete(FALSE,
                <<Runner!JoyCon!FixedFailure("profile_preflight", fault)>>)
        \/ /\ tool.at = "start" /\ tool'.at \in {"pair", "build"} /\ tool'.job = tool.job
           /\ tool'.log = tool.log /\ tool'.passed = tool.passed
    BY <1>8 DEF Runner!JoyCon!prepare_profile, Shape
  <2> QED
    BY <1>1, <1>4, <1>7, <2>1, JoyConFails, JoyConEndsInFailure
<1>9. CASE Runner!JoyCon!create_paired
  <2>1. /\ tool.at = "pair"
        /\ \/ Runner!JoyCon!Goes("ready", <<>>)
           \/ \E kind : Runner!JoyCon!Goes("late_postflight",
                            <<Runner!JoyCon!ControllerFailure("connection", kind)>>)
    BY <1>9 DEF Runner!JoyCon!create_paired
  <2> QED
    BY <1>1, <1>4, <1>5, <1>6, <2>1, JoyConFails
<1>10. CASE Runner!JoyCon!BuildRun \/ Runner!JoyCon!open
  <2>1. \/ tool.at = "build" /\ Runner!JoyCon!Goes("open", <<>>)
        \/ tool.at = "open" /\ Runner!JoyCon!Goes("reconnect", <<>>)
        \/ \E operation, kind : Runner!JoyCon!Complete(FALSE,
                <<Runner!JoyCon!ControllerFailure(operation, kind)>>)
    BY <1>10 DEF Runner!JoyCon!BuildRun, Runner!JoyCon!open
  <2> QED
    BY <1>1, <1>4, <1>5, <2>1, JoyConFails, JoyConEndsInFailure
<1>11. CASE Runner!JoyCon!reconnect
  <2>1. /\ tool.at = "reconnect" /\ tool'.at \in {"ready", "close_failed"}
        /\ tool'.job = tool.job /\ tool'.log = tool.log /\ tool'.passed = tool.passed
    BY <1>11 DEF Runner!JoyCon!reconnect, Shape
  <2> QED
    BY <1>1, <1>4, <1>7, <2>1
<1>12. CASE Runner!JoyCon!close_without_neutral
  BY <1>1, <1>4, <1>6, <1>12, JoyConFails DEF Runner!JoyCon!close_without_neutral
<1>13. CASE Runner!JoyCon!verify_pre_input_idle
  <2>1. /\ tool.at = "ready"
        /\ \/ Runner!JoyCon!Passes("pre_input", "idle", <<>>)
           \/ Runner!JoyCon!Goes("close",
                <<Runner!JoyCon!FixedFailure("pre_input_idle", "idle_verification_failed")>>)
    BY <1>13 DEF Runner!JoyCon!verify_pre_input_idle
  <2>2. CASE Runner!JoyCon!Passes("pre_input", "idle", <<>>)
    <3>1. /\ tool'.at = "idle" /\ tool'.job = tool.job /\ tool'.todo = tool.todo
          /\ tool'.passed = tool.passed \cup {"pre_input"} /\ tool'.log = tool.log \o <<>>
      BY <2>2 DEF Runner!JoyCon!Passes, Shape
    <3>2. tool.log \o <<>> = tool.log
      BY <1>2, Concats
    <3>3. Stands(Job.name, Operations(Job), "idle", tool.log, tool.passed \cup {"pre_input"},
                 tool.todo)
      BY <1>1, <1>2, <1>4, <2>1, EarlyPasses DEF Says
    <3> QED
      BY <1>1, <1>3, <1>4, <3>1, <3>2, <3>3, GoesOn
  <2> QED
    BY <1>1, <1>4, <1>6, <2>1, <2>2, JoyConFails
<1> QED
  BY <1>8, <1>9, <1>10, <1>11, <1>12, <1>13

\* What a close in a scenario with a profile passes.
LEMMA ClosesOn ==
    ASSUME NEW name, name # "pro-periodic"
    PROVE  /\ Late(name, "close") /\ Late(name, "reopen")
           /\ "close" \notin NeedsOf(name, "close") \cup {"pre_input"}
           /\ NeedsOf(name, "reopen") = NeedsOf(name, "close") \cup {"close"}
           /\ "reopen" \notin Fallen(name)
<1>1. /\ "close" \notin Early(name) \cup InInput \cup Reopening
      /\ "reopen" \notin Early(name) \cup InInput \cup {"close", "validate"}
      /\ "reopen" \in Reopening /\ "reopen" \notin Fallen(name)
  BY DEF Early, InInput, Reopening, Fallen
<1>2. /\ NeedsOf(name, "close") = {"idle", "input"}
      /\ NeedsOf(name, "reopen") = {"idle", "input", "close"}
  BY <1>1 DEF NeedsOf
<1> QED
  BY <1>1, <1>2 DEF Late

\* The input
LEMMA JoyConRuns ==
    ASSUME Shape, EvidenceInv, Going,
           \/ Runner!JoyCon!verify_direct_idle \/ Runner!JoyCon!operation_start
           \/ Runner!JoyCon!OperationCall \/ Runner!JoyCon!run_operation
           \/ Runner!JoyCon!InputDone \/ Runner!JoyCon!close_controller
    PROVE  EvidenceInv'
<1> USE DEF Runner!JoyCon!Here, Runner!JoyCon!At
<1>1. Job.name = "joycon-profile"
  BY DEF Job, Runner!JoyCon!verify_direct_idle, Runner!JoyCon!operation_start,
         Runner!JoyCon!OperationCall, Runner!JoyCon!run_operation, Runner!JoyCon!InputDone,
         Runner!JoyCon!close_controller
<1>2. Says /\ IsList(tool.log)
  BY IsGoing
<1>3. \A at, before : Setup(Job, at, before)
  BY <1>1 DEF Setup
<1>4. CASE Runner!JoyCon!verify_direct_idle
  <2>1. PICK delta \in Runner!JoyCon!Deltas :
            LET ok == tool.job.mode = "Periodic" \/ delta = 0
            IN  tool' = [tool EXCEPT
                  !.at = "input", !.todo = Runner!JoyCon!run_input_sequence(tool.job),
                  !.passed = IF ok THEN @ \cup {"idle"} ELSE @,
                  !.log = IF tool.job.mode = "Periodic" THEN @
                          ELSE Append(@, Runner!JoyCon!Event("direct_idle_complete",
                                           [input_reports_accepted_delta |-> delta]))]
    BY <1>4, Zenon DEF Runner!JoyCon!verify_direct_idle
  <2> DEFINE e == Runner!JoyCon!Event("direct_idle_complete",
                                      [input_reports_accepted_delta |-> delta])
  <2>2. /\ tool'.at = "input" /\ tool'.job = tool.job /\ tool'.before = tool.before
        /\ tool'.todo = Runner!JoyCon!run_input_sequence(tool.job)
        /\ tool'.passed = IF tool.job.mode = "Periodic" \/ delta = 0
                          THEN tool.passed \cup {"idle"} ELSE tool.passed
        /\ tool'.log = IF tool.job.mode = "Periodic" THEN tool.log ELSE Append(tool.log, e)
    BY <2>1 DEF Shape
  <2>3. IF delta > 0 THEN Fails(e) ELSE Quiet(e)
    BY JoyConWrites, IdleEvent
  <2>4. delta = 0 \/ delta > 0
    BY DEF Runner!JoyCon!Deltas
  <2>5. tool'.todo = Operations(Job)
    BY <1>1, <2>2 DEF Operations, Job
  <2> HIDE DEF e
  <2>6. InputFound("idle")
    BY <2>2, <2>3, <2>4 DEF InputFound
  <2>7. /\ tool.at \in Early(Job.name) /\ NeedsOf(Job.name, "input") = {"idle"}
    BY <1>1, <1>4, InputNeeds DEF Runner!JoyCon!verify_direct_idle, Early
  <2> QED
    BY <1>3, <2>2, <2>5, <2>6, <2>7, ToolInputBegins
<1>5. CASE Runner!JoyCon!operation_start
  BY <1>5, ToolOperationBegins DEF Runner!JoyCon!operation_start
<1>6. CASE Runner!JoyCon!OperationCall
  <2>1. /\ tool.at = "operation"
        /\ \/ tool' = [tool EXCEPT !.calls = Tail(@)]
           \/ \E operation, kind : Runner!JoyCon!Goes("close",
                <<Runner!JoyCon!ControllerFailure(operation, kind)>>)
    BY <1>6 DEF Runner!JoyCon!OperationCall
  <2>2. CASE tool' = [tool EXCEPT !.calls = Tail(@)]
    BY <2>1, <2>2, ToolOperationBegins
  <2>3. ASSUME NEW e, Fails(e), Runner!JoyCon!Goes("close", <<e>>) PROVE EvidenceInv'
    BY <1>1, <1>3, <2>1, <2>3, ProfileLeads, ToolFails DEF Runner!JoyCon!Goes
  <2> QED
    BY <2>1, <2>2, <2>3, JoyConFails
<1>7. CASE Runner!JoyCon!run_operation
  <2> DEFINE name == Head(tool.todo).name
             complete == Runner!JoyCon!Event("operation_complete", [operation |-> name])
  <2>1. /\ tool.at = "operation"
        /\ \/ tool' = [tool EXCEPT !.at = "input", !.todo = Tail(@), !.log = Append(@, complete)]
           \/ \E fault : Runner!JoyCon!Goes("close",
                            <<complete, Runner!JoyCon!FixedFailure(name, fault)>>)
    BY <1>7 DEF Runner!JoyCon!run_operation
  <2>2. complete.event = "operation_complete" /\ complete.operation = name
    BY JoyConWrites, NamedEvent, OperationEvent
  <2> HIDE DEF complete
  <2>3. OperationIs(complete)
    BY <2>2 DEF OperationIs
  <2>4. OperationCounts(complete) \/ \E f : OperationFaults(complete, f)
    BY <2>1, JoyConFails DEF OperationCounts, OperationFaults, Runner!JoyCon!Goes
  <2> QED
    BY <2>1, <2>3, <2>4, ToolOperationCompletes
<1>8. CASE Runner!JoyCon!InputDone
  BY <1>8, ToolInputEnds DEF Runner!JoyCon!InputDone, Runner!JoyCon!Passes
<1>9. CASE Runner!JoyCon!close_controller
  <2> DEFINE closes == Runner!JoyCon!Event("close_complete", Runner!JoyCon!NoFields)
  <2>1. /\ tool.at = "close"
        /\ \/ Runner!JoyCon!Passes("close", "reopen", <<closes>>)
           \/ \E kind : Runner!JoyCon!Goes("reopen",
                            <<Runner!JoyCon!ControllerFailure("close", kind)>>)
    BY <1>9 DEF Runner!JoyCon!close_controller
  <2>2. closes.event = "close_complete"
    BY JoyConWrites, NamedEvent
  <2> HIDE DEF closes
  <2>3. CASE Runner!JoyCon!Passes("close", "reopen", <<closes>>)
    BY <1>1, <1>3, <2>1, <2>2, <2>3, ClosesOn, ToolPasses DEF Runner!JoyCon!Passes
  <2>4. ASSUME NEW e, Fails(e), Runner!JoyCon!Goes("reopen", <<e>>) PROVE EvidenceInv'
    BY <1>1, <1>3, <2>1, <2>4, ProfileLeads, ToolFails DEF Runner!JoyCon!Goes
  <2> QED
    BY <2>1, <2>3, <2>4, JoyConFails
<1> QED
  BY <1>4, <1>5, <1>6, <1>7, <1>8, <1>9

\* After the input
LEMMA JoyConCloses ==
    ASSUME Shape, EvidenceInv, Going,
           Runner!JoyCon!VerifyReopen \/ Runner!JoyCon!verify_profile_postflight
    PROVE  EvidenceInv'
<1>1. Job.name = "joycon-profile"
  BY DEF Job, Runner!JoyCon!VerifyReopen, Runner!JoyCon!verify_profile_postflight
<1>2. CASE Runner!JoyCon!VerifyReopen
  <2> DEFINE start == Runner!JoyCon!Event("adapter_reopen_start", Runner!JoyCon!NoFields)
             again == Runner!JoyCon!Event("adapter_reopen_complete", Runner!JoyCon!NoFields)
             Fault(operation, kind) == Runner!JoyCon!ControllerFailure(operation, kind)
  <2>1. /\ tool.at \in Reopening
        /\ \/ Runner!JoyCon!Goes("reopen_open", <<start>>)
           \/ Runner!JoyCon!Goes("reopen_close", <<>>)
           \/ \E operation, kind :
                Runner!JoyCon!Goes("postflight", <<start, Fault(operation, kind)>>)
           \/ \E operation, kind : Runner!JoyCon!Goes("postflight", <<Fault(operation, kind)>>)
           \/ Runner!JoyCon!Passes("reopen", "postflight", <<again>>)
    <3> USE DEF Runner!JoyCon!Event, Runner!JoyCon!ControllerFailure, Runner!JoyCon!target_name
    <3>1. CASE Runner!JoyCon!reopen_build(Runner!JoyCon!evidence_dimensions, tool.job.model, {},
                                          "postflight")
      BY <3>1 DEF Runner!JoyCon!reopen_build, Reopening
    <3>2. CASE Runner!JoyCon!reopen_open(Runner!JoyCon!evidence_dimensions, {}, "postflight")
      BY <3>2 DEF Runner!JoyCon!reopen_open, Reopening
    <3>3. CASE Runner!JoyCon!reopen_close(Runner!JoyCon!evidence_dimensions, {}, "postflight")
      BY <3>3 DEF Runner!JoyCon!reopen_close, Reopening
    <3> QED
      BY <1>2, <3>1, <3>2, <3>3 DEF Runner!JoyCon!VerifyReopen, Runner!JoyCon!verify_adapter_reopen
  <2>2. Quiet(start) /\ again.event = "adapter_reopen_complete"
    BY JoyConWrites, QuietEvent, NamedEvent DEF Speaking, Counted
  <2>3. \A operation, kind : Fails(Fault(operation, kind))
    BY JoyConFails
  <2>4. ReopenNeed(Job.name, "postflight") /\ {"reopen_open", "reopen_close"} \subseteq Reopening
    BY <1>1 DEF ReopenNeed, Reopening
  <2> HIDE DEF start, again, Fault
  <2> USE DEF ReopensOn, ReopensWith, Runner!JoyCon!Goes, Runner!JoyCon!Passes
  <2>5. \/ \E label \in Reopening : \E events : ReopensOn(label, events)
             /\ (events = <<>> \/ \E e : Quiet(e) /\ events = <<e>>)
        \/ \E first, e : Quiet(first) /\ Fails(e) /\ ReopensOn("postflight", <<first, e>>)
        \/ \E e : Fails(e) /\ ReopensOn("postflight", <<e>>)
        \/ \E e : e.event = "adapter_reopen_complete" /\ ReopensWith("postflight", e)
    <3>1. CASE Runner!JoyCon!Goes("reopen_open", <<start>>)
      BY <2>2, <2>4, <3>1
    <3>2. CASE Runner!JoyCon!Goes("reopen_close", <<>>)
      BY <2>4, <3>2
    <3>3. CASE \E operation, kind :
                Runner!JoyCon!Goes("postflight", <<start, Fault(operation, kind)>>)
      BY <2>2, <2>3, <3>3
    <3>4. CASE \E operation, kind : Runner!JoyCon!Goes("postflight", <<Fault(operation, kind)>>)
      BY <2>3, <3>4
    <3>5. CASE Runner!JoyCon!Passes("reopen", "postflight", <<again>>)
      BY <2>2, <3>5
    <3> QED
      BY <2>1, <3>1, <3>2, <3>3, <3>4, <3>5
  <2> HIDE DEF ReopensOn, ReopensWith
  <2> QED
    BY <2>1, <2>4, <2>5, ToolReopens
<1>3. CASE Runner!JoyCon!verify_profile_postflight
  <2> DEFINE findings == Runner!JoyCon!ProfileFindings
             ok == \A f \in DOMAIN findings : findings[f]
             success == /\ tool.at = "postflight" /\ ok
                        /\ {"idle", "input", "close", "reopen"} \subseteq tool.passed
             e == Runner!JoyCon!Event("profile_postflight", findings)
  <2>1. /\ tool.at \in {"postflight", "late_postflight"}
        /\ Runner!JoyCon!Complete(success, <<e>>) /\ Runner!JoyCon!dropped
    BY <1>3 DEF Runner!JoyCon!verify_profile_postflight
  <2>2. DOMAIN findings \subseteq Findings
    BY DEF Runner!JoyCon!ProfileFindings, Findings
  <2>3. IF ok THEN Quiet(e) ELSE Fails(e)
    <3> HIDE DEF findings
    <3> QED
      BY <2>2, JoyConWrites, PostflightEvent
  <2>4. ok => (tool.before # <<>> => world.disk[Job.profile] = tool.before[1])
    BY DEF Runner!JoyCon!ProfileFindings, Job
  <2>5. world'.disk = world.disk
    BY <2>1 DEF Runner!JoyCon!dropped, Shape
  <2> HIDE DEF ok, e
  <2>6. PICK c : /\ c.event = "runner_complete" /\ c.success = success /\ Quiet(c)
                 /\ Ends(<<e>>, c, IF success THEN 0 ELSE 1)
    BY <2>1, JoyConEnds
  <2>7. tool.at = "late_postflight" => Told(tool.log)
    BY <1>1, IsGoing DEF Fallen
  <2>8. tool.at = "postflight" => Late(Job.name, tool.at) /\ NeedsOf(Job.name, tool.at) = All
    BY <1>1 DEF Late, NeedsOf, Early, InInput, Reopening, All
  <2>9. Told(tool.log) <=> ~(NeedsOf(Job.name, tool.at) \subseteq tool.passed)
    BY IsGoing, StandsList DEF Says
  <2>10. CASE success
    <3>1. Ends(<<e>>, c, 0) /\ Quiet(c) /\ Quiet(e)
      BY <2>3, <2>6, <2>10
    <3>2. /\ Late(Job.name, tool.at) /\ NeedsOf(Job.name, tool.at) \subseteq tool.passed
          /\ {"close", "reopen"} \subseteq tool.passed
      BY <2>8, <2>10 DEF All
    <3>3. tool.before # <<>> => world'.disk[Job.profile] = tool.before[1]
      BY <2>4, <2>5, <2>10
    <3> HIDE DEF success
    <3> QED
      BY <3>1, <3>2, <3>3, EndsInSuccess
  <2>11. CASE ~success
    <3>1. Ends(<<e>>, c, 1) /\ c.event = "runner_complete" /\ ~c.success
      BY <2>6, <2>11
    <3>2. Told(tool.log) \/ Tells(e)
      BY <2>1, <2>3, <2>7, <2>8, <2>9, <2>11 DEF All, Fails
    <3> HIDE DEF success
    <3> QED
      BY <3>1, <3>2, EndsInFailure
  <2> QED
    BY <2>10, <2>11
<1> QED
  BY <1>2, <1>3

LEMMA JoyConTells ==
    ASSUME Shape, EvidenceInv, Going, Runner!JoyCon!run_hardware PROVE EvidenceInv'
BY JoyConBegins, JoyConRuns, JoyConCloses DEF Runner!JoyCon!run_hardware

-----------------------------------------------------------------------------
(* pro-profile                                                              *)

\* The close after the input, and the one after the reconnection that was to fail.
LEMMA CloseStands ==
    ASSUME NEW name, name # "pro-periodic", NEW operations, NEW log, NEW passed, NEW todo,
           Stands(name, operations, "close", log, passed, todo), NEW e
    PROVE  /\ e.event = "close_complete"
              => Stands(name, operations, "reopen", Append(log, e), passed \cup {"close"}, todo)
           /\ Fails(e) => Stands(name, operations, "reopen", Append(log, e), passed, todo)
<1>1. /\ Late(name, "close") /\ Late(name, "reopen")
      /\ "close" \notin NeedsOf(name, "close") \cup {"pre_input"}
      /\ NeedsOf(name, "reopen") = NeedsOf(name, "close") \cup {"close"}
  BY ClosesOn
<1>2. e.event = "close_complete"
      => Stands(name, operations, "reopen", Append(log, e), passed \cup {"close"}, todo)
  BY <1>1, LatePasses
<1>3. Fails(e) => Stands(name, operations, "reopen", Append(log, e), passed, todo)
  <2>1. /\ "close" \in NeedsOf(name, "reopen") \ (NeedsOf(name, "close") \cup {"pre_input"})
        /\ NeedsOf(name, "close") \subseteq NeedsOf(name, "reopen")
    BY <1>1
  <2> QED
    BY <1>1, <2>1, FailsOn DEF Fails
<1> QED
  BY <1>2, <1>3

LEMMA ExpectedCloses ==
    ASSUME NEW name, name # "pro-periodic", NEW operations, Len(operations) = 0,
           NEW log, NEW passed, NEW todo,
           Stands(name, operations, "close_expected", log, passed, todo), NEW e
    PROVE  /\ e.event = "close_complete"
              => Stands(name, operations, "reopen", Append(log, e),
                        passed \cup {"idle", "input", "close"}, todo)
           /\ Fails(e)
              => Stands(name, operations, "reopen", Append(log, e),
                        passed \cup {"idle", "input"}, todo)
<1>1. /\ "close_expected" \in Early(name) /\ NeedsOf(name, "close_expected") = {}
      /\ "reopen" \notin Early(name) \cup InInput \cup {"close", "validate"}
      /\ "reopen" \in Reopening
  BY DEF Early, InInput, Reopening, NeedsOf
<1>2. NeedsOf(name, "reopen") = {"idle", "input", "close"}
  BY <1>1 DEF NeedsOf
<1>3. PICK n : Evidence(log, passed, {}, operations, n) /\ n \in 0 .. Len(operations)
  BY <1>1 DEF Stands, Progress
<1>4. Evidence(log, passed \cup {"idle", "input"}, {"idle", "input"}, operations, n)
  <2>1. "idle" \notin {} \cup {"pre_input", "close", "reopen"}
    OBVIOUS
  <2>2. Evidence(log, passed \cup {"idle"}, {} \cup {"idle"}, operations, n)
    BY <1>3, <2>1, PassStep
  <2>3. "input" \notin ({} \cup {"idle"}) \cup {"pre_input", "close", "reopen"}
    OBVIOUS
  <2>4. Evidence(log, (passed \cup {"idle"}) \cup {"input"}, ({} \cup {"idle"}) \cup {"input"},
                 operations, n)
    BY <2>2, <2>3, PassStep
  <2>5. /\ (passed \cup {"idle"}) \cup {"input"} = passed \cup {"idle", "input"}
        /\ ({} \cup {"idle"}) \cup {"input"} = {"idle", "input"}
    OBVIOUS
  <2> QED
    BY <2>4, <2>5
<1>5. \A more, after : Progress(name, operations, "reopen", more, after, n)
  BY <1>1, <1>3 DEF Progress, InInput
<1>6. ASSUME e.event = "close_complete"
      PROVE  Stands(name, operations, "reopen", Append(log, e),
                    passed \cup {"idle", "input", "close"}, todo)
  <2>1. "close" \notin {"idle", "input"}
    OBVIOUS
  <2>2. Evidence(Append(log, e), (passed \cup {"idle", "input"}) \cup {"close"},
                 {"idle", "input"} \cup {"close"}, operations, n)
    BY <1>4, <1>6, <2>1, CloseStep
  <2>3. /\ (passed \cup {"idle", "input"}) \cup {"close"} = passed \cup {"idle", "input", "close"}
        /\ {"idle", "input"} \cup {"close"} = {"idle", "input", "close"}
    OBVIOUS
  <2> QED
    BY <1>2, <1>5, <2>2, <2>3 DEF Stands
<1>7. ASSUME Fails(e)
      PROVE  Stands(name, operations, "reopen", Append(log, e),
                    passed \cup {"idle", "input"}, todo)
  <2>1. /\ {"idle", "input"} \subseteq {"idle", "input", "close"}
        /\ "close" \in {"idle", "input", "close"} \ ({"idle", "input"} \cup {"pre_input"})
    OBVIOUS
  <2>2. Evidence(Append(log, e), passed \cup {"idle", "input"}, {"idle", "input", "close"},
                 operations, n)
    BY <1>4, <1>7, <2>1, FailStep DEF Fails
  <2> QED
    BY <1>2, <1>5, <2>2 DEF Stands
<1> QED
  BY <1>6, <1>7

LEMMA ProfileWrites ==
    /\ DOMAIN Runner!Profile!evidence_dimensions \subseteq Dimensions
    /\ \A event, fields :
        Runner!Profile!Event(event, fields)
          = Evident(Runner!Profile!evidence_dimensions, event, fields)
<1>1. DOMAIN Runner!Profile!evidence_dimensions \subseteq Dimensions
  BY DEF Runner!Profile!evidence_dimensions, Dimensions
<1>2. \A event, fields :
        Runner!Profile!Event(event, fields)
          = Evident(Runner!Profile!evidence_dimensions, event, fields)
  BY Zenon DEF Runner!Profile!Event, Runner!Profile!evidence_event, Evident
<1> QED
  BY <1>1, <1>2

LEMMA ProfileFails ==
    ASSUME NEW operation, NEW kind
    PROVE  /\ Fails(Runner!Profile!ControllerFailure(operation, kind))
           /\ Fails(Runner!Profile!FixedFailure(operation, kind))
<1>1. \A fields : Fails(Runner!Profile!Event("operation_failure", fields))
  BY ProfileWrites, FailureEvent
<1> QED
  BY <1>1, Zenon
  DEF Runner!Profile!ControllerFailure, Runner!Profile!FixedFailure,
      Runner!Profile!controller_failure_event, Runner!Profile!fixed_failure, Runner!Profile!Event

LEMMA ProfileEnds ==
    ASSUME NEW success, NEW events, Runner!Profile!Complete(success, events)
    PROVE  \E c : /\ c.event = "runner_complete" /\ c.success = success /\ Quiet(c)
                  /\ Ends(events, c, IF success THEN 0 ELSE 1)
<1> DEFINE c == Runner!Profile!completion_event(Runner!Profile!evidence_dimensions, success)
<1>1. c = Runner!Profile!Event("runner_complete", [success |-> success])
  BY DEF Runner!Profile!completion_event, Runner!Profile!Event
<1>2. c.event = "runner_complete" /\ c.success = success /\ Quiet(c)
  BY <1>1, ProfileWrites, CompletionEvent
<1>3. Ends(events, c, IF success THEN 0 ELSE 1)
  BY DEF Runner!Profile!Complete, Runner!Profile!Completes, Ends
<1> QED
  BY <1>2, <1>3

LEMMA ProfileEndsInFailure ==
    ASSUME Shape, EvidenceInv, Going, NEW e, Fails(e), Runner!Profile!Complete(FALSE, <<e>>)
    PROVE  EvidenceInv'
<1>1. PICK c : c.event = "runner_complete" /\ ~c.success /\ Ends(<<e>>, c, 1)
  BY ProfileEnds
<1> QED
  BY <1>1, EndsInFailure DEF Fails

\* Up to the connection
LEMMA ProfileBegins ==
    ASSUME Shape, EvidenceInv, Going,
           \/ Runner!Profile!prepare_profile \/ Runner!Profile!StaleCopyFails
           \/ Runner!Profile!BuildRun \/ Runner!Profile!open \/ Runner!Profile!reconnect
           \/ Runner!Profile!UnexpectedSuccess \/ Runner!Profile!close_without_neutral
    PROVE  EvidenceInv'
<1> USE DEF Runner!Profile!Here, Runner!Profile!At
<1>1. Job.name = "pro-profile"
  BY DEF Job, Runner!Profile!prepare_profile, Runner!Profile!StaleCopyFails,
         Runner!Profile!BuildRun, Runner!Profile!open, Runner!Profile!reconnect,
         Runner!Profile!UnexpectedSuccess, Runner!Profile!close_without_neutral
<1>2. Says /\ IsList(tool.log) /\ (tool.at \in Fallen(Job.name) => Told(tool.log))
  BY IsGoing
<1>3. \A at, before : at \notin InInput \cup {"idle", "close", "close_expected"}
                      => Setup(Job, at, before)
  BY <1>1 DEF Setup
<1>4. /\ {"start", "build", "open", "reconnect", "idle", "close_expected"}
         \subseteq Early("pro-profile")
      /\ \A at \in Early("pro-profile") : at \notin Fallen("pro-profile")
                                          /\ at \notin {"shell", "done"} \cup InInput
      /\ {"close_failed", "close_unexpected"} \subseteq Fallen("pro-profile")
  BY DEF Early, Fallen, InInput
<1>5. CASE Runner!Profile!prepare_profile
  <2>1. \/ \E fault : Runner!Profile!Complete(FALSE,
                <<Runner!Profile!FixedFailure("profile_preflight", fault)>>)
        \/ /\ tool.at = "start" /\ tool'.at = "build" /\ tool'.job = tool.job
           /\ tool'.log = tool.log /\ tool'.passed = tool.passed /\ tool'.todo = tool.todo
    BY <1>5 DEF Runner!Profile!prepare_profile, Shape
  <2>2. CASE /\ tool.at = "start" /\ tool'.at = "build" /\ tool'.job = tool.job
             /\ tool'.log = tool.log /\ tool'.passed = tool.passed /\ tool'.todo = tool.todo
    <3>1. Stands(Job.name, Operations(Job), "build", tool.log, tool.passed, tool.todo)
      BY <1>1, <1>2, <1>4, <2>2, EarlyOn DEF Says
    <3>2. Setup(Job, "build", tool'.before)
      BY <1>3 DEF InInput
    <3> QED
      BY <1>1, <1>4, <2>2, <3>1, <3>2, GoesOn
  <2> QED
    BY <2>1, <2>2, ProfileFails, ProfileEndsInFailure
<1>6. CASE Runner!Profile!StaleCopyFails
  BY <1>6, ProfileFails, ProfileEndsInFailure DEF Runner!Profile!StaleCopyFails
<1>7. CASE Runner!Profile!BuildRun \/ Runner!Profile!open
  <2>1. \/ tool.at = "build" /\ Runner!Profile!Goes("open", <<>>)
        \/ tool.at = "open" /\ Runner!Profile!Goes("reconnect", <<>>)
        \/ \E operation, kind : Runner!Profile!Complete(FALSE,
                <<Runner!Profile!ControllerFailure(operation, kind)>>)
    BY <1>7 DEF Runner!Profile!BuildRun, Runner!Profile!open
  <2>2. ASSUME tool.at \in {"build", "open"}, NEW label \in {"open", "reconnect"},
               Runner!Profile!Goes(label, <<>>)
        PROVE  EvidenceInv'
    <3>1. Setup(Job, label, tool.before)
      BY <1>3, <2>2 DEF InInput
    <3>2. /\ label \in Early(Job.name) /\ tool.at \in Early(Job.name)
          /\ label \notin Fallen(Job.name) /\ label \notin {"shell", "done"}
      BY <1>1, <1>4, <2>2
    <3> QED
      BY <2>2, <3>1, <3>2, ToolGoes DEF Runner!Profile!Goes
  <2> QED
    BY <2>1, <2>2, ProfileFails, ProfileEndsInFailure
<1>8. CASE Runner!Profile!reconnect
  <2>1. /\ tool.at = "reconnect"
        /\ \/ /\ tool.job.setup # "stale-bond"
              /\ Runner!Profile!Goes("idle",
                    <<Runner!Profile!Event("reconnect_ready", Runner!Profile!NoFields)>>)
           \/ /\ tool.job.setup = "stale-bond"
              /\ \E fields : Runner!Profile!Goes("close_expected",
                    <<Runner!Profile!Event("expected_reconnect_failure", fields)>>)
           \/ \E kind : Runner!Profile!Goes("close_unexpected",
                    <<Runner!Profile!FixedFailure("reconnect", kind)>>)
           \/ \E kind : Runner!Profile!Goes("close_failed",
                    <<Runner!Profile!ControllerFailure("reconnect", kind)>>)
    BY <1>8 DEF Runner!Profile!reconnect, Runner!Profile!AfterReconnect,
                Runner!Profile!expects_connection
  <2>2. ASSUME NEW label \in {"idle", "close_expected"}, NEW e, Quiet(e),
               Runner!Profile!Goes(label, <<e>>),
               tool.job.setup = "stale-bond" <=> label = "close_expected"
        PROVE  EvidenceInv'
    <3>1. Setup(Job, label, tool.before)
      BY <1>1, <2>2 DEF Setup, Job, InInput
    <3>2. /\ label \in Early(Job.name) /\ tool.at \in Early(Job.name)
          /\ label \notin Fallen(Job.name) /\ label \notin {"shell", "done"}
      BY <1>1, <1>4, <2>1, <2>2
    <3> QED
      BY <2>2, <3>1, <3>2, ToolGoes DEF Runner!Profile!Goes
  <2>3. ASSUME NEW label \in {"close_unexpected", "close_failed"}, NEW e, Fails(e),
               Runner!Profile!Goes(label, <<e>>)
        PROVE  EvidenceInv'
    <3>1. Setup(Job, label, tool.before)
      BY <1>3, <2>3 DEF InInput
    <3>2. FallsTo(Job.name, tool.at, label)
      <4>1. label \notin Early("pro-profile") \cup InInput \cup {"close", "validate"} \cup Reopening
        BY <2>3 DEF Early, InInput, Reopening
      <4>2. NeedsOf("pro-profile", label) = All /\ NeedsOf("pro-profile", "reconnect") = {}
        BY <1>4, <4>1 DEF NeedsOf, All
      <4> QED
        BY <1>1, <2>1, <4>1, <4>2 DEF FallsTo, Late, All
    <3> QED
      BY <2>3, <3>1, <3>2, ToolFails DEF Runner!Profile!Goes
  <2>4. \A fields : /\ Quiet(Runner!Profile!Event("reconnect_ready", fields))
                    /\ Quiet(Runner!Profile!Event("expected_reconnect_failure", fields))
    BY ProfileWrites, QuietEvent DEF Speaking, Counted
  <2> QED
    BY <2>1, <2>2, <2>3, <2>4, ProfileFails
<1>9. CASE Runner!Profile!UnexpectedSuccess
  <2>1. PICK c : c.event = "runner_complete" /\ ~c.success /\ Ends(<<>>, c, 1)
    BY <1>9, ProfileEnds DEF Runner!Profile!UnexpectedSuccess
  <2>2. Told(tool.log)
    BY <1>1, <1>2, <1>4, <1>9 DEF Runner!Profile!UnexpectedSuccess
  <2> QED
    BY <2>1, <2>2, EndsInFailure
<1>10. CASE Runner!Profile!close_without_neutral
  <2>1. PICK c : /\ c.event = "runner_complete" /\ ~c.success
                 /\ Ends(<<Runner!Profile!verify_profile_unchanged>>, c, 1)
    BY <1>10, ProfileEnds DEF Runner!Profile!close_without_neutral
  <2>2. Told(tool.log)
    BY <1>1, <1>2, <1>4, <1>10 DEF Runner!Profile!close_without_neutral
  <2> QED
    BY <2>1, <2>2, EndsInFailure
<1> QED
  BY <1>5, <1>6, <1>7, <1>8, <1>9, <1>10

\* The input
LEMMA ProfileRuns ==
    ASSUME Shape, EvidenceInv, Going,
           \/ Runner!Profile!verify_direct_idle \/ Runner!Profile!operation_start
           \/ Runner!Profile!OperationCall \/ Runner!Profile!run_operation
           \/ Runner!Profile!InputDone \/ Runner!Profile!close_controller
    PROVE  EvidenceInv'
<1> USE DEF Runner!Profile!Here, Runner!Profile!At
<1>1. Job.name = "pro-profile"
  BY DEF Job, Runner!Profile!verify_direct_idle, Runner!Profile!operation_start,
         Runner!Profile!OperationCall, Runner!Profile!run_operation, Runner!Profile!InputDone,
         Runner!Profile!close_controller
<1>2. Says /\ IsList(tool.log)
  BY IsGoing
<1>3. /\ tool.at \in InInput \cup {"idle", "close"}
         => /\ tool.job.setup # "stale-bond"
            /\ \A at : at # "close_expected" => Setup(Job, at, tool.before)
      /\ tool.at = "close_expected" => tool.job.setup = "stale-bond"
      /\ Setup(Job, "reopen", tool.before)
  BY <1>1, IsGoing DEF Setup, Job, InInput
<1>4. CASE Runner!Profile!verify_direct_idle
  <2>1. PICK delta \in Runner!Profile!Deltas :
            LET ok == tool.job.mode = "Periodic" \/ delta = 0
            IN  tool' = [tool EXCEPT
                  !.at = "input", !.todo = Runner!Profile!run_input_sequence(tool.job.mode),
                  !.passed = IF ok THEN @ \cup {"idle"} ELSE @,
                  !.log = IF tool.job.mode = "Periodic" THEN @
                          ELSE Append(@, Runner!Profile!Event("direct_idle_complete",
                                           [input_reports_accepted_delta |-> delta]))]
    BY <1>4, Zenon DEF Runner!Profile!verify_direct_idle
  <2> DEFINE e == Runner!Profile!Event("direct_idle_complete",
                                      [input_reports_accepted_delta |-> delta])
  <2>2. /\ tool'.at = "input" /\ tool'.job = tool.job /\ tool'.before = tool.before
        /\ tool'.todo = Runner!Profile!run_input_sequence(tool.job.mode)
        /\ tool'.passed = IF tool.job.mode = "Periodic" \/ delta = 0
                          THEN tool.passed \cup {"idle"} ELSE tool.passed
        /\ tool'.log = IF tool.job.mode = "Periodic" THEN tool.log ELSE Append(tool.log, e)
    BY <2>1 DEF Shape
  <2>3. IF delta > 0 THEN Fails(e) ELSE Quiet(e)
    BY ProfileWrites, IdleEvent
  <2>4. delta = 0 \/ delta > 0
    BY DEF Runner!Profile!Deltas
  <2>5. tool'.todo = Operations(Job)
    BY <1>1, <1>3, <1>4, <2>2
    DEF Operations, Job, Runner!Profile!expects_connection, Runner!Profile!verify_direct_idle
  <2> HIDE DEF e
  <2>6. InputFound("idle")
    BY <2>2, <2>3, <2>4 DEF InputFound
  <2>7. /\ tool.at \in Early(Job.name) /\ NeedsOf(Job.name, "input") = {"idle"}
    BY <1>1, <1>4, InputNeeds DEF Runner!Profile!verify_direct_idle, Early
  <2>8. Setup(Job, "input", tool.before)
    BY <1>3, <1>4 DEF Runner!Profile!verify_direct_idle
  <2> QED
    BY <2>2, <2>5, <2>6, <2>7, <2>8, ToolInputBegins
<1>5. CASE Runner!Profile!operation_start
  BY <1>5, ToolOperationBegins DEF Runner!Profile!operation_start
<1>6. CASE Runner!Profile!OperationCall
  <2>1. /\ tool.at = "operation"
        /\ \/ tool' = [tool EXCEPT !.calls = Tail(@)]
           \/ \E operation, kind : Runner!Profile!Goes("close",
                <<Runner!Profile!ControllerFailure(operation, kind)>>)
    BY <1>6 DEF Runner!Profile!OperationCall
  <2>2. CASE tool' = [tool EXCEPT !.calls = Tail(@)]
    BY <2>1, <2>2, ToolOperationBegins
  <2>3. ASSUME NEW e, Fails(e), Runner!Profile!Goes("close", <<e>>) PROVE EvidenceInv'
    <3>1. Setup(Job, "close", tool.before)
      BY <1>3, <2>1 DEF InInput
    <3>2. FallsTo(Job.name, tool.at, "close")
      BY <1>1, <2>1, ProfileLeads
    <3> QED
      BY <2>3, <3>1, <3>2, ToolFails DEF Runner!Profile!Goes
  <2> QED
    BY <2>1, <2>2, <2>3, ProfileFails
<1>7. CASE Runner!Profile!run_operation
  <2> DEFINE name == Head(tool.todo).name
             complete == Runner!Profile!Event("operation_complete", [operation |-> name])
  <2>1. /\ tool.at = "operation"
        /\ tool' = [tool EXCEPT !.at = "input", !.todo = Tail(@), !.log = Append(@, complete)]
    BY <1>7 DEF Runner!Profile!run_operation
  <2>2. complete.event = "operation_complete" /\ complete.operation = name
    BY ProfileWrites, NamedEvent, OperationEvent
  <2> HIDE DEF complete
  <2>3. OperationIs(complete)
    BY <2>2 DEF OperationIs
  <2>4. OperationCounts(complete)
    BY <2>1 DEF OperationCounts
  <2> QED
    BY <2>1, <2>3, <2>4, ToolOperationCompletes
<1>8. CASE Runner!Profile!InputDone
  BY <1>8, ToolInputEnds DEF Runner!Profile!InputDone, Runner!Profile!Passes
<1>9. CASE Runner!Profile!close_controller
  <2> DEFINE closes == Runner!Profile!Event("close_complete", Runner!Profile!NoFields)
             expected == IF tool.at = "close_expected" THEN {"idle", "input"} ELSE {}
  <2>1. /\ tool.at \in {"close", "close_expected"}
        /\ \E outcome \in {"Ok"} \cup CallErrors :
             tool' = [tool EXCEPT
                !.at = "reopen",
                !.passed = @ \cup (IF outcome = "Ok"
                                   THEN IF tool.at = "close_expected"
                                        THEN {"idle", "input", "close"} ELSE {"close"}
                                   ELSE (IF tool.at = "close_expected"
                                         THEN {"idle", "input", "close"} ELSE {"close"}) \ {"close"}),
                !.log = Append(@, IF outcome = "Ok" THEN closes
                                  ELSE Runner!Profile!ControllerFailure("close", outcome))]
    BY <1>9 DEF Runner!Profile!close_controller
  <2>2. closes.event = "close_complete" /\ \A kind : Fails(Runner!Profile!ControllerFailure("close", kind))
    BY ProfileWrites, NamedEvent, ProfileFails
  <2> HIDE DEF closes
  <2>3. /\ tool'.at = "reopen" /\ tool'.job = tool.job /\ tool'.before = tool.before
        /\ tool'.todo = tool.todo
        /\ \E e : /\ tool'.log = Append(tool.log, e)
                 /\ \/ /\ e.event = "close_complete"
                       /\ tool'.passed = tool.passed \cup (expected \cup {"close"})
                    \/ Fails(e) /\ tool'.passed = tool.passed \cup expected
    <3>1. PICK outcome \in {"Ok"} \cup CallErrors :
             tool' = [tool EXCEPT
                !.at = "reopen",
                !.passed = @ \cup (IF outcome = "Ok"
                                   THEN IF tool.at = "close_expected"
                                        THEN {"idle", "input", "close"} ELSE {"close"}
                                   ELSE (IF tool.at = "close_expected"
                                         THEN {"idle", "input", "close"} ELSE {"close"}) \ {"close"}),
                !.log = Append(@, IF outcome = "Ok" THEN closes
                                  ELSE Runner!Profile!ControllerFailure("close", outcome))]
      BY <2>1
    <3>2. /\ tool'.at = "reopen" /\ tool'.job = tool.job /\ tool'.before = tool.before
          /\ tool'.todo = tool.todo
          /\ outcome = "Ok" => /\ tool'.log = Append(tool.log, closes)
                               /\ tool'.passed = tool.passed \cup (expected \cup {"close"})
          /\ outcome # "Ok" =>
                /\ tool'.log = Append(tool.log, Runner!Profile!ControllerFailure("close", outcome))
                /\ tool'.passed = tool.passed \cup expected
      BY <3>1 DEF Shape
    <3> HIDE DEF expected
    <3> QED
      BY <2>2, <3>2
  <2>4. Stands(Job.name, Operations(Job), "reopen", tool'.log, tool'.passed, tool.todo)
    <3>1. PICK e : /\ tool'.log = Append(tool.log, e)
                   /\ \/ /\ e.event = "close_complete"
                         /\ tool'.passed = tool.passed \cup (expected \cup {"close"})
                      \/ Fails(e) /\ tool'.passed = tool.passed \cup expected
      BY <2>3
    <3>2. CASE tool.at = "close"
      <4>1. expected = {} /\ expected \cup {"close"} = {"close"} /\ tool.passed \cup {} = tool.passed
        BY <3>2
      <4>2. Stands(Job.name, Operations(Job), "close", tool.log, tool.passed, tool.todo)
        BY <1>2, <3>2 DEF Says
      <4> HIDE DEF expected
      <4> QED
        <5>1. /\ e.event = "close_complete" => Stands(Job.name, Operations(Job), "reopen",
                    Append(tool.log, e), tool.passed \cup {"close"}, tool.todo)
              /\ Fails(e) => Stands(Job.name, Operations(Job), "reopen",
                    Append(tool.log, e), tool.passed, tool.todo)
          BY <1>1, <4>2, CloseStands
        <5> QED
          BY <3>1, <4>1, <5>1
    <3>3. CASE tool.at = "close_expected"
      <4>1. expected = {"idle", "input"} /\ expected \cup {"close"} = {"idle", "input", "close"}
        BY <3>3
      <4>2. Stands(Job.name, Operations(Job), "close_expected", tool.log, tool.passed, tool.todo)
        BY <1>2, <3>3 DEF Says
      <4>3. Len(Operations(Job)) = 0
        <5>1. Operations(Job) = <<>>
          BY <1>1, <1>3, <3>3 DEF Operations, Job, Runner!Profile!expects_connection
        <5> QED
          BY <5>1
      <4> HIDE DEF expected
      <4> QED
        <5>1. /\ e.event = "close_complete" => Stands(Job.name, Operations(Job), "reopen",
                    Append(tool.log, e), tool.passed \cup {"idle", "input", "close"}, tool.todo)
              /\ Fails(e) => Stands(Job.name, Operations(Job), "reopen",
                    Append(tool.log, e), tool.passed \cup {"idle", "input"}, tool.todo)
          BY <1>1, <4>2, <4>3, ExpectedCloses
        <5> QED
          BY <3>1, <4>1, <5>1
    <3> QED
      BY <2>1, <3>2, <3>3
  <2>5. "reopen" \notin Fallen(Job.name)
    BY DEF Fallen
  <2> QED
    BY <1>3, <2>3, <2>4, <2>5, GoesOn
<1> QED
  BY <1>4, <1>5, <1>6, <1>7, <1>8, <1>9

\* After the input
LEMMA ProfileCloses ==
    ASSUME Shape, EvidenceInv, Going,
           Runner!Profile!VerifyReopen \/ Runner!Profile!Postflight
    PROVE  EvidenceInv'
<1>1. Job.name = "pro-profile"
  BY DEF Job, Runner!Profile!VerifyReopen, Runner!Profile!Postflight, Runner!Profile!Here,
         Runner!Profile!At
<1>2. CASE Runner!Profile!VerifyReopen
  <2> DEFINE start == Runner!Profile!Event("adapter_reopen_start", Runner!Profile!NoFields)
             again == Runner!Profile!Event("adapter_reopen_complete", Runner!Profile!NoFields)
             Fault(operation, kind) == Runner!Profile!ControllerFailure(operation, kind)
  <2>1. /\ tool.at \in Reopening
        /\ \/ Runner!Profile!Goes("reopen_open", <<start>>)
           \/ Runner!Profile!Goes("reopen_close", <<>>)
           \/ \E operation, kind :
                Runner!Profile!Goes("postflight", <<start, Fault(operation, kind)>>)
           \/ \E operation, kind : Runner!Profile!Goes("postflight", <<Fault(operation, kind)>>)
           \/ Runner!Profile!Passes("reopen", "postflight", <<again>>)
    <3> USE DEF Runner!Profile!Event, Runner!Profile!ControllerFailure, Runner!Profile!target_name
    <3>1. CASE Runner!Profile!reopen_build(Runner!Profile!evidence_dimensions, "Pro", {},
                                          "postflight")
      BY <3>1 DEF Runner!Profile!reopen_build, Reopening
    <3>2. CASE Runner!Profile!reopen_open(Runner!Profile!evidence_dimensions, {}, "postflight")
      BY <3>2 DEF Runner!Profile!reopen_open, Reopening
    <3>3. CASE Runner!Profile!reopen_close(Runner!Profile!evidence_dimensions, {}, "postflight")
      BY <3>3 DEF Runner!Profile!reopen_close, Reopening
    <3> QED
      BY <1>2, <3>1, <3>2, <3>3 DEF Runner!Profile!VerifyReopen, Runner!Profile!verify_adapter_reopen
  <2>2. Quiet(start) /\ again.event = "adapter_reopen_complete"
    BY ProfileWrites, QuietEvent, NamedEvent DEF Speaking, Counted
  <2>3. \A operation, kind : Fails(Fault(operation, kind))
    BY ProfileFails
  <2>4. ReopenNeed(Job.name, "postflight") /\ {"reopen_open", "reopen_close"} \subseteq Reopening
    BY <1>1 DEF ReopenNeed, Reopening
  <2> HIDE DEF start, again, Fault
  <2> USE DEF ReopensOn, ReopensWith, Runner!Profile!Goes, Runner!Profile!Passes
  <2>5. \/ \E label \in Reopening : \E events : ReopensOn(label, events)
             /\ (events = <<>> \/ \E e : Quiet(e) /\ events = <<e>>)
        \/ \E first, e : Quiet(first) /\ Fails(e) /\ ReopensOn("postflight", <<first, e>>)
        \/ \E e : Fails(e) /\ ReopensOn("postflight", <<e>>)
        \/ \E e : e.event = "adapter_reopen_complete" /\ ReopensWith("postflight", e)
    <3>1. CASE Runner!Profile!Goes("reopen_open", <<start>>)
      BY <2>2, <2>4, <3>1
    <3>2. CASE Runner!Profile!Goes("reopen_close", <<>>)
      BY <2>4, <3>2
    <3>3. CASE \E operation, kind :
                Runner!Profile!Goes("postflight", <<start, Fault(operation, kind)>>)
      BY <2>2, <2>3, <3>3
    <3>4. CASE \E operation, kind : Runner!Profile!Goes("postflight", <<Fault(operation, kind)>>)
      BY <2>3, <3>4
    <3>5. CASE Runner!Profile!Passes("reopen", "postflight", <<again>>)
      BY <2>2, <3>5
    <3> QED
      BY <2>1, <3>1, <3>2, <3>3, <3>4, <3>5
  <2> HIDE DEF ReopensOn, ReopensWith
  <2> QED
    BY <2>1, <2>4, <2>5, ToolReopens
<1>3. CASE Runner!Profile!Postflight
  <2> DEFINE unchanged == Runner!Profile!Unchanged
             success == unchanged /\ {"idle", "input", "close", "reopen"} \subseteq tool.passed
             fields == [target_unchanged |-> unchanged]
             e == Runner!Profile!Event("profile_postflight", fields)
  <2>1. /\ tool.at = "postflight"
        /\ Runner!Profile!Complete(success, <<e>>) /\ Runner!Profile!dropped
    BY <1>3, Zenon
    DEF Runner!Profile!Postflight, Runner!Profile!verify_profile_unchanged, Runner!Profile!Here,
        Runner!Profile!At
  <2>2. unchanged => (tool.before # <<>> => world.disk[Job.profile] = tool.before[1])
    BY DEF Runner!Profile!Unchanged, Job
  <2>3. world'.disk = world.disk
    BY <2>1 DEF Runner!Profile!dropped, Shape
  <2>4. unchanged \in BOOLEAN
    BY DEF Runner!Profile!Unchanged
  <2> HIDE DEF unchanged
  <2>5. /\ DOMAIN fields \subseteq Findings
        /\ (\A f \in DOMAIN fields : fields[f]) <=> unchanged
    BY <2>4 DEF Findings
  <2>6. IF unchanged THEN Quiet(e) ELSE Fails(e)
    <3> HIDE DEF fields
    <3>1. IF \A f \in DOMAIN fields : fields[f] THEN Quiet(e) ELSE Fails(e)
      BY <2>5, ProfileWrites, PostflightEvent
    <3> QED
      BY <2>5, <3>1
  <2> HIDE DEF e
  <2>7. PICK c : /\ c.event = "runner_complete" /\ c.success = success /\ Quiet(c)
                 /\ Ends(<<e>>, c, IF success THEN 0 ELSE 1)
    BY <2>1, ProfileEnds
  <2>8. Late(Job.name, tool.at) /\ NeedsOf(Job.name, tool.at) = All
    BY <1>1, <2>1 DEF Late, NeedsOf, Early, InInput, Reopening, All
  <2>9. Told(tool.log) <=> ~(NeedsOf(Job.name, tool.at) \subseteq tool.passed)
    BY IsGoing, StandsList DEF Says
  <2>10. CASE success
    <3>1. Ends(<<e>>, c, 0) /\ Quiet(c) /\ Quiet(e)
      BY <2>6, <2>7, <2>10
    <3>2. NeedsOf(Job.name, tool.at) \subseteq tool.passed /\ {"close", "reopen"} \subseteq tool.passed
      BY <2>8, <2>10 DEF All
    <3>3. tool.before # <<>> => world'.disk[Job.profile] = tool.before[1]
      BY <2>2, <2>3, <2>10
    <3> HIDE DEF success
    <3> QED
      BY <2>8, <3>1, <3>2, <3>3, EndsInSuccess
  <2>11. CASE ~success
    <3>1. Ends(<<e>>, c, 1) /\ c.event = "runner_complete" /\ ~c.success
      BY <2>7, <2>11
    <3>2. Told(tool.log) \/ Tells(e)
      BY <2>6, <2>8, <2>9, <2>11 DEF All, Fails
    <3> HIDE DEF success
    <3> QED
      BY <3>1, <3>2, EndsInFailure
  <2> QED
    BY <2>10, <2>11
<1> QED
  BY <1>2, <1>3

LEMMA ProfileTells ==
    ASSUME Shape, EvidenceInv, Going, Runner!Profile!run_hardware PROVE EvidenceInv'
BY ProfileBegins, ProfileRuns, ProfileCloses DEF Runner!Profile!run_hardware

-----------------------------------------------------------------------------
(* pro-periodic                                                             *)

LEMMA PeriodicNeeds ==
    /\ {"start", "pair"} \subseteq Early("pro-periodic")
    /\ \A at \in {"close", "validate", "reopen", "complete"} : Late("pro-periodic", at)
    /\ \A at \in Early("pro-periodic") : NeedsOf("pro-periodic", at) = {}
    /\ NeedsOf("pro-periodic", "input") = {"created"}
    /\ NeedsOf("pro-periodic", "operation") = {"created"}
    /\ NeedsOf("pro-periodic", "close") = {"created", "input"}
    /\ NeedsOf("pro-periodic", "validate") = {"created", "input", "close"}
    /\ NeedsOf("pro-periodic", "reopen") = {"created", "input", "close", "valid"}
    /\ NeedsOf("pro-periodic", "complete") = {"created", "input", "close", "valid", "reopen"}
<1>1. /\ {"start", "pair"} \subseteq Early("pro-periodic")
      /\ \A at \in {"input", "operation", "close", "validate", "reopen", "complete"} :
            at \notin Early("pro-periodic")
      /\ \A at \in {"close", "validate", "reopen", "complete"} : at \notin InInput
      /\ "input" \in InInput /\ "operation" \in InInput /\ "reopen" \in Reopening
      /\ \A at \in {"close", "validate", "complete"} : at \notin Reopening
  BY DEF Early, InInput, Reopening
<1>2. \A at \in {"close", "validate", "reopen", "complete"} : Late("pro-periodic", at)
  BY <1>1 DEF Late
<1>3. /\ NeedsOf("pro-periodic", "input") = {"created"}
      /\ NeedsOf("pro-periodic", "operation") = {"created"}
      /\ NeedsOf("pro-periodic", "close") = {"created", "input"}
      /\ NeedsOf("pro-periodic", "validate") = {"created", "input", "close"}
  BY <1>1 DEF NeedsOf
<1>4. /\ NeedsOf("pro-periodic", "reopen") = {"created", "input", "close", "valid"}
      /\ NeedsOf("pro-periodic", "complete") = {"created", "input", "close", "valid", "reopen"}
  BY <1>1 DEF NeedsOf
<1> QED
  BY <1>1, <1>2, <1>3, <1>4 DEF NeedsOf

LEMMA PeriodicLeads ==
    /\ FallsTo("pro-periodic", "pair", "validate") /\ FallsTo("pro-periodic", "operation", "close")
    /\ FallsTo("pro-periodic", "close", "validate") /\ FallsTo("pro-periodic", "validate", "complete")
<1>1. NeedsOf("pro-periodic", "pair") = {}
  BY PeriodicNeeds
<1> QED
  BY <1>1, PeriodicNeeds DEF FallsTo

LEMMA PeriodicWrites ==
    /\ DOMAIN Runner!Periodic!evidence_dimensions \subseteq Dimensions
    /\ \A event, fields :
        Runner!Periodic!Event(event, fields)
          = Evident(Runner!Periodic!evidence_dimensions, event, fields)
<1>1. DOMAIN Runner!Periodic!evidence_dimensions \subseteq Dimensions
  BY DEF Runner!Periodic!evidence_dimensions, Dimensions
<1>2. \A event, fields :
        Runner!Periodic!Event(event, fields)
          = Evident(Runner!Periodic!evidence_dimensions, event, fields)
  BY Zenon DEF Runner!Periodic!Event, Runner!Periodic!evidence_event, Evident
<1> QED
  BY <1>1, <1>2

LEMMA PeriodicFails ==
    ASSUME NEW operation, NEW kind
    PROVE  /\ Fails(Runner!Periodic!ControllerFailure(operation, kind))
           /\ Fails(Runner!Periodic!FixedFailure(operation, kind))
<1>1. \A fields : Fails(Runner!Periodic!Event("operation_failure", fields))
  BY PeriodicWrites, FailureEvent
<1> QED
  BY <1>1, Zenon
  DEF Runner!Periodic!ControllerFailure, Runner!Periodic!FixedFailure,
      Runner!Periodic!controller_failure_event, Runner!Periodic!fixed_failure, Runner!Periodic!Event

LEMMA PeriodicEnds ==
    ASSUME NEW success, NEW events, Runner!Periodic!Complete(success, events)
    PROVE  \E c : /\ c.event = "runner_complete" /\ c.success = success /\ Quiet(c)
                  /\ Ends(events, c, IF success THEN 0 ELSE 1)
<1> DEFINE c == Runner!Periodic!completion_event(Runner!Periodic!evidence_dimensions, success)
<1>1. c = Runner!Periodic!Event("runner_complete", [success |-> success])
  BY DEF Runner!Periodic!completion_event, Runner!Periodic!Event
<1>2. c.event = "runner_complete" /\ c.success = success /\ Quiet(c)
  BY <1>1, PeriodicWrites, CompletionEvent
<1>3. Ends(events, c, IF success THEN 0 ELSE 1)
  BY DEF Runner!Periodic!Complete, Runner!Periodic!Completes, Ends
<1> QED
  BY <1>2, <1>3

LEMMA PeriodicEndsInFailure ==
    ASSUME Shape, EvidenceInv, Going, NEW e, Fails(e), Runner!Periodic!Complete(FALSE, <<e>>)
    PROVE  EvidenceInv'
<1>1. PICK c : c.event = "runner_complete" /\ ~c.success /\ Ends(<<e>>, c, 1)
  BY PeriodicEnds
<1> QED
  BY <1>1, EndsInFailure DEF Fails

\* Up to the close
LEMMA PeriodicRuns ==
    ASSUME Shape, EvidenceInv, Going,
           \/ Runner!Periodic!Preflight \/ Runner!Periodic!create_profile
           \/ Runner!Periodic!operation_start \/ Runner!Periodic!OperationCall
           \/ Runner!Periodic!run_operation \/ Runner!Periodic!InputDone
    PROVE  EvidenceInv'
<1> USE DEF Runner!Periodic!Here, Runner!Periodic!At
<1>1. Job.name = "pro-periodic"
  BY DEF Job, Runner!Periodic!Preflight, Runner!Periodic!create_profile,
         Runner!Periodic!operation_start, Runner!Periodic!OperationCall,
         Runner!Periodic!run_operation, Runner!Periodic!InputDone
<1>2. Says /\ IsList(tool.log)
  BY IsGoing
<1>3. \A at : Setup(Job, at, tool.before)
  BY <1>1, IsGoing DEF Setup
<1>4. \A at \in {"start", "pair", "validate", "close", "complete"} :
        at \notin Fallen("pro-periodic") /\ at \notin {"shell", "done"}
  BY DEF Fallen
<1>5. CASE Runner!Periodic!Preflight
  <2>1. \/ tool.at = "start" /\ Runner!Periodic!Goes("pair", <<>>)
        \/ \E kind : Runner!Periodic!Complete(FALSE,
                <<Runner!Periodic!FixedFailure("profile_preflight", kind)>>)
    BY <1>5 DEF Runner!Periodic!Preflight
  <2>2. CASE tool.at = "start" /\ Runner!Periodic!Goes("pair", <<>>)
    <3>1. "start" \in Early(Job.name) /\ "pair" \in Early(Job.name)
      BY <1>1, PeriodicNeeds
    <3>2. Setup(Job, "pair", tool.before) /\ "pair" \notin Fallen(Job.name)
      BY <1>1, <1>3, <1>4
    <3> QED
      BY <2>2, <3>1, <3>2, ToolGoes DEF Runner!Periodic!Goes
  <2> QED
    BY <2>1, <2>2, PeriodicFails, PeriodicEndsInFailure
<1>6. CASE Runner!Periodic!create_profile
  <2> DEFINE e == Runner!Periodic!Event("pair_ready", Runner!Periodic!NoFields)
  <2>1. /\ tool.at = "pair"
        /\ \/ tool' = [tool EXCEPT !.at = "input", !.todo = Runner!Periodic!run_input_sequence,
                                   !.passed = @ \cup {"created"}, !.log = Append(@, e)]
           \/ \E kind : Runner!Periodic!Goes("validate",
                            <<Runner!Periodic!ControllerFailure("create_profile", kind)>>)
    BY <1>6 DEF Runner!Periodic!create_profile
  <2>2. Quiet(e)
    BY PeriodicWrites, QuietEvent DEF Speaking, Counted
  <2> HIDE DEF e
  <2>3. CASE tool' = [tool EXCEPT !.at = "input", !.todo = Runner!Periodic!run_input_sequence,
                                  !.passed = @ \cup {"created"}, !.log = Append(@, e)]
    <3>1. /\ tool'.at = "input" /\ tool'.job = tool.job /\ tool'.before = tool.before
          /\ tool'.todo = Runner!Periodic!run_input_sequence
          /\ tool'.passed = tool.passed \cup {"created"} /\ tool'.log = Append(tool.log, e)
      BY <2>3 DEF Shape
    <3>2. Runner!Periodic!run_input_sequence = Operations(Job)
      BY <1>1 DEF Operations
    <3>3. InputFound("created")
      BY <2>2, <3>1 DEF InputFound
    <3>4. tool.at \in Early(Job.name) /\ NeedsOf(Job.name, "input") = {"created"}
      BY <1>1, <2>1, PeriodicNeeds
    <3> QED
      BY <1>3, <3>1, <3>2, <3>3, <3>4, ToolInputBegins
  <2>4. ASSUME NEW f, Fails(f), Runner!Periodic!Goes("validate", <<f>>) PROVE EvidenceInv'
    BY <1>1, <1>3, <2>1, <2>4, PeriodicLeads, ToolFails DEF Runner!Periodic!Goes
  <2> QED
    BY <2>1, <2>3, <2>4, PeriodicFails
<1>7. CASE Runner!Periodic!operation_start
  BY <1>7, ToolOperationBegins DEF Runner!Periodic!operation_start
<1>8. CASE Runner!Periodic!OperationCall
  <2>1. /\ tool.at = "operation"
        /\ \/ tool' = [tool EXCEPT !.calls = Tail(@)]
           \/ \E operation, kind : Runner!Periodic!Goes("close",
                <<Runner!Periodic!ControllerFailure(operation, kind)>>)
    BY <1>8 DEF Runner!Periodic!OperationCall
  <2>2. CASE tool' = [tool EXCEPT !.calls = Tail(@)]
    BY <2>1, <2>2, ToolOperationBegins
  <2>3. ASSUME NEW e, Fails(e), Runner!Periodic!Goes("close", <<e>>) PROVE EvidenceInv'
    BY <1>1, <1>3, <2>1, <2>3, PeriodicLeads, ToolFails DEF Runner!Periodic!Goes
  <2> QED
    BY <2>1, <2>2, <2>3, PeriodicFails
<1>9. CASE Runner!Periodic!run_operation
  <2> DEFINE name == Head(tool.todo).name
             complete == Runner!Periodic!Event("operation_complete", [operation |-> name])
  <2>1. /\ tool.at = "operation"
        /\ tool' = [tool EXCEPT !.at = "input", !.todo = Tail(@), !.log = Append(@, complete)]
    BY <1>9 DEF Runner!Periodic!run_operation
  <2>2. complete.event = "operation_complete" /\ complete.operation = name
    BY PeriodicWrites, NamedEvent, OperationEvent
  <2> HIDE DEF complete
  <2>3. OperationIs(complete)
    BY <2>2 DEF OperationIs
  <2>4. OperationCounts(complete)
    BY <2>1 DEF OperationCounts
  <2> QED
    BY <2>1, <2>3, <2>4, ToolOperationCompletes
<1>10. CASE Runner!Periodic!InputDone
  BY <1>10, ToolInputEnds DEF Runner!Periodic!InputDone, Runner!Periodic!Passes
<1> QED
  BY <1>5, <1>6, <1>7, <1>8, <1>9, <1>10

\* The close, and what is verified after it
LEMMA PeriodicCloses ==
    ASSUME Shape, EvidenceInv, Going,
           \/ Runner!Periodic!close_controller \/ Runner!Periodic!validate_profile
           \/ Runner!Periodic!Finish
    PROVE  EvidenceInv'
<1> USE DEF Runner!Periodic!Here, Runner!Periodic!At
<1>1. Job.name = "pro-periodic"
  BY DEF Job, Runner!Periodic!close_controller, Runner!Periodic!validate_profile,
         Runner!Periodic!Finish
<1>2. \A at : Setup(Job, at, tool.before)
  BY <1>1, IsGoing DEF Setup
<1>3. \A at \in {"validate", "reopen", "complete"} : at \notin Fallen("pro-periodic")
  BY DEF Fallen
<1>4. CASE Runner!Periodic!close_controller
  <2> DEFINE closes == Runner!Periodic!Event("close_complete", Runner!Periodic!NoFields)
  <2>1. /\ tool.at = "close"
        /\ \/ Runner!Periodic!Passes("close", "validate", <<closes>>)
           \/ \E kind : Runner!Periodic!Goes("validate",
                            <<Runner!Periodic!ControllerFailure("close", kind)>>)
    BY <1>4 DEF Runner!Periodic!close_controller
  <2>2. closes.event = "close_complete"
    BY PeriodicWrites, NamedEvent
  <2> HIDE DEF closes
  <2>3. CASE Runner!Periodic!Passes("close", "validate", <<closes>>)
    <3>1. /\ Late(Job.name, tool.at) /\ Late(Job.name, "validate")
          /\ "close" \notin NeedsOf(Job.name, tool.at) \cup {"pre_input"}
          /\ NeedsOf(Job.name, "validate") = NeedsOf(Job.name, tool.at) \cup {"close"}
      BY <1>1, <2>1, PeriodicNeeds
    <3> QED
      BY <1>1, <1>2, <1>3, <2>2, <2>3, <3>1, ToolPasses DEF Runner!Periodic!Passes
  <2>4. ASSUME NEW e, Fails(e), Runner!Periodic!Goes("validate", <<e>>) PROVE EvidenceInv'
    BY <1>1, <1>2, <2>1, <2>4, PeriodicLeads, ToolFails DEF Runner!Periodic!Goes
  <2> QED
    BY <2>1, <2>3, <2>4, PeriodicFails
<1>5. CASE Runner!Periodic!validate_profile
  <2> DEFINE valid == Runner!Periodic!Event("profile_validation", Runner!Periodic!NoFields)
  <2>1. /\ tool.at = "validate"
        /\ \/ Runner!Periodic!Passes("valid", "reopen", <<valid>>)
           \/ \E kind : Runner!Periodic!Goes("complete",
                            <<Runner!Periodic!ControllerFailure("profile_validation", kind)>>)
    BY <1>5 DEF Runner!Periodic!validate_profile
  <2>2. Quiet(valid)
    BY PeriodicWrites, QuietEvent DEF Speaking, Counted
  <2> HIDE DEF valid
  <2>3. CASE Runner!Periodic!Passes("valid", "reopen", <<valid>>)
    <3>1. /\ Late(Job.name, tool.at) /\ Late(Job.name, "reopen")
          /\ "valid" \notin NeedsOf(Job.name, tool.at) \cup {"pre_input"}
          /\ NeedsOf(Job.name, "reopen") = NeedsOf(Job.name, tool.at) \cup {"valid"}
      BY <1>1, <2>1, PeriodicNeeds
    <3> QED
      BY <1>1, <1>2, <1>3, <2>2, <2>3, <3>1, ToolPasses DEF Runner!Periodic!Passes
  <2>4. ASSUME NEW e, Fails(e), Runner!Periodic!Goes("complete", <<e>>) PROVE EvidenceInv'
    BY <1>1, <1>2, <2>1, <2>4, PeriodicLeads, ToolFails DEF Runner!Periodic!Goes
  <2> QED
    BY <2>1, <2>3, <2>4, PeriodicFails
<1>6. CASE Runner!Periodic!Finish
  <2> DEFINE e == Runner!Periodic!Event("failed_run_cleanup_verified", Runner!Periodic!NoFields)
             events == IF "created" \notin tool.passed /\ "reopen" \in tool.passed
                       THEN <<e>> ELSE <<>>
             success == Runner!Periodic!Passing \subseteq tool.passed
  <2>1. tool.at = "complete" /\ Runner!Periodic!Complete(success, events)
    BY <1>6, Zenon DEF Runner!Periodic!Finish
  <2>2. Quiet(e)
    BY PeriodicWrites, QuietEvent DEF Speaking, Counted
  <2>3. events = <<>> \/ events = <<e>>
    OBVIOUS
  <2> HIDE DEF e, events
  <2>4. PICK c : /\ c.event = "runner_complete" /\ c.success = success /\ Quiet(c)
                 /\ Ends(events, c, IF success THEN 0 ELSE 1)
    BY <2>1, PeriodicEnds
  <2>5. Late(Job.name, tool.at) /\ NeedsOf(Job.name, tool.at) = Runner!Periodic!Passing
    BY <1>1, <2>1, PeriodicNeeds DEF Runner!Periodic!Passing
  <2>6. Told(tool.log) <=> ~(NeedsOf(Job.name, tool.at) \subseteq tool.passed)
    BY IsGoing, StandsList DEF Says
  <2>7. CASE success
    <3>1. Ends(events, c, 0) /\ Quiet(c)
      BY <2>4, <2>7
    <3>2. NeedsOf(Job.name, tool.at) \subseteq tool.passed /\ {"close", "reopen"} \subseteq tool.passed
      BY <2>5, <2>7 DEF Runner!Periodic!Passing
    <3>3. tool.before = <<>>
      BY <1>1, <1>2 DEF Setup
    <3> HIDE DEF success
    <3> QED
      BY <2>2, <2>3, <2>5, <3>1, <3>2, <3>3, EndsInSuccess
  <2>8. CASE ~success
    <3>1. Ends(events, c, 1) /\ c.event = "runner_complete" /\ ~c.success
      BY <2>4, <2>8
    <3>2. Told(tool.log)
      BY <2>5, <2>6, <2>8
    <3> HIDE DEF success
    <3> QED
      BY <2>3, <3>1, <3>2, EndsInFailure
  <2> QED
    BY <2>7, <2>8
<1> QED
  BY <1>4, <1>5, <1>6

\* The adapter is opened again
LEMMA PeriodicReopens ==
    ASSUME Shape, EvidenceInv, Going, Runner!Periodic!VerifyReopen PROVE EvidenceInv'
<1>1. Job.name = "pro-periodic"
  BY DEF Job, Runner!Periodic!VerifyReopen
<1>2. EvidenceInv'
  <2> DEFINE start == Runner!Periodic!Event("adapter_reopen_start", Runner!Periodic!NoFields)
             again == Runner!Periodic!Event("adapter_reopen_complete", Runner!Periodic!NoFields)
             Fault(operation, kind) == Runner!Periodic!ControllerFailure(operation, kind)
  <2>1. /\ tool.at \in Reopening
        /\ \/ Runner!Periodic!Goes("reopen_open", <<start>>)
           \/ Runner!Periodic!Goes("reopen_close", <<>>)
           \/ \E operation, kind :
                Runner!Periodic!Goes("complete", <<start, Fault(operation, kind)>>)
           \/ \E operation, kind : Runner!Periodic!Goes("complete", <<Fault(operation, kind)>>)
           \/ Runner!Periodic!Passes("reopen", "complete", <<again>>)
    <3> USE DEF Runner!Periodic!Event, Runner!Periodic!ControllerFailure, Runner!Periodic!target_name
    <3>1. CASE Runner!Periodic!reopen_build(Runner!Periodic!evidence_dimensions, "Pro", Runner!Periodic!Unnamed,
                                          "complete")
      BY <3>1 DEF Runner!Periodic!reopen_build, Reopening
    <3>2. CASE Runner!Periodic!reopen_open(Runner!Periodic!evidence_dimensions, Runner!Periodic!Unnamed, "complete")
      BY <3>2 DEF Runner!Periodic!reopen_open, Reopening
    <3>3. CASE Runner!Periodic!reopen_close(Runner!Periodic!evidence_dimensions, Runner!Periodic!Unnamed, "complete")
      BY <3>3 DEF Runner!Periodic!reopen_close, Reopening
    <3> QED
      BY <3>1, <3>2, <3>3 DEF Runner!Periodic!VerifyReopen, Runner!Periodic!verify_adapter_reopen
  <2>2. Quiet(start) /\ again.event = "adapter_reopen_complete"
    BY PeriodicWrites, QuietEvent, NamedEvent DEF Speaking, Counted
  <2>3. \A operation, kind : Fails(Fault(operation, kind))
    BY PeriodicFails
  <2>4. ReopenNeed(Job.name, "complete") /\ {"reopen_open", "reopen_close"} \subseteq Reopening
    BY <1>1 DEF ReopenNeed, Reopening
  <2> HIDE DEF start, again, Fault
  <2> USE DEF ReopensOn, ReopensWith, Runner!Periodic!Goes, Runner!Periodic!Passes
  <2>5. \/ \E label \in Reopening : \E events : ReopensOn(label, events)
             /\ (events = <<>> \/ \E e : Quiet(e) /\ events = <<e>>)
        \/ \E first, e : Quiet(first) /\ Fails(e) /\ ReopensOn("complete", <<first, e>>)
        \/ \E e : Fails(e) /\ ReopensOn("complete", <<e>>)
        \/ \E e : e.event = "adapter_reopen_complete" /\ ReopensWith("complete", e)
    <3>1. CASE Runner!Periodic!Goes("reopen_open", <<start>>)
      BY <2>2, <2>4, <3>1
    <3>2. CASE Runner!Periodic!Goes("reopen_close", <<>>)
      BY <2>4, <3>2
    <3>3. CASE \E operation, kind :
                Runner!Periodic!Goes("complete", <<start, Fault(operation, kind)>>)
      BY <2>2, <2>3, <3>3
    <3>4. CASE \E operation, kind : Runner!Periodic!Goes("complete", <<Fault(operation, kind)>>)
      BY <2>3, <3>4
    <3>5. CASE Runner!Periodic!Passes("reopen", "complete", <<again>>)
      BY <2>2, <3>5
    <3> QED
      BY <2>1, <3>1, <3>2, <3>3, <3>4, <3>5
  <2> HIDE DEF ReopensOn, ReopensWith
  <2> QED
    BY <2>1, <2>4, <2>5, ToolReopens
<1> QED
  BY <1>2

LEMMA PeriodicTells ==
    ASSUME Shape, EvidenceInv, Going, Runner!Periodic!run_hardware PROVE EvidenceInv'
BY PeriodicRuns, PeriodicCloses, PeriodicReopens DEF Runner!Periodic!run_hardware

-----------------------------------------------------------------------------
(* A scenario that starts, and the steps that are not of a scenario         *)

\* What is read is a scenario with its own name, and the probe reads none.
LEMMA ScenariosAreRead ==
    ASSUME NEW command, command.of \in Runner!Scenarios,
           ~Runner!IsUsage(Runner!parse_args(command))
    PROVE  Runner!parse_args(command).name = command.of
<1> USE DEF Runner!IsUsage
<1>1. CASE command.of = "joycon-profile"
  <2>1. Runner!parse_args(command) = Runner!JoyCon!parse_args(command.arguments)
    BY <1>1 DEF Runner!parse_args
  <2> QED
    BY <1>1, <2>1 DEF Runner!JoyCon!parse_args, Runner!JoyCon!IsUsage, Runner!JoyCon!UsageError
<1>2. CASE command.of = "pro-profile"
  <2>1. Runner!parse_args(command) = Runner!Profile!parse_args(command.arguments)
    BY <1>2 DEF Runner!parse_args
  <2> QED
    BY <1>2, <2>1 DEF Runner!Profile!parse_args, Runner!Profile!IsUsage, Runner!Profile!UsageError
<1>3. CASE command.of = "pro-periodic"
  <2>1. Runner!parse_args(command) = Runner!Periodic!parse_args(command.arguments)
    BY <1>3 DEF Runner!parse_args
  <2> QED
    BY <1>3, <2>1 DEF Runner!Periodic!parse_args, Runner!Periodic!IsUsage, Runner!Periodic!UsageError
<1> QED
  BY <1>1, <1>2, <1>3 DEF Runner!Scenarios

LEMMA ProbeReadsNone ==
    ASSUME NEW arguments PROVE parse(arguments).name \notin Runner!Scenarios
<1>1. ASSUME NEW operation, parse_connection_operation(operation), NEW words
      PROVE  parse_connection(operation, words).name \notin Runner!Scenarios
  BY <1>1 DEF parse_connection_operation, parse_connection, Runner!Scenarios, NoJob
<1> QED
  BY <1>1 DEF parse, NoJob, Runner!Scenarios

LEMMA ScenarioStarts ==
    ASSUME Shape, NEW arguments, Runner!run(arguments)
    PROVE  EvidenceInv'
<1>1. CASE tool'.job = NoJob
  BY <1>1 DEF EvidenceInv, IsScenario, Job, NoJob, Runner!Scenarios
<1>2. CASE tool'.job # NoJob
  <2> DEFINE command == Runner!parse_command(arguments)
             job == Runner!parse_args(command)
  <2>1. command.of \in Runner!Scenarios \cup {"help", "none"}
    BY DEF Runner!parse_command, Runner!Scenarios
  <2>2. /\ command.of \notin {"help", "none"} /\ ~Runner!IsUsage(job)
        /\ tool' = [Runner!Idle EXCEPT !.job = job, !.at = "start"]
    BY <1>2 DEF Runner!run, Runner!write, Runner!Exits, Runner!Idle, Runner!NoJob, NoJob
  <2> HIDE DEF command
  <2>3. job.name \in Runner!Scenarios
    BY <2>1, <2>2, ScenariosAreRead
  <2> HIDE DEF job
  <2>4. /\ tool'.job = job /\ tool'.at = "start" /\ tool'.log = <<>> /\ tool'.passed = {}
        /\ tool'.before = <<>>
    BY <2>2 DEF Runner!Idle
  <2>5. Stands(job.name, Operations(job), "start", <<>>, {}, tool'.todo)
    BY <2>3, OperationsAreList, StandsFirst
  <2>6. Setup(job, "start", <<>>) /\ "start" \notin Fallen(job.name)
    BY DEF Setup, Fallen, InInput
  <2> QED
    BY <2>4, <2>5, <2>6 DEF EvidenceInv, Says, Job
<1> QED
  BY <1>1, <1>2

LEMMA ScenarioGoes ==
    ASSUME Shape, EvidenceInv, Runner!run_hardware
    PROVE  Going
<1>1. IsScenario /\ tool.at # "done"
  <2>1. CASE Runner!JoyCon!run_hardware
    BY <2>1 DEF Runner!JoyCon!run_hardware, Runner!JoyCon!Here, Runner!JoyCon!At,
        Runner!JoyCon!prepare_profile, Runner!JoyCon!create_paired,
        Runner!JoyCon!BuildRun, Runner!JoyCon!open, Runner!JoyCon!reconnect,
        Runner!JoyCon!close_without_neutral, Runner!JoyCon!verify_pre_input_idle,
        Runner!JoyCon!verify_direct_idle, Runner!JoyCon!operation_start,
        Runner!JoyCon!OperationCall, Runner!JoyCon!run_operation, Runner!JoyCon!InputDone,
        Runner!JoyCon!close_controller, Runner!JoyCon!VerifyReopen,
        Runner!JoyCon!verify_profile_postflight, Runner!JoyCon!verify_adapter_reopen,
        Runner!JoyCon!reopen_build, Runner!JoyCon!reopen_open, Runner!JoyCon!reopen_close,
        IsScenario, Job, Runner!Scenarios
  <2>2. CASE Runner!Profile!run_hardware
    BY <2>2 DEF Runner!Profile!run_hardware, Runner!Profile!Here, Runner!Profile!At,
        Runner!Profile!prepare_profile, Runner!Profile!StaleCopyFails,
        Runner!Profile!BuildRun, Runner!Profile!open, Runner!Profile!reconnect,
        Runner!Profile!UnexpectedSuccess, Runner!Profile!close_without_neutral,
        Runner!Profile!verify_direct_idle, Runner!Profile!operation_start,
        Runner!Profile!OperationCall, Runner!Profile!run_operation, Runner!Profile!InputDone,
        Runner!Profile!close_controller, Runner!Profile!VerifyReopen,
        Runner!Profile!Postflight, Runner!Profile!verify_adapter_reopen,
        Runner!Profile!reopen_build, Runner!Profile!reopen_open, Runner!Profile!reopen_close,
        IsScenario, Job, Runner!Scenarios
  <2>3. CASE Runner!Periodic!run_hardware
    BY <2>3 DEF Runner!Periodic!run_hardware, Runner!Periodic!Here, Runner!Periodic!At,
        Runner!Periodic!Preflight, Runner!Periodic!create_profile,
        Runner!Periodic!operation_start, Runner!Periodic!OperationCall,
        Runner!Periodic!run_operation, Runner!Periodic!InputDone,
        Runner!Periodic!close_controller, Runner!Periodic!validate_profile,
        Runner!Periodic!VerifyReopen, Runner!Periodic!Finish,
        Runner!Periodic!verify_adapter_reopen, Runner!Periodic!reopen_build,
        Runner!Periodic!reopen_open, Runner!Periodic!reopen_close,
        IsScenario, Job, Runner!Scenarios
  <2> QED
    BY <2>1, <2>2, <2>3 DEF Runner!run_hardware
<1> QED
  BY <1>1 DEF EvidenceInv, Going

\* A step that leaves the program as it is, before its end or with the disk.
LEMMA EvidenceRests ==
    ASSUME EvidenceInv, tool' = tool, world' = world \/ tool.at # "done"
    PROVE  EvidenceInv'
<1>1. Job' = Job /\ (IsScenario' <=> IsScenario) /\ Operations(Job') = Operations(Job)
  BY DEF Job, IsScenario
<1>2. CASE ~IsScenario \/ tool.at # "done"
  BY <1>1, <1>2 DEF EvidenceInv, Says, Job, IsScenario
<1>3. CASE IsScenario /\ tool.at = "done"
  <2>1. world' = world /\ ExitTellsTheEvidence
    BY <1>3 DEF EvidenceInv
  <2>2. ExitTellsTheEvidence'
    BY <2>1, <1>1 DEF ExitTellsTheEvidence, SuccessIsEarned, FailureIsNamed, ToolEnds, Job, IsScenario
  <2> QED
    BY <1>3, <2>2 DEF EvidenceInv
<1> QED
  BY <1>2, <1>3

\* The probe prints its record, and a scenario has none.
Unprinted == IsScenario => tool.at # "print"

LEMMA ProbeHasNone ==
    ASSUME Shape, Unprinted, ProbeSteps \/ finish_connection
    PROVE  ~IsScenario
BY DEF ProbeSteps, finish_connection, main, list_adapters, inspect_profile, open_adapter,
       open_and_close, install, pair, Inspect, Build, Open, reconnect, apply_button,
       run_periodic_imu, wait_for_periodic_report, Compare, reopen_after_connection,
       finish_trace, Doing, Connecting, IsScenario, Job, Runner!Scenarios, Unprinted

LEMMA ScenarioTells ==
    ASSUME HeldInv, EvidenceInv, Unprinted, Scenario
    PROVE  EvidenceInv' /\ Unprinted'
<1>1. CASE \E arguments \in RunnerArguments : Runner!run(arguments)
  <2>1. tool'.at # "print"
    BY <1>1 DEF Runner!run, Runner!write, Runner!Exits, Runner!Idle
  <2> QED
    BY <1>1, <2>1, ScenarioStarts DEF HeldInv, Unprinted
<1>2. CASE Runner!run_hardware
  <2>1. tool'.at # "print"
    BY <1>2, ScenarioKeepsJob
  <2>2. Shape /\ Going
    BY <1>2, ScenarioGoes DEF HeldInv
  <2> QED
    BY <1>2, <2>1, <2>2, JoyConTells, ProfileTells, PeriodicTells
    DEF Runner!run_hardware, Unprinted
<1>3. CASE Runner!write_event
  <2>1. tool'.at = "done" /\ tool'.exit = 101
    BY <1>3 DEF Runner!write_event, HeldInv, Shape
  <2>2. ExitTellsTheEvidence'
    BY <2>1 DEF ExitTellsTheEvidence, SuccessIsEarned, FailureIsNamed, ToolEnds
  <2> QED
    BY <2>1, <2>2 DEF EvidenceInv, Unprinted
<1> QED
  BY <1>1, <1>2, <1>3 DEF Scenario

LEMMA EvidenceNext ==
    ASSUME HeldInv, EvidenceInv, Unprinted, [Next]_vars
    PROVE  EvidenceInv' /\ Unprinted'
<1>1. CASE \E arguments \in ProbeArguments : Start(arguments)
  <2>1. PICK arguments \in ProbeArguments : Start(arguments)
    BY <1>1
  <2>2. parse(arguments).name \notin Runner!Scenarios
    BY ProbeReadsNone
  <2>3. tool'.job = parse(arguments) \/ tool'.job = NoJob
    BY <2>1 DEF Start, Idle
  <2> QED
    BY <2>2, <2>3 DEF EvidenceInv, Unprinted, IsScenario, Job, NoJob, Runner!Scenarios
<1>2. CASE ProbeSteps \/ finish_connection
  <2>1. ~IsScenario /\ tool'.job = tool.job
    BY <1>2, ProbeHasNone, ProbeKeepsJob DEF HeldInv
  <2> QED
    BY <2>1 DEF EvidenceInv, Unprinted, IsScenario, Job
<1>3. CASE Outside
  <2>1. tool' = tool /\ tool.at # "done"
    BY <1>3 DEF Outside, LinkLost, Stores, Running, HeldInv, Shape
  <2> QED
    BY <2>1, EvidenceRests DEF Unprinted, IsScenario, Job
<1>4. CASE WorkerReports \/ Ended \/ UNCHANGED vars
           \/ \E thread \in {"worker", "client"}, writable \in BOOLEAN : Records(thread, writable)
  <2>1. tool' = tool /\ world' = world
    BY <1>4 DEF WorkerReports, Ended, Records, vars
  <2> QED
    BY <2>1, EvidenceRests DEF Unprinted, IsScenario, Job
<1> QED
  BY <1>1, <1>2, <1>3, <1>4, ScenarioTells DEF Next, ProbeRuns

\* A scenario exits with 0 only after every operation of its sequence in order, a
\* close, a reopening and a profile as it was found, with nothing in its evidence
\* that speaks against it; one that exits with 1 has said why, and completed its
\* evidence: no path through run_hardware ends silently.
THEOREM ExitIsTold == Spec => []ExitTellsTheEvidence
<1>1. Init => EvidenceInv /\ Unprinted
  BY DEF Init, EvidenceInv, Unprinted, IsScenario, Job, Idle, NoJob, Runner!Scenarios
<1>2. HeldInv /\ EvidenceInv /\ Unprinted /\ [Next]_vars => EvidenceInv' /\ Unprinted'
  BY EvidenceNext
<1>3. EvidenceInv => ExitTellsTheEvidence
  BY DEF EvidenceInv, ExitTellsTheEvidence, SuccessIsEarned, FailureIsNamed, ToolEnds
<1> QED
  BY <1>1, <1>2, <1>3, HeldAlways, PTL DEF Spec
=============================================================================
