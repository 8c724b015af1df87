--------------------------- MODULE CarrierProofs ---------------------------
(***************************************************************************)
(* Proofs about Carrier for any debounce time, any number of changes of    *)
(* the pods' interfaces and any number of faults.                          *)
(***************************************************************************)
EXTENDS Carrier, TLAPS

-----------------------------------------------------------------------------
(* The two ends.                                                            *)

LEMMA OtherEnd ==
    ASSUME NEW n \in Ends
    PROVE  /\ Other(n) \in Ends /\ Other(n) # n /\ Other(Other(n)) = n
           /\ \A m \in Ends : m # n => m = Other(n)
<1>1. PICK a, b \in Ends : a # b /\ Ends = {a, b}
  BY CarrierAssumption
<1>2. \A m \in Ends : \E l \in Ends : l # m
  BY <1>1
<1>3. \A m \in Ends : Other(m) \in Ends /\ Other(m) # m
  BY <1>2 DEF Other
<1> QED
  BY <1>1, <1>3

LEMMA Limits == Debounce \in Nat \ {0} /\ MaxChanges \in Nat /\ MaxFaults \in Nat
  BY CarrierAssumption, Zenon

-----------------------------------------------------------------------------
(* Types.                                                                   *)

BudgetType == [changes : 0..MaxChanges, faults : 0..MaxFaults]

\* A goroutine that is about to send has a state in hand.
JobsOK == \A n \in Ends : /\ watch[n].at = "edge" => watch[n].val \in States
                          /\ reas[n].at = "send" => reas[n].val \in States

\* A deadline that is met has been dealt with: the state seen last was emitted.
DebOK == \A n \in Ends : deb[n].left = 0 => deb[n].emitted = deb[n].pending

TypeInv == TypeOK /\ JobsOK /\ DebOK

LEMMA OperTypes == \A n \in Ends : Oper(n) \in States
  BY DEF Oper, States

\* One turn of the debouncer: it has seen the sample, the deadline stays within
\* the debounce time, and only the sample is emitted.
LEMMA DebounceTurn ==
    ASSUME NEW d \in DebType, NEW s \in States,
           d.left = 0 => d.emitted = d.pending
    PROVE  LET next == Due(Observe(d, s))
           IN  /\ next \in DebType
               /\ next.pending = s
               /\ next.left = 0 => next.emitted = next.pending
               /\ next.emitted # d.emitted => next.emitted = s
<1> DEFINE o == Observe(d, s)
           next == Due(o)
<1> SUFFICES /\ next \in DebType /\ next.pending = s
             /\ next.left = 0 => next.emitted = s
             /\ next.emitted # d.emitted => next.emitted = s
  OBVIOUS
<1>1. d.left \in 0..Debounce /\ d.left \in Nat /\ s \in Maybe /\ s # "none"
  BY Limits DEF DebType, States, Maybe
<1>2. o.pending = s /\ o.emitted = d.emitted /\ o.left \in 0..(Debounce + 1)
      /\ (o.left = 0 => o.emitted = s)
      /\ o \in [pending : Maybe, left : 0..(Debounce + 1), emitted : Maybe]
  <2>1. CASE d.pending = s
    BY <1>1, <2>1, Limits DEF Observe, DebType
  <2>2. CASE d.pending # s
    <3>1. o = [d EXCEPT !.pending = s, !.left = Debounce + 1]
      BY <2>2 DEF Observe
    <3>2. Debounce + 1 \in 0..(Debounce + 1) /\ Debounce + 1 # 0
      BY Limits
    <3> HIDE DEF o
    <3> QED
      BY <1>1, <3>1, <3>2 DEF DebType
  <2> QED
    BY <2>1, <2>2
<1> HIDE DEF o
<1>3. CASE o.left > 1
  <2>1. next = [o EXCEPT !.left = @ - 1]
    BY <1>3 DEF Due
  <2>2. o.left - 1 \in 0..Debounce /\ o.left - 1 # 0
    BY <1>2, <1>3, Limits
  <2> HIDE DEF next
  <2>3. next \in DebType /\ next.pending = s /\ next.left # 0 /\ next.emitted = d.emitted
    BY <1>2, <2>1, <2>2 DEF DebType
  <2> QED
    BY <2>3
<1>4. CASE o.left = 1
  <2>1. next = [o EXCEPT !.left = 0, !.emitted = o.pending]
    BY <1>4 DEF Due
  <2>2. 0 \in 0..Debounce
    BY Limits
  <2> HIDE DEF next
  <2>3. next \in DebType /\ next.pending = s /\ next.emitted = s
    BY <1>1, <1>2, <2>1, <2>2 DEF DebType
  <2> QED
    BY <2>3
<1>5. CASE o.left = 0
  <2>1. next = o
    BY <1>5 DEF Due
  <2>2. 0 \in 0..Debounce
    BY Limits
  <2> HIDE DEF next
  <2>3. next \in DebType /\ next.pending = s /\ next.emitted = s
    BY <1>2, <1>5, <2>1, <2>2 DEF DebType
  <2> QED
    BY <2>3
<1>6. o.left > 1 \/ o.left = 1 \/ o.left = 0
  BY <1>2, Limits
<1> QED
  BY <1>3, <1>4, <1>5, <1>6


\* The parts of the type invariant.
LEMMA Parts ==
    ASSUME TypeInv
    PROVE  /\ overlay \in Overlays
           /\ pod \in [Ends -> States] /\ host \in [Ends -> States]
           /\ running \in [Ends -> BOOLEAN] /\ tracked \in [Ends -> BOOLEAN]
           /\ deb \in [Ends -> DebType] /\ echo \in [Ends -> Maybe]
           /\ watch \in [Ends -> Job] /\ reas \in [Ends -> Job]
           /\ net \subseteq CallType
           /\ sent \in [Ends -> Maybe] /\ took \in [Ends -> BOOLEAN]
           /\ budget \in BudgetType
  BY DEF TypeInv, TypeOK, BudgetType

\* Jobs that are ended or moved on keep their shape.
LEMMA JobTypes ==
    /\ Idle \in Job
    /\ \A v \in States : v \in Maybe /\ Do("edge", v) \in Job /\ Do("send", v) \in Job
    /\ Do("due", "none") \in Job
    /\ \A j \in Job : [j EXCEPT !.at = "wait"] \in Job
  BY DEF Idle, Job, Do, Maybe, States

LEMMA FaultTypes ==
    ASSUME TypeInv, budget.faults > 0, budget' = [budget EXCEPT !.faults = @ - 1]
    PROVE  budget' \in BudgetType /\ budget'.faults < budget.faults
<1>1. budget \in BudgetType
  BY Parts
<1>2. budget.faults \in 0..MaxFaults
  BY <1>1 DEF BudgetType
<1>3. budget.faults - 1 \in 0..MaxFaults /\ budget.faults - 1 < budget.faults
  BY <1>2, Limits
<1> QED
  BY <1>1, <1>3 DEF BudgetType

\* The answer to a call ends the thread that waits for it, and no other.
LEMMA AnswerTypes ==
    ASSUME TypeInv, NEW k \in net, Answer(k)
    PROVE  /\ watch' \in [Ends -> Job] /\ reas' \in [Ends -> Job] /\ JobsOK'
           /\ \A n \in Ends : /\ watch'[n] = watch[n] \/ watch'[n] = Idle
                              /\ reas'[n] = reas[n] \/ reas'[n] = Idle
<1>1. /\ watch \in [Ends -> Job] /\ reas \in [Ends -> Job] /\ k \in CallType
  BY Parts
<1>2. Other(k.to) \in Ends
  BY <1>1, OtherEnd DEF CallType
<1>3. \A n \in Ends : /\ watch'[n] = watch[n] \/ watch'[n] = Idle
                      /\ reas'[n] = reas[n] \/ reas'[n] = Idle
  BY <1>1, <1>2 DEF Answer
<1>4. watch' \in [Ends -> Job] /\ reas' \in [Ends -> Job]
  BY <1>1, <1>2, JobTypes DEF Answer
<1>5. JobsOK'
  BY <1>3 DEF JobsOK, TypeInv, Idle
<1> QED
  BY <1>3, <1>4, <1>5

\* A call that is sent has the shape of a call.
LEMMA CallTypes ==
    ASSUME TypeInv, NEW n \in Ends, NEW who \in Threads, NEW v \in States, Call(n, who, v)
    PROVE  net' \subseteq CallType /\ sent' \in [Ends -> Maybe]
<1>1. net \subseteq CallType /\ sent \in [Ends -> Maybe]
  BY Parts
<1>2. [to |-> Other(n), val |-> v, by |-> who, at |-> "sent"] \in CallType
  BY OtherEnd DEF CallType
<1> QED
  BY <1>1, <1>2, JobTypes DEF Call

LEMMA PollTypes ==
    ASSUME TypeInv, NEW n \in Ends, Poll(n)
    PROVE  TypeInv'
<1> DEFINE next == Due(Observe(deb[n], Oper(n)))
<1>1. deb \in [Ends -> DebType] /\ watch \in [Ends -> Job] /\ Oper(n) \in States
  BY Parts, OperTypes
<1>2. /\ next \in DebType /\ next.pending = Oper(n)
      /\ next.left = 0 => next.emitted = next.pending
      /\ next.emitted # deb[n].emitted => next.emitted = Oper(n)
  <2>1. deb[n] \in DebType /\ (deb[n].left = 0 => deb[n].emitted = deb[n].pending)
    BY <1>1 DEF TypeInv, DebOK
  <2> QED
    BY <1>1, <2>1, DebounceTurn
<1>3. /\ deb' = [deb EXCEPT ![n] = next]
      /\ watch' = IF next.emitted # deb[n].emitted
                  THEN [watch EXCEPT ![n] = Do("edge", next.emitted)] ELSE watch
  BY DEF Poll
<1> HIDE DEF next
<1>4. deb' \in [Ends -> DebType] /\ DebOK'
  BY <1>1, <1>2, <1>3 DEF DebOK, TypeInv
<1>5. watch' \in [Ends -> Job]
  BY <1>1, <1>2, <1>3, JobTypes
<1>6. JobsOK'
  <2>1. UNCHANGED reas
    BY DEF Poll
  <2>2. ASSUME NEW m \in Ends, watch'[m].at = "edge" PROVE watch'[m].val \in States
    <3>1. CASE watch'[m] = watch[m]
      BY <2>2, <3>1 DEF TypeInv, JobsOK
    <3>2. CASE watch'[m] # watch[m]
      <4>1. watch'[m] = Do("edge", next.emitted) /\ next.emitted = Oper(n)
        BY <1>1, <1>2, <1>3, <3>2
      <4> QED
        BY <1>1, <4>1 DEF Do
    <3> QED
      BY <3>1, <3>2
  <2> QED
    BY <2>1, <2>2 DEF TypeInv, JobsOK
<1> QED
  BY <1>4, <1>5, <1>6 DEF Poll, TypeInv, TypeOK

LEMMA EdgeTypes ==
    ASSUME TypeInv, NEW n \in Ends, Edge(n)
    PROVE  TypeInv'
<1>1. /\ watch \in [Ends -> Job] /\ echo \in [Ends -> Maybe] /\ took \in [Ends -> BOOLEAN]
      /\ watch[n].val \in States
  BY Parts DEF Edge, TypeInv, JobsOK
<1>2. watch' \in [Ends -> Job] /\ took' \in [Ends -> BOOLEAN]
  <2>1. [watch[n] EXCEPT !.at = "wait"] \in Job /\ Idle \in Job
    BY <1>1, JobTypes
  <2>2. watch' = [watch EXCEPT ![n] = Idle]
        \/ watch' = [watch EXCEPT ![n] = [watch[n] EXCEPT !.at = "wait"]]
    BY <1>1 DEF Edge
  <2>3. watch' \in [Ends -> Job]
    BY <1>1, <2>1, <2>2
  <2>4. took' \in [Ends -> BOOLEAN]
    BY <1>1 DEF Edge
  <2> QED
    BY <2>3, <2>4
<1>3. echo' \in [Ends -> Maybe]
  BY <1>1 DEF Edge, Maybe
<1>4. net' \subseteq CallType /\ sent' \in [Ends -> Maybe]
  BY <1>1, CallTypes, Parts DEF Edge, Threads
<1>5. JobsOK'
  <2>1. \A m \in Ends : watch'[m].at = "edge" => watch'[m] = watch[m]
    BY <1>1 DEF Edge, Idle, Job
  <2> QED
    BY <2>1 DEF Edge, TypeInv, JobsOK
<1> QED
  BY <1>2, <1>3, <1>4, <1>5 DEF Edge, TypeInv, TypeOK, DebOK

LEMMA ReassertTypes ==
    ASSUME TypeInv, NEW n \in Ends, Reassert(n)
    PROVE  TypeInv'
<1>1. reas \in [Ends -> Job] /\ Oper(n) \in States
  BY Parts, OperTypes
<1>2. CASE ReassertRead(n)
  <2>1. reas' \in [Ends -> Job]
    BY <1>1, <1>2, JobTypes DEF ReassertRead
  <2>2. JobsOK'
    BY <1>1, <1>2 DEF ReassertRead, TypeInv, JobsOK, Do, Idle
  <2> QED
    BY <1>2, <2>1, <2>2 DEF ReassertRead, TypeInv, TypeOK, DebOK
<1>3. CASE ReassertSend(n)
  <2>1. reas' \in [Ends -> Job]
    BY <1>1, <1>3, JobTypes DEF ReassertSend
  <2>2. JobsOK'
    <3>1. \A m \in Ends : reas'[m].at = "send" => reas'[m] = reas[m]
      BY <1>1, <1>3 DEF ReassertSend, Job
    <3> QED
      BY <1>3, <3>1 DEF ReassertSend, TypeInv, JobsOK
  <2>3. net' \subseteq CallType /\ sent' \in [Ends -> Maybe]
    BY <1>3, CallTypes DEF ReassertSend, TypeInv, JobsOK, Threads
  <2> QED
    BY <1>3, <2>1, <2>2, <2>3 DEF ReassertSend, TypeInv, TypeOK, DebOK
<1> QED
  BY <1>2, <1>3 DEF Reassert

LEMMA ServeTypes ==
    ASSUME TypeInv, NEW k \in net, Mark(k) \/ Apply(k) \/ Refused(k) \/ Timeout(k)
    PROVE  TypeInv'
<1>1. k \in CallType /\ net \subseteq CallType /\ echo \in [Ends -> Maybe]
  BY Parts
<1>2. k.to \in Ends /\ k.val \in States /\ k.val \in Maybe
  BY <1>1, JobTypes DEF CallType
<1>3. [k EXCEPT !.at = "marked"] \in CallType /\ [k EXCEPT !.by = "nobody"] \in CallType
  BY <1>1 DEF CallType
<1>4. net' \subseteq CallType
  BY <1>1, <1>3 DEF Mark, Apply, Refused, Timeout
<1>5. /\ watch' \in [Ends -> Job] /\ reas' \in [Ends -> Job] /\ JobsOK'
  <2>1. CASE UNCHANGED <<watch, reas>>
    BY <2>1, Parts DEF TypeInv, JobsOK
  <2>2. CASE Answer(k)
    BY <2>2, AnswerTypes
  <2> QED
    BY <2>1, <2>2 DEF Mark, Apply, Refused, Timeout
<1>6. DebOK' /\ UNCHANGED <<overlay, running, tracked, deb, sent, took>>
  BY DEF Mark, Apply, Refused, Timeout, TypeInv, DebOK
<1>7. echo' \in [Ends -> Maybe]
  BY <1>1, <1>2 DEF Mark, Apply, Refused, Timeout
<1>8. pod' \in [Ends -> States] /\ host' \in [Ends -> States]
  BY <1>2, Parts DEF Mark, Apply, Refused, Timeout, LinkSet
<1>9. budget' \in BudgetType
  BY Parts, FaultTypes DEF Mark, Apply, Refused, Timeout
<1> QED
  BY <1>4, <1>5, <1>6, <1>7, <1>8, <1>9 DEF TypeInv, TypeOK, BudgetType

LEMMA CrashTypes ==
    ASSUME TypeInv, NEW n \in Ends, Crash(n)
    PROVE  TypeInv'
<1>1. /\ running \in [Ends -> BOOLEAN] /\ deb \in [Ends -> DebType]
      /\ echo \in [Ends -> Maybe] /\ watch \in [Ends -> Job] /\ reas \in [Ends -> Job]
      /\ net \subseteq CallType
  BY Parts
<1>2. NoDeb \in DebType /\ NoDeb.emitted = NoDeb.pending
  BY Limits DEF NoDeb, DebType, Maybe
<1>3. deb' \in [Ends -> DebType] /\ DebOK'
  BY <1>1, <1>2 DEF Crash, TypeInv, DebOK
<1>4. echo' \in [Ends -> Maybe] /\ running' \in [Ends -> BOOLEAN]
  BY <1>1 DEF Crash, Maybe
<1>5. net' \subseteq CallType
  <2>1. \A k \in net : [k EXCEPT !.by = "nobody"] \in CallType
    BY <1>1 DEF CallType
  <2> QED
    BY <2>1 DEF Crash
<1>6. \A m \in Ends : watch'[m] \in {watch[m], Idle} /\ reas'[m] \in {reas[m], Idle}
  BY DEF Crash
<1>7. watch' \in [Ends -> Job] /\ reas' \in [Ends -> Job]
  BY <1>1, JobTypes DEF Crash
<1>8. JobsOK'
  BY <1>6 DEF TypeInv, JobsOK, Idle
<1>9. budget' \in BudgetType
  BY FaultTypes DEF Crash
<1> QED
  BY <1>3, <1>4, <1>5, <1>7, <1>8, <1>9 DEF Crash, TypeInv, TypeOK, BudgetType

LEMMA StartTypes ==
    ASSUME TypeInv, NEW n \in Ends, Start(n)
    PROVE  TypeInv'
<1>1. /\ running \in [Ends -> BOOLEAN] /\ tracked \in [Ends -> BOOLEAN]
      /\ reas \in [Ends -> Job]
  BY Parts
<1>2. running' \in [Ends -> BOOLEAN] /\ tracked' \in [Ends -> BOOLEAN]
  BY <1>1 DEF Start
<1>3. reas' \in [Ends -> Job]
  BY <1>1, JobTypes DEF Start
<1>4. JobsOK'
  BY <1>1 DEF Start, TypeInv, JobsOK, Do
<1> QED
  BY <1>2, <1>3, <1>4 DEF Start, TypeInv, TypeOK, DebOK

LEMMA PodChangesTypes ==
    ASSUME TypeInv, NEW n \in Ends, PodChanges(n)
    PROVE  TypeInv' /\ budget'.faults = budget.faults
<1>1. budget \in BudgetType /\ pod \in [Ends -> States]
  BY Parts
<1>2. budget.changes \in 0..MaxChanges /\ budget.changes > 0
  BY <1>1 DEF PodChanges, BudgetType
<1>3. budget.changes - 1 \in 0..MaxChanges
  BY <1>2, Limits
<1>4. budget' \in BudgetType /\ budget'.faults = budget.faults
  BY <1>1, <1>3 DEF PodChanges, BudgetType
<1>5. pod' \in [Ends -> States]
  BY <1>1 DEF PodChanges, States
<1> QED
  BY <1>4, <1>5 DEF PodChanges, TypeInv, TypeOK, BudgetType, daemon, JobsOK, DebOK

LEMMA InitTypes == Init => TypeInv
<1> SUFFICES ASSUME Init PROVE TypeInv
  OBVIOUS
<1>1. /\ "up" \in States /\ "none" \in Maybe
  BY DEF States, Maybe
<1>2. NoDeb \in DebType /\ NoDeb.emitted = NoDeb.pending
  BY Limits DEF NoDeb, DebType, Maybe
<1>3. budget \in BudgetType
  BY Limits DEF Init, BudgetType
<1>4. TypeOK
  BY <1>1, <1>2, <1>3, JobTypes DEF Init, TypeOK, BudgetType
<1>5. JobsOK /\ DebOK
  BY <1>2 DEF Init, JobsOK, DebOK, Idle
<1> QED
  BY <1>4, <1>5 DEF TypeInv

LEMMA NextTypes ==
    ASSUME TypeInv, [Next]_vars
    PROVE  TypeInv'
<1>1. CASE UNCHANGED vars
  BY <1>1 DEF vars, daemon, TypeInv, TypeOK, JobsOK, DebOK
<1>2. CASE Next
  BY <1>2, PollTypes, EdgeTypes, ReassertTypes, ServeTypes, CrashTypes, StartTypes,
     PodChangesTypes DEF Next, Watch, Serve
<1> QED
  BY <1>1, <1>2

LEMMA TypeInvariant == Spec => []TypeInv
<1>1. Init => TypeInv
  BY InitTypes
<1>2. TypeInv /\ [Next]_vars => TypeInv'
  BY NextTypes
<1> QED
  BY <1>1, <1>2, PTL DEF Spec

\* CarrierTypes: the state of both daemons keeps the shape the code gives it, and
\* the debouncer's deadline never lies further ahead than the debounce time.
THEOREM CarrierTypes == Spec => []TypeOK
<1>1. TypeInv => TypeOK
  BY DEF TypeInv
<1> QED
  BY <1>1, TypeInvariant, PTL

-----------------------------------------------------------------------------
(* Without faults.                                                          *)

\* Both daemons run and have the link, and nobody reasserts anything.
CalmOK == \A n \in Ends : running[n] /\ tracked[n] /\ reas[n] = Idle

\* A call under way says what its end sent last, the watcher of that end waits
\* for the answer, and so it has no other call under way.
CallsOK ==
    /\ \A k \in net : /\ k.by = "watch"
                      /\ watch[Other(k.to)].at = "wait"
                      /\ k.val = sent[Other(k.to)]
    /\ \A k, l \in net : k.to = l.to => k = l

\* What arrived last is what was sent last (LastNoticeWins for one end).
ArrivedOK ==
    overlay = "GRPC" =>
        \A n \in Ends :
            sent[n] # "none" /\ (\A k \in net : k.to # Other(n))
                => host[Other(n)] = sent[n]

\* What the debouncer emitted last is in hand, or was sent, or taken for an echo.
EmittedOK ==
    \A n \in Ends :
        IF watch[n].at = "edge" THEN watch[n].val = deb[n].emitted
        ELSE deb[n].emitted = "none" \/ took[n] \/ sent[n] = deb[n].emitted

NoticeInv == NoFaults => CalmOK /\ CallsOK /\ ArrivedOK /\ EmittedOK

Calm == CalmOK /\ CallsOK /\ ArrivedOK /\ EmittedOK

\* A turn of the watcher: what it emits is in hand.
LEMMA PollNotice ==
    ASSUME TypeInv, Calm, NEW n \in Ends, Poll(n)
    PROVE  Calm'
<1> DEFINE next == Due(Observe(deb[n], Oper(n)))
<1>1. deb \in [Ends -> DebType] /\ watch \in [Ends -> Job] /\ net \subseteq CallType
  BY Parts
<1>2. /\ watch[n] = Idle /\ deb' = [deb EXCEPT ![n] = next]
      /\ watch' = IF next.emitted # deb[n].emitted
                  THEN [watch EXCEPT ![n] = Do("edge", next.emitted)] ELSE watch
      /\ UNCHANGED <<overlay, host, running, tracked, reas, net, sent, took>>
  BY DEF Poll
<1> HIDE DEF next
<1>3. /\ \A m \in Ends : m # n => watch'[m] = watch[m] /\ deb'[m] = deb[m]
      /\ deb'[n] = next
      /\ IF next.emitted # deb[n].emitted THEN watch'[n] = Do("edge", next.emitted)
         ELSE watch'[n] = watch[n]
  BY <1>1, <1>2
<1>4. CalmOK' /\ ArrivedOK'
  BY <1>2 DEF Calm, CalmOK, ArrivedOK
<1>5. CallsOK'
  <2>1. \A k \in net : Other(k.to) \in Ends /\ Other(k.to) # n
    BY <1>1, <1>2, OtherEnd DEF CallType, Calm, CallsOK, Idle
  <2> QED
    BY <1>2, <1>3, <2>1 DEF Calm, CallsOK
<1>6. EmittedOK'
  <2> SUFFICES ASSUME NEW m \in Ends
               PROVE  IF watch'[m].at = "edge" THEN watch'[m].val = deb'[m].emitted
                      ELSE deb'[m].emitted = "none" \/ took[m] \/ sent[m] = deb'[m].emitted
    BY <1>2 DEF EmittedOK
  <2>1. CASE m # n
    BY <1>3, <2>1 DEF Calm, EmittedOK
  <2>2. CASE m = n /\ next.emitted # deb[n].emitted
    BY <1>3, <2>2 DEF Do
  <2>3. CASE m = n /\ next.emitted = deb[n].emitted
    BY <1>2, <1>3, <2>3 DEF Calm, EmittedOK, Idle
  <2> QED
    BY <2>1, <2>2, <2>3
<1> QED
  BY <1>4, <1>5, <1>6 DEF Calm

\* The edge is taken for an echo or sent. No other call of this end is under
\* way: its watcher was not waiting for an answer.
LEMMA EdgeNotice ==
    ASSUME TypeInv, Calm, NEW n \in Ends, Edge(n)
    PROVE  Calm'
<1>1. /\ watch \in [Ends -> Job] /\ net \subseteq CallType /\ sent \in [Ends -> Maybe]
      /\ took \in [Ends -> BOOLEAN] /\ watch[n].at = "edge"
      /\ watch[n].val = deb[n].emitted
  BY Parts DEF Edge, Calm, EmittedOK
<1>2. /\ UNCHANGED <<overlay, host, running, tracked, reas, deb>>
      /\ \A m \in Ends : m # n => watch'[m] = watch[m] /\ took'[m] = took[m]
  BY <1>1 DEF Edge
<1>3. \A k \in net : /\ k.to \in Ends /\ Other(k.to) \in Ends /\ Other(k.to) # n
                     /\ k.to # Other(n)
  BY <1>1, OtherEnd DEF CallType, Calm, CallsOK
<1>4. CalmOK'
  BY <1>2 DEF Calm, CalmOK
<1>5. CASE echo[n] = watch[n].val
  <2>1. watch'[n] = Idle /\ took'[n] = TRUE /\ UNCHANGED <<net, sent>>
    BY <1>1, <1>5 DEF Edge
  <2>2. CallsOK' /\ ArrivedOK'
    BY <1>2, <1>3, <2>1 DEF Calm, CallsOK, ArrivedOK
  <2>3. EmittedOK'
    BY <1>2, <2>1 DEF Calm, EmittedOK, Idle
  <2> QED
    BY <1>4, <2>2, <2>3 DEF Calm
<1>6. CASE echo[n] # watch[n].val
  <2> DEFINE c == [to |-> Other(n), val |-> watch[n].val, by |-> "watch", at |-> "sent"]
  <2>1. /\ watch'[n].at = "wait" /\ net' = net \cup {c}
        /\ sent'[n] = watch[n].val /\ \A m \in Ends : m # n => sent'[m] = sent[m]
    BY <1>1, <1>6 DEF Edge, Call, Job
  <2>2. /\ c \in net' /\ c.to = Other(n) /\ c.val = watch[n].val /\ c.by = "watch"
        /\ Other(c.to) = n
    BY <2>1, OtherEnd
  <2>3. \A k \in net' : k \in net \/ k = c
    BY <2>1
  <2> HIDE DEF c
  <2>4. CallsOK'
    <3>1. ASSUME NEW k \in net' PROVE /\ k.by = "watch"
                                      /\ watch'[Other(k.to)].at = "wait"
                                      /\ k.val = sent'[Other(k.to)]
      <4>1. CASE k = c
        BY <2>1, <2>2, <4>1
      <4>2. CASE k \in net
        BY <1>2, <1>3, <2>1, <4>2 DEF Calm, CallsOK
      <4> QED
        BY <2>3, <4>1, <4>2
    <3>2. \A k, l \in net' : k.to = l.to => k = l
      BY <1>3, <2>2, <2>3 DEF Calm, CallsOK
    <3> QED
      BY <3>1, <3>2 DEF CallsOK
  <2>5. ArrivedOK'
    <3> SUFFICES ASSUME overlay = "GRPC", NEW m \in Ends, sent'[m] # "none",
                        \A k \in net' : k.to # Other(m)
                 PROVE  host[Other(m)] = sent'[m]
      BY <1>2 DEF ArrivedOK
    <3>1. m # n
      BY <2>2
    <3>2. sent'[m] = sent[m] /\ \A k \in net : k.to # Other(m)
      BY <2>1, <3>1
    <3> QED
      BY <3>2 DEF Calm, ArrivedOK
  <2>6. EmittedOK'
    BY <1>1, <1>2, <2>1 DEF Calm, EmittedOK
  <2> QED
    BY <1>4, <2>4, <2>5, <2>6 DEF Calm
<1> QED
  BY <1>5, <1>6

\* The handler leaves its mark.
LEMMA MarkNotice ==
    ASSUME TypeInv, Calm, NEW k \in net, Mark(k)
    PROVE  Calm'
<1> DEFINE c == [k EXCEPT !.at = "marked"]
<1>1. net \subseteq CallType /\ k \in CallType /\ k.to \in Ends
  BY Parts DEF CallType
<1>2. /\ net' = (net \ {k}) \cup {c}
      /\ UNCHANGED <<overlay, host, running, tracked, reas, watch, deb, sent, took>>
  BY <1>1 DEF Mark, Calm, CalmOK
<1>3. c.to = k.to /\ c.by = k.by /\ c.val = k.val
  BY <1>1 DEF CallType
<1> HIDE DEF c
<1>4. CalmOK' /\ EmittedOK'
  BY <1>2 DEF Calm, CalmOK, EmittedOK
<1>5. CallsOK'
  BY <1>2, <1>3 DEF Calm, CallsOK
<1>6. ArrivedOK'
  BY <1>2, <1>3 DEF Calm, ArrivedOK
<1> QED
  BY <1>4, <1>5, <1>6 DEF Calm

\* The interface is set, and the watcher that sent the call goes on.
LEMMA ApplyNotice ==
    ASSUME TypeInv, Calm, NEW k \in net, Apply(k)
    PROVE  Calm'
<1>1. /\ net \subseteq CallType /\ k \in CallType /\ k.to \in Ends /\ k.by = "watch"
      /\ k.val = sent[Other(k.to)] /\ Other(k.to) \in Ends /\ Other(Other(k.to)) = k.to
      /\ watch \in [Ends -> Job] /\ host \in [Ends -> States]
  BY Parts, OtherEnd DEF CallType, Calm, CallsOK
<1> DEFINE n == Other(k.to)
<1>2. /\ net' = net \ {k} /\ watch' = [watch EXCEPT ![n] = Idle] /\ reas' = reas
      /\ UNCHANGED <<overlay, running, tracked, deb, sent, took>>
  BY <1>1 DEF Apply, Answer
<1>3. \A l \in net' : l \in net /\ l.to # k.to /\ Other(l.to) \in Ends /\ Other(l.to) # n
  <2> TAKE l \in net'
  <2>1. l \in net /\ l # k
    BY <1>2
  <2>2. l.to # k.to /\ l.to \in Ends
    BY <1>1, <2>1 DEF Calm, CallsOK, CallType
  <2>3. Other(l.to) \in Ends /\ Other(Other(l.to)) = l.to
    BY <2>2, OtherEnd
  <2> QED
    BY <1>1, <2>1, <2>2, <2>3
<1>4. CalmOK'
  BY <1>2 DEF Calm, CalmOK
<1>5. CallsOK'
  BY <1>1, <1>2, <1>3 DEF Calm, CallsOK
<1>6. ArrivedOK'
  <2> SUFFICES ASSUME overlay = "GRPC", NEW m \in Ends, sent[m] # "none",
                      \A l \in net' : l.to # Other(m)
               PROVE  host'[Other(m)] = sent[m]
    BY <1>2 DEF ArrivedOK
  <2>1. host' = [host EXCEPT ![k.to] = k.val]
    BY DEF Apply, LinkSet
  <2>2. CASE m = n
    BY <1>1, <2>1, <2>2
  <2>3. CASE m # n
    <3>1. Other(m) \in Ends /\ Other(m) # k.to
      BY <1>1, <2>3, OtherEnd
    <3>2. \A l \in net : l.to # Other(m)
      BY <1>2, <3>1
    <3> QED
      BY <1>1, <2>1, <3>1, <3>2 DEF Calm, ArrivedOK
  <2> QED
    BY <2>2, <2>3
<1>7. EmittedOK'
  <2>1. watch[n].at = "wait"
    BY DEF Calm, CallsOK
  <2> QED
    BY <1>1, <1>2, <2>1 DEF Calm, EmittedOK, Idle
<1> QED
  BY <1>4, <1>5, <1>6, <1>7 DEF Calm

\* Whatever happens without faults happens to running daemons that reassert
\* nothing; a fault ends what is said here for good.
LEMMA NextNotice ==
    ASSUME TypeInv, NoticeInv, [Next]_vars
    PROVE  NoticeInv'
<1> SUFFICES ASSUME NoFaults' PROVE Calm'
  BY DEF NoticeInv, Calm
<1>1. budget \in BudgetType /\ budget.faults <= MaxFaults
      /\ budget.faults \in Nat
  BY Parts, Limits DEF BudgetType
<1>2. ASSUME budget'.faults < budget.faults PROVE FALSE
  BY <1>1, <1>2, Limits DEF NoFaults
<1>3. ASSUME budget'.faults = budget.faults PROVE NoFaults /\ Calm
  BY <1>3 DEF NoFaults, NoticeInv, Calm
<1>4. ASSUME NEW n \in Ends, Watch(n) PROVE Calm'
  <2>1. Calm
    BY <1>3, <1>4 DEF Watch, Poll, Edge
  <2> QED
    BY <1>4, <2>1, PollNotice, EdgeNotice DEF Watch
<1>5. ASSUME NEW n \in Ends, Reassert(n) \/ Start(n) PROVE Calm'
  <2>1. Calm
    BY <1>3, <1>5 DEF Reassert, ReassertRead, ReassertSend, Start
  <2> QED
    BY <1>5, <2>1 DEF Reassert, ReassertRead, ReassertSend, Start, Calm, CalmOK, Idle
<1>6. ASSUME NEW k \in net, Mark(k) \/ Apply(k) \/ Refused(k) PROVE Calm'
  <2>1. Calm
    BY <1>3, <1>6 DEF Mark, Apply, Refused
  <2>2. k.to \in Ends
    BY Parts DEF CallType
  <2>3. ~Refused(k)
    BY <2>1, <2>2 DEF Refused, Calm, CalmOK
  <2> QED
    BY <1>6, <2>1, <2>3, MarkNotice, ApplyNotice
<1>7. ASSUME NEW n \in Ends, PodChanges(n) PROVE Calm'
  <2>1. Calm
    BY <1>3, <1>7, PodChangesTypes
  <2> QED
    BY <1>7, <2>1 DEF PodChanges, daemon, Calm, CalmOK, CallsOK, ArrivedOK, EmittedOK
<1>8. ASSUME NEW n \in Ends, Crash(n) PROVE FALSE
  BY <1>2, <1>8, FaultTypes DEF Crash
<1>9. ASSUME NEW k \in net, Timeout(k) PROVE FALSE
  BY <1>2, <1>9, FaultTypes DEF Timeout
<1>10. CASE UNCHANGED vars
  <2>1. Calm
    BY <1>3, <1>10 DEF vars
  <2> QED
    BY <1>10, <2>1 DEF vars, daemon, Calm, CalmOK, CallsOK, ArrivedOK, EmittedOK
<1> QED
  BY <1>4, <1>5, <1>6, <1>7, <1>8, <1>9, <1>10 DEF Next, Serve

LEMMA NoticeInvariant == Spec => [](TypeInv /\ NoticeInv)
<1>1. Init => TypeInv /\ NoticeInv
  <2>1. Init => NoticeInv
    BY DEF Init, NoticeInv, CalmOK, CallsOK, ArrivedOK, EmittedOK, NoDeb, Idle
  <2> QED
    BY <2>1, InitTypes
<1>2. TypeInv /\ NoticeInv /\ [Next]_vars => TypeInv' /\ NoticeInv'
  BY NextTypes, NextNotice
<1> QED
  BY <1>1, <1>2, PTL DEF Spec

\* LastNoticeWinsHolds: without faults the host side of a gRPC wire is in the
\* state the other end sent last, once that has arrived, for any number of
\* changes and any debounce time.
THEOREM LastNoticeWinsHolds == Spec => []LastNoticeWins
<1>1. TypeInv /\ NoticeInv => LastNoticeWins
  BY DEF NoticeInv, ArrivedOK, LastNoticeWins
<1> QED
  BY <1>1, NoticeInvariant, PTL

\* HeldDownOnlyByEchoHolds: when both pods have their interfaces up and all has
\* settled, an end of a gRPC wire is held down only if both are, or if the edge
\* by which the other end came up was taken for an echo.
THEOREM HeldDownOnlyByEchoHolds == Spec => []HeldDownOnlyByEcho
<1>1. ASSUME TypeInv, NoticeInv PROVE HeldDownOnlyByEcho
  <2> SUFFICES ASSUME overlay = "GRPC", NoFaults, Settled, \A m \in Ends : pod[m] = "up",
                      NEW n \in Ends, host[n] = "down",
                      host[Other(n)] # "down", ~took[Other(n)]
               PROVE  FALSE
    BY DEF HeldDownOnlyByEcho
  <2> DEFINE m == Other(n)
  <2>1. m \in Ends /\ Other(m) = n
    BY OtherEnd
  <2>2. host[m] = "up" /\ Oper(m) = "up"
    BY <1>1, <2>1, Parts DEF Oper, States
  <2>3. deb[m].emitted = "up"
    BY <1>1, <2>1, <2>2 DEF Settled, TypeInv, DebOK
  <2>4. sent[m] = "up"
    BY <1>1, <2>1, <2>3 DEF Settled, NoticeInv, EmittedOK, Idle
  <2>5. host[n] = sent[m]
    BY <1>1, <2>1, <2>4 DEF Settled, NoticeInv, ArrivedOK
  <2> QED
    BY <2>4, <2>5
<1> QED
  BY <1>1, NoticeInvariant, PTL
=============================================================================
