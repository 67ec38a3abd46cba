---------------------- MODULE PersistentSession_proofs ----------------------
(***************************************************************************)
(* What the runs of PersistentSession check on two or three requests,      *)
(* proved for every set of requests and every limit: the session as it is; *)
(* and what it promises the broker, that it implements QueryService and    *)
(* that a query is answered with its own rows and its own status.          *)
(***************************************************************************)
EXTENDS PersistentSession, SequenceTheorems, TLAPS

(***************************************************************************)
(* Sequences.                                                              *)
(***************************************************************************)
\* What lies behind an element of a sequence is a sequence of its elements.
LEMMA SuffixProperties ==
    ASSUME NEW S, NEW s \in Seq(S), NEW i \in DOMAIN s
    PROVE  /\ SubSeq(s, i + 1, Len(s)) \in Seq(S)
           /\ Len(SubSeq(s, i + 1, Len(s))) = Len(s) - i
           /\ \A j \in 1 .. Len(s) - i : SubSeq(s, i + 1, Len(s))[j] = s[i + j]
           /\ s[i] \in S
<1>1. /\ Len(s) \in Nat
      /\ i \in 1 .. Len(s)
      /\ \A j \in i + 1 .. Len(s) : s[j] \in S
      /\ s[i] \in S
  BY LenProperties
<1>2. i + 1 \in Int /\ Len(s) \in Int
  BY <1>1
<1>3. /\ SubSeq(s, i + 1, Len(s)) \in Seq(S)
      /\ Len(SubSeq(s, i + 1, Len(s))) =
            IF i + 1 <= Len(s) THEN Len(s) - (i + 1) + 1 ELSE 0
      /\ \A j \in 1 .. Len(s) - (i + 1) + 1 :
            SubSeq(s, i + 1, Len(s))[j] = s[(i + 1) + j - 1]
  BY <1>1, <1>2, SubSeqProperties
<1> QED BY <1>1, <1>3

(***************************************************************************)
(* Types.  FailAll and Pump keep the types of what they assign.            *)
(***************************************************************************)
LEMMA SettleType ==
    ASSUME NEW S, NEW p \in Outcomes, NEW out \in [Request -> Outcomes]
    PROVE  Settle(S, p, out) \in [Request -> Outcomes]
BY DEF Settle

LEMMA PromiseType ==
    ASSUME NEW c \in {"pending", "local", "resolved"} \cup Categories,
           NEW o \in Seq(Tokens)
    PROVE  Promise(c, o) \in Outcomes
BY DEF Promise, Outcomes

LEMMA FailAllType ==
    ASSUME TypeOK, NEW category \in Categories, NEW items \in SUBSET Request,
           NEW canc \in SUBSET Request, NEW out \in [Request -> Outcomes],
           FailAll(category, items, canc, out)
    PROVE  /\ dead' = TRUE /\ queue' = <<>> /\ current' = NoRequest
           /\ parser' = "none" /\ received' = <<>>
           /\ ready' \in BOOLEAN /\ stale' \in BOOLEAN /\ signalled' \in BOOLEAN
           /\ cancelled' \subseteq Request
           /\ timers' \subseteq Request
           /\ listeners' \subseteq Request
           /\ outcome' \in [Request -> Outcomes]
<1>1. Promise(category, <<>>) \in Outcomes
  BY PromiseType, EmptySeq
<1>2. outcome' \in [Request -> Outcomes]
  BY <1>1, SettleType DEF FailAll
<1> QED BY <1>2 DEF FailAll, Terminate, TypeOK

LEMMA PumpType ==
    ASSUME TypeOK, NEW q \in Seq(Request), NEW armed \in SUBSET Request,
           Pump(q, armed)
    PROVE  /\ queue' \in Seq(Request)
           /\ current' \in Request \cup {NoRequest}
           /\ parser' \in {"none", "start", "xml", "result"}
           /\ received' \in Seq(Tokens)
           /\ timers' \subseteq Request
           /\ begun' \subseteq Request
           /\ stdin' \in Seq(Request)
<1>1. CASE PumpNothing(q, armed)
  BY <1>1, EmptySeq DEF PumpNothing, TypeOK, AdapterTypeOK
<1>2. CASE PumpNext(q, armed)
  <2>1. PICK i \in DOMAIN q :
           /\ queue' = SubSeq(q, i + 1, Len(q))
           /\ current' = q[i]
           /\ begun' = begun \cup {q[i]}
           /\ timers' = armed \cup {q[i]}
           /\ IF ready THEN SendCurrent(q[i])
                       ELSE parser' = "none" /\ received' = <<>> /\ UNCHANGED stdin
    BY <1>2 DEF PumpNext
  <2>2. queue' \in Seq(Request) /\ q[i] \in Request
    BY <2>1, SuffixProperties
  <2>3. stdin \in Seq(Request) /\ Append(stdin, q[i]) \in Seq(Request)
    BY <2>2, AppendProperties DEF TypeOK, AdapterTypeOK
  <2>4. parser' \in {"none", "start"} /\ received' = <<>> /\ stdin' \in Seq(Request)
    <3>1. CASE ready
      BY <3>1, <2>1, <2>3 DEF SendCurrent
    <3>2. CASE ~ready
      BY <3>2, <2>1, <2>3
    <3> QED BY <3>1, <3>2
  <2> QED BY <2>1, <2>2, <2>4, EmptySeq DEF TypeOK
<1> QED BY <1>1, <1>2 DEF Pump

LEMMA HeldType == TypeOK => Held(current, queue) \in SUBSET Request
BY RangeOfSeq DEF TypeOK, Held

\* The adapter's steps keep the types of its variables and of the pipes.
LEMMA AdapterType ==
    ASSUME TypeOK, AdapterStep
    PROVE  AdapterTypeOK'
<1> USE DEF TypeOK, AdapterTypeOK
<1>1. \A kind \in {"ready", "noise", "begin", "row", "end"} \cup Statuses :
         \A r \in Request \cup {NoRequest} :
            Append(stdout, Token(kind, r)) \in Seq(Tokens)
  <2> SUFFICES ASSUME NEW kind \in {"ready", "noise", "begin", "row", "end"} \cup Statuses,
                      NEW r \in Request \cup {NoRequest}
               PROVE  Append(stdout, Token(kind, r)) \in Seq(Tokens)
    OBVIOUS
  <2>1. Token(kind, r) \in Tokens
    BY DEF Token, Tokens
  <2> QED BY <2>1, AppendProperties
<1>2. CASE AdapterReady
  BY <1>1, <1>2 DEF AdapterReady, Puts, Phases, Busy
<1>3. CASE AdapterLoginFails
  BY <1>3 DEF AdapterLoginFails, Phases, ExitCodes, Busy
<1>4. CASE AdapterReads
  <2>1. Head(stdin) \in Request /\ Tail(stdin) \in Seq(Request)
    BY <1>4, HeadTailProperties DEF AdapterReads
  <2> QED BY <1>4, <2>1 DEF AdapterReads, Phases, Busy
<1>5. CASE AdapterBegins
  BY <1>1, <1>5 DEF AdapterBegins, Puts, Phases, Busy
<1>6. CASE AdapterPrintsRow
  <2>1. printed' \in [Request -> Nat]
    BY <1>6 DEF AdapterPrintsRow, Busy
  <2>2. stdout' \in Seq(Tokens)
    BY <1>1, <1>6 DEF AdapterPrintsRow, Puts
  <2> QED BY <1>6, <2>1, <2>2 DEF AdapterPrintsRow, Busy
<1>7. CASE AdapterEnds
  BY <1>1, <1>7 DEF AdapterEnds, Puts, Phases, Busy
<1>8. CASE AdapterReports
  <2>1. PICK status \in Statuses :
           /\ stdout' = Append(stdout, Token(status, serving))
           /\ reported' = [reported EXCEPT ![serving] = status]
    BY <1>8 DEF AdapterReports, Puts
  <2>2. reported' \in [Request -> Statuses \cup {"none"}]
    BY <2>1
  <2>3. stdout' \in Seq(Tokens)
    BY <1>1, <2>1
  <2> QED BY <1>8, <2>2, <2>3 DEF AdapterReports, Phases, Busy
<1>9. CASE AdapterDrops
  BY <1>9 DEF AdapterDrops, Phases, ExitCodes, Busy
<1>10. CASE AdapterPrintsNoise
  BY <1>1, <1>10 DEF AdapterPrintsNoise, Puts
<1>11. CASE AdapterKilled
  BY <1>11 DEF AdapterKilled, Phases, ExitCodes, Busy
<1> QED BY <1>2, <1>3, <1>4, <1>5, <1>6, <1>7, <1>8, <1>9, <1>10, <1>11
        DEF AdapterStep

\* What failing the session assigns has the right types, and a request that
\* the caller rejects on the way keeps them too.
LEMMA FailType ==
    ASSUME TypeOK, NEW category \in Categories, Fail(category)
    PROVE  UNCHANGED <<adapterVars, historyVars, aborted>> => TypeOK'
<1>1. Held(current, queue) \in SUBSET Request
  BY HeldType
<1>2. FailAll(category, Held(current, queue), cancelled, outcome)
  BY DEF Fail
<1> QED BY <1>1, <1>2, FailAllType, EmptySeq
        DEF TypeOK, AdapterTypeOK, adapterVars, historyVars

LEMMA FailWithType ==
    ASSUME TypeOK, NEW category \in {"runner", "timeout"}, NEW r \in Request,
           NEW mine \in {"local", "timeout"},
           FailAll(category, Held(current, queue), cancelled \cup {r},
                   Settle({r}, Promise(mine, <<>>), outcome)),
           UNCHANGED <<adapterVars, historyVars>>,
           aborted' \subseteq Request
    PROVE  TypeOK'
<1>1. Held(current, queue) \in SUBSET Request
  BY HeldType
<1>2. Settle({r}, Promise(mine, <<>>), outcome) \in [Request -> Outcomes]
  BY PromiseType, SettleType, EmptySeq DEF TypeOK, Categories
<1>3. category \in Categories /\ cancelled \cup {r} \in SUBSET Request
  BY DEF Categories, TypeOK
<1>4. /\ dead' = TRUE /\ queue' = <<>> /\ current' = NoRequest
      /\ parser' = "none" /\ received' = <<>>
      /\ ready' \in BOOLEAN /\ stale' \in BOOLEAN /\ signalled' \in BOOLEAN
      /\ cancelled' \subseteq Request
      /\ timers' \subseteq Request
      /\ listeners' \subseteq Request
      /\ outcome' \in [Request -> Outcomes]
  BY <1>1, <1>2, <1>3, FailAllType
<1> QED BY <1>4, EmptySeq DEF TypeOK, AdapterTypeOK, adapterVars, historyVars

LEMMA ExecuteType ==
    ASSUME TypeOK, NEW r \in Request, Execute(r)
    PROVE  TypeOK'
<1>1. accepted' \in Seq(Request)
  <2>1. Append(accepted, r) \in Seq(Request) /\ accepted \in Seq(Request)
    BY AppendProperties DEF TypeOK
  <2>2. accepted' \in {accepted, Append(accepted, r)}
    BY DEF Execute, ExecuteFirst, ExecuteStartFails, ExecuteQueued, ExecuteNext,
           ExecuteAborted, Submit, historyVars
  <2> QED BY <2>1, <2>2
<1>2. Append(queue, r) \in Seq(Request) /\ timers \in SUBSET Request
  BY AppendProperties DEF TypeOK
<1>3. Settle({r}, Promise("local", <<>>), outcome) \in [Request -> Outcomes]
  BY PromiseType, SettleType, EmptySeq DEF TypeOK
<1>4. CASE ExecuteFirst(r)
  <2>1. listeners' \subseteq Request
    BY <1>4 DEF ExecuteFirst, Submit, TypeOK
  <2> QED BY <1>1, <1>2, <1>4, <2>1, PumpType
          DEF ExecuteFirst, TypeOK, AdapterTypeOK, Phases, Busy
<1>5. CASE ExecuteStartFails(r)
  <2>1. Held(r, queue) \in SUBSET Request
    BY RangeOfSeq DEF TypeOK, Held
  <2>2. begun' \subseteq Request
    BY <1>5 DEF ExecuteStartFails, TypeOK
  <2> QED BY <1>1, <1>5, <2>1, <2>2, FailAllType, EmptySeq
          DEF ExecuteStartFails, TypeOK, AdapterTypeOK, adapterVars, Categories
<1>6. CASE ExecuteQueued(r)
  <2>1. listeners' \subseteq Request
    BY <1>6 DEF ExecuteQueued, Submit, TypeOK
  <2> QED BY <1>1, <1>2, <1>6, <2>1 DEF ExecuteQueued, TypeOK, AdapterTypeOK, adapterVars
<1>7. CASE ExecuteNext(r)
  <2>1. listeners' \subseteq Request
    BY <1>7 DEF ExecuteNext, Submit, TypeOK
  <2> QED BY <1>1, <1>2, <1>7, <2>1, PumpType
          DEF ExecuteNext, TypeOK, AdapterTypeOK
<1>8. CASE ExecuteAborted(r)
  BY <1>1, <1>3, <1>8
  DEF ExecuteAborted, TypeOK, AdapterTypeOK, adapterVars, sessionVars, historyVars
<1> QED BY <1>4, <1>5, <1>6, <1>7, <1>8 DEF Execute

LEMMA AbortType ==
    ASSUME TypeOK, NEW r \in Request, Abort(r)
    PROVE  TypeOK'
<1>1. aborted' \subseteq Request
  BY DEF Abort, TypeOK
<1>2. Settle({r}, Promise("local", <<>>), outcome) \in [Request -> Outcomes]
  BY PromiseType, SettleType, EmptySeq DEF TypeOK
<1>3. CASE AbortUnheard(r)
  BY <1>1, <1>3 DEF AbortUnheard, TypeOK, AdapterTypeOK, adapterVars, sessionVars, historyVars
<1>4. CASE AbortWaiting(r)
  BY <1>1, <1>2, <1>4 DEF AbortWaiting, TypeOK, AdapterTypeOK, adapterVars, sessionVars, historyVars
<1>5. CASE AbortCurrent(r)
  BY <1>1, <1>5, FailWithType DEF AbortCurrent
<1> QED BY <1>3, <1>4, <1>5 DEF Abort

LEMMA TimeoutType ==
    ASSUME TypeOK, NEW r \in Request, Timeout(r)
    PROVE  TypeOK'
<1>1. aborted' \subseteq Request
  BY DEF Timeout, TypeOK
<1> QED BY <1>1, FailWithType DEF Timeout

LEMMA StdoutType ==
    ASSUME TypeOK, StdoutStep
    PROVE  TypeOK'
<1>1. ASSUME NEW kind, Deliver(kind)
      PROVE  Head(stdout) \in Tokens /\ stdout' \in Seq(Tokens)
  BY <1>1, HeadTailProperties DEF Deliver, TypeOK, AdapterTypeOK
<1>2. CASE StdoutReady
  <2>1. parser' \in {"none", "start", "xml", "result"} /\ received' \in Seq(Tokens)
        /\ stdin' \in Seq(Request)
    <3>1. CASE current \in Request
      <4>1. Append(stdin, current) \in Seq(Request)
        BY <3>1, AppendProperties DEF TypeOK, AdapterTypeOK
      <4> QED BY <1>2, <3>1, <4>1, EmptySeq
              DEF StdoutReady, SendCurrent, TypeOK, AdapterTypeOK
    <3>2. CASE current = NoRequest
      BY <1>2, <3>2 DEF StdoutReady, TypeOK, AdapterTypeOK
    <3> QED BY <3>1, <3>2 DEF TypeOK
  <2> QED BY <1>1, <1>2, <2>1
          DEF StdoutReady, TypeOK, AdapterTypeOK, itemVars, historyVars
<1>3. CASE StdoutBeforeReady
  <2>1. stdout' \in Seq(Tokens)
    BY <1>1, <1>3 DEF StdoutBeforeReady
  <2>2. CASE UNCHANGED <<sessionVars, itemVars>>
    BY <1>3, <2>1, <2>2
    DEF StdoutBeforeReady, TypeOK, AdapterTypeOK, sessionVars, itemVars, historyVars
  <2>3. CASE Fail("runner")
    <3>1. FailAll("runner", Held(current, queue), cancelled, outcome)
      BY <2>3 DEF Fail
    <3> QED BY <1>3, <2>1, <3>1, HeldType, FailAllType, EmptySeq
            DEF StdoutBeforeReady, TypeOK, AdapterTypeOK, historyVars, Categories
  <2> QED BY <1>3, <2>2, <2>3 DEF StdoutBeforeReady
<1>4. CASE StdoutUnasked
  <2>1. stdout' \in Seq(Tokens)
    BY <1>1, <1>4 DEF StdoutUnasked
  <2>2. CASE UNCHANGED <<sessionVars, itemVars>>
    BY <1>4, <2>1, <2>2
    DEF StdoutUnasked, TypeOK, AdapterTypeOK, sessionVars, itemVars, historyVars
  <2>3. CASE Fail("runner")
    <3>1. FailAll("runner", Held(current, queue), cancelled, outcome)
      BY <2>3 DEF Fail
    <3> QED BY <1>4, <2>1, <3>1, HeldType, FailAllType, EmptySeq
            DEF StdoutUnasked, TypeOK, AdapterTypeOK, historyVars, Categories
  <2> QED BY <1>4, <2>2, <2>3 DEF StdoutUnasked
<1>5. CASE StdoutParsed
  <2>1. Head(stdout) \in Tokens /\ stdout' \in Seq(Tokens)
    BY <1>1, <1>5 DEF StdoutParsed
  <2>2. Append(received, Head(stdout)) \in Seq(Tokens)
    BY <2>1, AppendProperties DEF TypeOK
  <2>3. parser' \in {"none", "start", "xml", "result"} /\ received' \in Seq(Tokens)
    BY <1>5, <2>2
    DEF StdoutParsed, ParserSkips, ParserEnters, ParserBuffers, ParserLeaves, TypeOK
  <2> QED BY <1>5, <2>1, <2>3
          DEF StdoutParsed, TypeOK, AdapterTypeOK, itemVars, historyVars
<1>6. CASE StdoutTooLarge
  <2>1. stdout' \in Seq(Tokens)
    BY <1>1, <1>6 DEF StdoutTooLarge
  <2>2. FailAll("result_too_large", Held(current, queue), cancelled, outcome)
    BY <1>6 DEF StdoutTooLarge, Fail
  <2> QED BY <1>6, <2>1, <2>2, HeldType, FailAllType, EmptySeq
          DEF StdoutTooLarge, TypeOK, AdapterTypeOK, historyVars, Categories
<1>7. CASE StdoutResult
  <2>1. stdout' \in Seq(Tokens)
    BY <1>1, <1>7 DEF StdoutResult
  <2>2. outcome' \in [Request -> Outcomes]
    <3>1. PICK status \in Statuses :
             outcome' = IF current \in cancelled THEN outcome
                        ELSE Settle({current},
                                    IF status = "OK" THEN Promise("resolved", received)
                                    ELSE Promise(status, <<>>), outcome)
      BY <1>7 DEF StdoutResult
    <3>2. Promise("resolved", received) \in Outcomes
      BY PromiseType DEF TypeOK
    <3>3. status # "OK" => Promise(status, <<>>) \in Outcomes
      BY PromiseType, EmptySeq DEF Statuses, Categories
    <3> QED BY <3>1, <3>2, <3>3, SettleType DEF TypeOK
  <2>3. timers \ {current} \in SUBSET Request /\ queue \in Seq(Request)
    BY DEF TypeOK
  <2>4. Pump(queue, timers \ {current})
    BY <1>7 DEF StdoutResult
  <2>5. /\ queue' \in Seq(Request)
        /\ current' \in Request \cup {NoRequest}
        /\ parser' \in {"none", "start", "xml", "result"}
        /\ received' \in Seq(Tokens)
        /\ timers' \subseteq Request
        /\ begun' \subseteq Request
        /\ stdin' \in Seq(Request)
    BY <2>3, <2>4, PumpType
  <2> QED BY <1>7, <2>1, <2>2, <2>5 DEF StdoutResult, TypeOK, AdapterTypeOK
<1> QED BY <1>2, <1>3, <1>4, <1>5, <1>6, <1>7 DEF StdoutStep

\* Type correctness.
THEOREM TypeCorrect == Spec => []TypeOK
<1>1. Init => TypeOK
  <2>1. Pending \in Outcomes
    BY PromiseType, EmptySeq DEF Pending
  <2>2. <<>> \in Seq(Request) /\ <<>> \in Seq(Tokens)
    BY EmptySeq
  <2>3. Init => AdapterTypeOK
    BY <2>2 DEF Init, AdapterInit, AdapterTypeOK, Phases, Busy, ExitCodes
  <2> QED BY <2>1, <2>2, <2>3 DEF Init, TypeOK
<1>2. TypeOK /\ [Next]_vars => TypeOK'
  <2> SUFFICES ASSUME TypeOK, [Next]_vars
               PROVE  TypeOK'
    OBVIOUS
  <2>1. ASSUME NEW r \in Request, Execute(r) \/ Abort(r) \/ Timeout(r)
        PROVE  TypeOK'
    BY <2>1, ExecuteType, AbortType, TimeoutType
  <2>2. CASE StdoutStep
    BY <2>2, StdoutType
  <2>3. CASE ChildError
    <3>1. FailAll("runner", Held(current, queue), cancelled, outcome)
      BY <2>3 DEF ChildError, Fail
    <3> QED BY <2>3, <3>1, HeldType, FailAllType, EmptySeq
            DEF ChildError, TypeOK, AdapterTypeOK, historyVars, Categories, Phases, Busy
  <2>4. CASE ChildClose
    BY <2>4, FailType DEF ChildClose, ExitCategory, Categories
  <2>5. CASE CleanupIdle \/ ManagerClose
    BY <2>5, FailType DEF CleanupIdle, ManagerClose, Categories
  <2>6. CASE Elapse
    BY <2>6 DEF Elapse, TypeOK, AdapterTypeOK, adapterVars, itemVars, historyVars
  <2>7. CASE AdapterStep
    BY <2>7, AdapterType DEF AdapterStep, TypeOK, sessionVars, itemVars, historyVars
  <2>8. CASE UNCHANGED vars
    BY <2>8 DEF vars, TypeOK, AdapterTypeOK, adapterVars, sessionVars, itemVars, historyVars
  <2> QED BY <2>1, <2>2, <2>3, <2>4, <2>5, <2>6, <2>7, <2>8 DEF Next
<1> QED BY <1>1, <1>2, PTL DEF Spec

(***************************************************************************)
(* The inductive invariant of the session.  The properties are not         *)
(* inductive alone: that no query is lost when pump drops cancelled items  *)
(* needs that a cancelled item is settled; that a session with an          *)
(* abandoned query is dead needs that only the current of the begun        *)
(* queries still listens to its signal; that the deadline of the next item *)
(* is the only one needs that a begun item has left the queue.             *)
(***************************************************************************)
QueueInv ==
    /\ current \in begun \cup {NoRequest}
    /\ begun \subseteq Accepted
    /\ Range(queue) \subseteq Accepted \ begun
    /\ IsInjective(queue)
    /\ dead \/ current = NoRequest => queue = <<>>
    /\ dead => current = NoRequest
    /\ parser # "none" => current # NoRequest

ItemInv ==
    /\ \A r \in cancelled : Settled(r)
    /\ \A r \in Request : Settled(r) => r \in Accepted \cup cancelled
    /\ \A r \in Held(current, queue) : r \notin cancelled => ~Settled(r)
    /\ \A r \in Accepted \ begun : r \in Range(queue) \cup cancelled
    /\ listeners \cap begun \subseteq {current}
    /\ listeners \subseteq Accepted

SessionInv ==
    /\ QueueInv
    /\ ItemInv
    /\ NothingLost
    /\ AbandonedEndsSession
    /\ OneDeadline

LEMMA RangeEmpty == Range(<<>>) = {}
BY DEF Range

LEMMA AppendRange ==
    ASSUME NEW S, NEW s \in Seq(S), NEW e \in S
    PROVE  Range(Append(s, e)) = Range(s) \cup {e}
<1>1. /\ Append(s, e) \in Seq(S)
      /\ Len(Append(s, e)) = Len(s) + 1
      /\ \A i \in 1 .. Len(s) : Append(s, e)[i] = s[i]
      /\ Append(s, e)[Len(s) + 1] = e
      /\ Len(s) \in Nat
  BY AppendProperties, LenProperties
<1>2. /\ Range(s) = {s[i] : i \in 1 .. Len(s)}
      /\ Range(Append(s, e)) = {Append(s, e)[i] : i \in 1 .. Len(s) + 1}
  BY <1>1, RangeEquality
<1> HIDE DEF Range
<1> QED BY <1>1, <1>2

\* What pump does to the sets of requests: it drops cancelled items only, and
\* the rest of the queue stays behind the one it takes.
LEMMA PumpEffect ==
    ASSUME NEW q \in Seq(Request), NEW armed, IsInjective(q), Pump(q, armed)
    PROVE  \/ /\ Range(q) \subseteq cancelled
              /\ queue' = <<>> /\ current' = NoRequest /\ parser' = "none"
              /\ begun' = begun /\ timers' = armed
           \/ \E x \in Range(q) \ cancelled :
                 /\ current' = x
                 /\ begun' = begun \cup {x}
                 /\ timers' = armed \cup {x}
                 /\ queue' \in Seq(Request)
                 /\ Range(queue') \subseteq Range(q) \ {x}
                 /\ Range(q) \subseteq Range(queue') \cup {x} \cup cancelled
                 /\ IsInjective(queue')
<1>1. CASE PumpNothing(q, armed)
  BY <1>1 DEF PumpNothing, Range
<1>2. CASE PumpNext(q, armed)
  <2>1. PICK i \in DOMAIN q :
           /\ q[i] \notin cancelled
           /\ \A j \in 1 .. i - 1 : q[j] \in cancelled
           /\ queue' = SubSeq(q, i + 1, Len(q))
           /\ current' = q[i]
           /\ begun' = begun \cup {q[i]}
           /\ timers' = armed \cup {q[i]}
    BY <1>2 DEF PumpNext
  <2>2. /\ queue' \in Seq(Request)
        /\ Len(queue') = Len(q) - i
        /\ \A j \in 1 .. Len(q) - i : queue'[j] = q[i + j]
    BY <2>1, SuffixProperties
  <2>3. /\ Len(q) \in Nat /\ DOMAIN q = 1 .. Len(q) /\ i \in 1 .. Len(q)
        /\ DOMAIN queue' = 1 .. Len(q) - i
    BY <2>1, <2>2, LenProperties
  <2>4. Range(queue') \subseteq Range(q) \ {q[i]}
    BY <2>2, <2>3 DEF Range, IsInjective
  <2>5. Range(q) \subseteq Range(queue') \cup {q[i]} \cup cancelled
    <3> SUFFICES ASSUME NEW k \in 1 .. Len(q)
                 PROVE  q[k] \in Range(queue') \cup {q[i]} \cup cancelled
      BY <2>3 DEF Range
    <3>1. CASE k < i
      BY <3>1, <2>1, <2>3
    <3>2. CASE k > i
      <4>1. k - i \in 1 .. Len(q) - i /\ q[k] = queue'[k - i]
        BY <3>2, <2>2, <2>3
      <4> QED BY <4>1, <2>3 DEF Range
    <3> QED BY <3>1, <3>2, <2>3
  <2>6. IsInjective(queue')
    <3> SUFFICES ASSUME NEW a \in 1 .. Len(q) - i, NEW b \in 1 .. Len(q) - i,
                        queue'[a] = queue'[b]
                 PROVE  a = b
      BY <2>3 DEF IsInjective
    <3>1. q[i + a] = q[i + b] /\ i + a \in DOMAIN q /\ i + b \in DOMAIN q
      BY <2>2, <2>3
    <3>2. i + a = i + b
      BY <3>1 DEF IsInjective
    <3> QED BY <3>2, <2>3
  <2>7. q[i] \in Range(q) \ cancelled
    BY <2>1 DEF Range
  <2> QED BY <2>1, <2>2, <2>4, <2>5, <2>6, <2>7
<1> QED BY <1>1, <1>2 DEF Pump

\* Whatever pump does, it ends in a state of the invariant, when what the
\* caller hands it is in order: the items of q are all that is unbegun.
LEMMA PumpInv ==
    ASSUME NEW q \in Seq(Request), IsInjective(q), Pump(q, {}),
           NoRequest \notin Range(q),
           cancelled' = cancelled, ~dead',
           begun \subseteq Accepted',
           Range(q) \subseteq Accepted' \ begun,
           \A r \in cancelled : Settled(r)',
           \A r \in Request : Settled(r)' => r \in Accepted' \cup cancelled,
           \A r \in Range(q) : r \notin cancelled => ~Settled(r)',
           \A r \in Accepted' \ begun : r \in Range(q) \cup cancelled,
           \A r \in Accepted' : ~Settled(r)' => r \in Range(q),
           listeners' \cap begun = {}, listeners' \subseteq Accepted',
           begun \cap cancelled = {}
    PROVE  SessionInv'
<1> HIDE DEF Settled, Range, Accepted
<1>0. Range(<<>>) = {} /\ IsInjective(<<>>)
  BY RangeEmpty DEF IsInjective
<1>1. CASE /\ Range(q) \subseteq cancelled
           /\ queue' = <<>> /\ current' = NoRequest /\ parser' = "none"
           /\ begun' = begun /\ timers' = {}
  BY <1>0, <1>1
  DEF SessionInv, QueueInv, ItemInv, NothingLost, AbandonedEndsSession,
      OneDeadline, Held
<1>2. ASSUME NEW x \in Range(q) \ cancelled,
             /\ current' = x
             /\ begun' = begun \cup {x}
             /\ timers' = {} \cup {x}
             /\ Range(queue') \subseteq Range(q) \ {x}
             /\ Range(q) \subseteq Range(queue') \cup {x} \cup cancelled
             /\ IsInjective(queue')
      PROVE  SessionInv'
  <2>1. QueueInv'
    BY <1>2 DEF QueueInv
  <2>2. ItemInv'
    BY <1>2 DEF ItemInv, Held
  <2>3. NothingLost'
    BY <1>2 DEF NothingLost, Held
  <2>4. AbandonedEndsSession' /\ OneDeadline'
    BY <1>2 DEF AbandonedEndsSession, OneDeadline
  <2> QED BY <2>1, <2>2, <2>3, <2>4 DEF SessionInv
<1> QED BY <1>1, <1>2, PumpEffect

\* Failing the session ends in a state of the invariant, when the caller has
\* cancelled and settled nothing but an item the session holds.
LEMMA FailInv ==
    ASSUME TypeOK, SessionInv, NEW category \in Categories,
           NEW canc \in SUBSET Request, NEW out,
           FailAll(category, Held(current, queue), canc, out),
           cancelled \subseteq canc,
           canc \subseteq cancelled \cup Held(current, queue),
           \A r \in canc : out[r] # Pending,
           \A r \in Request \ Held(current, queue) : out[r] = outcome[r],
           UNCHANGED historyVars
    PROVE  SessionInv'
<1> DEFINE H == Held(current, queue)
<1>1. H \subseteq Request
  BY HeldType
<1>2. Promise(category, <<>>) # Pending
  BY DEF Promise, Pending, Categories
<1>3. /\ \A r \in H \cup canc : Settled(r)'
      /\ \A r \in Request \ H : Settled(r)' <=> Settled(r)
  BY <1>1, <1>2 DEF FailAll, Settle, Settled
<1>4. Accepted' = Accepted /\ begun' = begun /\ cancelled' = canc \cup H
      /\ dead' /\ queue' = <<>> /\ current' = NoRequest /\ parser' = "none"
      /\ timers' = timers \ H /\ listeners' = listeners \ H
  BY DEF FailAll, historyVars, Accepted
<1>5. Range(queue') = {} /\ IsInjective(queue')
  BY <1>4, RangeEmpty DEF IsInjective
<1> HIDE DEF H, Settled, Range, Accepted
<1>6. QueueInv'
  BY <1>4, <1>5 DEF SessionInv, QueueInv
<1>7. H \subseteq Accepted /\ Range(queue) \subseteq H
      /\ {current} \ {NoRequest} \subseteq H
  <2>1. NoRequest \notin Range(queue)
    BY RangeOfSeq, RequestAssumption DEF TypeOK
  <2> QED BY <2>1 DEF H, Held, SessionInv, QueueInv
<1>8. ItemInv'
  <2>1. \A r \in cancelled' : Settled(r)'
    BY <1>3, <1>4
  <2>2. \A r \in Request : Settled(r)' => r \in Accepted' \cup cancelled'
    BY <1>3, <1>4 DEF SessionInv, ItemInv
  <2>3. \A r \in Accepted' \ begun' : r \in Range(queue') \cup cancelled'
    BY <1>4, <1>7 DEF SessionInv, ItemInv
  <2>4. listeners' \cap begun' \subseteq {current'} /\ listeners' \subseteq Accepted'
    BY <1>4, <1>7, RequestAssumption DEF SessionInv, ItemInv, QueueInv
  <2>5. Held(current', queue') = {}
    BY <1>4, <1>5 DEF Held
  <2> QED BY <2>1, <2>2, <2>3, <2>4, <2>5 DEF ItemInv
<1>9. NothingLost'
  <2>1. Accepted \subseteq Request
    BY RangeOfSeq DEF Accepted, TypeOK
  <2> QED BY <2>1, <1>3, <1>4 DEF SessionInv, NothingLost, H
<1>10. AbandonedEndsSession' /\ OneDeadline'
  BY <1>4, <1>7 DEF SessionInv, AbandonedEndsSession, OneDeadline
<1> QED BY <1>6, <1>8, <1>9, <1>10 DEF SessionInv

LEMMA ExecuteInv ==
    ASSUME TypeOK, SessionInv, NEW r \in Request, Execute(r)
    PROVE  SessionInv'
<1>1. MayExecute(r)
  BY DEF Execute, ExecuteFirst, ExecuteStartFails, ExecuteQueued, ExecuteNext,
         ExecuteAborted, Submit
<1>2. ~dead /\ r \notin Accepted /\ r \notin cancelled /\ ~Settled(r) /\ r \notin begun
  BY <1>1 DEF MayExecute, SessionInv, ItemInv, QueueInv
<1>3. ASSUME accepted' = Append(accepted, r)
      PROVE  Accepted' = Accepted \cup {r}
  BY <1>3, AppendRange DEF Accepted, TypeOK
<1>4. NoRequest # r /\ NoRequest \notin Accepted /\ NoRequest \notin Range(queue)
  BY RangeOfSeq, RequestAssumption DEF TypeOK, Accepted
<1>5. Range(Append(queue, r)) = Range(queue) \cup {r} /\ Append(queue, r) \in Seq(Request)
  BY AppendRange, AppendProperties DEF TypeOK
<1>6. r \notin Range(queue)
  BY <1>2 DEF SessionInv, QueueInv
<1>7. IsInjective(Append(queue, r))
  <2>1. /\ Len(queue) \in Nat /\ DOMAIN queue = 1 .. Len(queue)
        /\ DOMAIN Append(queue, r) = 1 .. Len(queue) + 1
        /\ \A i \in 1 .. Len(queue) : Append(queue, r)[i] = queue[i]
        /\ Append(queue, r)[Len(queue) + 1] = r
    BY AppendProperties, LenProperties DEF TypeOK
  <2>2. \A i \in 1 .. Len(queue) : queue[i] # r
    BY <1>6, <2>1 DEF Range
  <2> QED BY <2>1, <2>2 DEF IsInjective, SessionInv, QueueInv
<1>8. CASE ExecuteFirst(r) \/ ExecuteNext(r)
  <2>1. /\ current = NoRequest /\ Pump(Append(queue, r), timers)
        /\ accepted' = Append(accepted, r) /\ listeners' = listeners \cup {r}
        /\ cancelled' = cancelled /\ ~dead' /\ outcome' = outcome
    BY <1>2, <1>8 DEF ExecuteFirst, ExecuteNext, Submit
  <2>2. queue = <<>> /\ timers = {}
    BY <2>1 DEF SessionInv, QueueInv, OneDeadline
  <2>3. Range(Append(queue, r)) = {r}
    BY <1>5, <2>2, RangeEmpty
  <2>4. \A s \in Request : Settled(s)' <=> Settled(s)
    BY <2>1 DEF Settled
  <2>5. Accepted' = Accepted \cup {r}
    BY <1>3, <2>1
  <2>6. Held(current, queue) = {}
    BY <2>1, <2>2, RangeEmpty DEF Held
  <2>7. Accepted' \subseteq Request
    BY <2>5, RangeOfSeq DEF Accepted, TypeOK
  <2> HIDE DEF Settled, Range, Accepted
  <2>8. begun \subseteq Accepted' /\ Range(Append(queue, r)) \subseteq Accepted' \ begun
    BY <1>2, <2>3, <2>5 DEF SessionInv, QueueInv
  <2>9. /\ \A s \in cancelled : Settled(s)'
        /\ \A s \in Request : Settled(s)' => s \in Accepted' \cup cancelled
        /\ \A s \in Range(Append(queue, r)) : s \notin cancelled => ~Settled(s)'
    BY <1>2, <2>3, <2>4, <2>5 DEF SessionInv, ItemInv, TypeOK
  <2>10. /\ \A s \in Accepted' \ begun : s \in Range(Append(queue, r)) \cup cancelled
         /\ \A s \in Accepted' : ~Settled(s)' => s \in Range(Append(queue, r))
    BY <2>2, <2>3, <2>4, <2>5, <2>6, <2>7, RangeEmpty
    DEF SessionInv, ItemInv, NothingLost
  <2>11. listeners' \cap begun = {} /\ listeners' \subseteq Accepted'
    BY <1>2, <1>4, <2>1, <2>5 DEF SessionInv, ItemInv, QueueInv
  <2>12. begun \cap cancelled = {}
    BY <1>2 DEF SessionInv, AbandonedEndsSession
  <2>13. Pump(Append(queue, r), {}) /\ NoRequest \notin Range(Append(queue, r))
    BY <1>4, <2>1, <2>2, <2>3
  <2> QED BY <1>5, <1>7, <2>1, <2>8, <2>9, <2>10, <2>11, <2>12, <2>13, PumpInv
<1>9. CASE ExecuteStartFails(r)
  <2>1. /\ FailAll("runner", Held(r, queue), cancelled, outcome)
        /\ current = NoRequest
        /\ accepted' = Append(accepted, r) /\ begun' = begun \cup {r}
    BY <1>9 DEF ExecuteStartFails
  <2>2. queue = <<>> /\ timers = {} /\ Held(r, queue) = {r}
    BY <1>2, <1>4, <2>1, RangeEmpty DEF SessionInv, QueueInv, OneDeadline, Held
  <2>3. Accepted' = Accepted \cup {r}
    BY <1>3, <2>1
  <2>4. Settled(r)' /\ \A s \in Request \ {r} : Settled(s)' <=> Settled(s)
    BY <1>2, <2>1, <2>2 DEF FailAll, Settle, Settled, Promise, Pending
  <2>5. /\ dead' /\ queue' = <<>> /\ current' = NoRequest /\ parser' = "none"
        /\ timers' = {} /\ listeners' = listeners \ {r} /\ cancelled' = cancelled \cup {r}
    BY <2>1, <2>2 DEF FailAll
  <2>6. Range(queue') = {} /\ IsInjective(queue')
    BY <2>5, RangeEmpty DEF IsInjective
  <2>7. Held(current, queue) = {} /\ Held(current', queue') = {}
    BY <2>1, <2>2, <2>5, <2>6, RangeEmpty DEF Held
  <2>8. Accepted \subseteq Request /\ cancelled \subseteq Request
    BY RangeOfSeq DEF Accepted, TypeOK
  <2> HIDE DEF Settled, Range, Accepted
  <2>9. QueueInv'
    BY <2>1, <2>3, <2>5, <2>6 DEF SessionInv, QueueInv
  <2>10. ItemInv'
    BY <1>4, <2>1, <2>3, <2>4, <2>5, <2>6, <2>7, <2>8, <2>2, RangeEmpty
    DEF SessionInv, ItemInv, QueueInv
  <2>11. NothingLost' /\ AbandonedEndsSession' /\ OneDeadline'
    BY <2>3, <2>4, <2>5, <2>7, <2>8
    DEF SessionInv, NothingLost, AbandonedEndsSession, OneDeadline
  <2> QED BY <2>9, <2>10, <2>11 DEF SessionInv
<1>10. CASE ExecuteQueued(r)
  <2>1. /\ queue' = Append(queue, r) /\ accepted' = Append(accepted, r)
        /\ listeners' = listeners \cup {r}
        /\ UNCHANGED <<current, parser, dead, cancelled, timers, outcome, begun>>
        /\ current # NoRequest
    BY <1>10 DEF ExecuteQueued, Submit
  <2>2. Accepted' = Accepted \cup {r} /\ Range(queue') = Range(queue) \cup {r}
    BY <1>3, <1>5, <2>1
  <2>3. \A s \in Request : Settled(s)' <=> Settled(s)
    BY <2>1 DEF Settled
  <2>4. Accepted \subseteq Request /\ cancelled \subseteq Request
    BY RangeOfSeq DEF Accepted, TypeOK
  <2>5. Held(current', queue') = Held(current, queue) \cup {r}
    BY <1>4, <2>1, <2>2 DEF Held
  <2>6. IsInjective(queue')
    BY <1>7, <2>1
  <2>7. Held(current, queue) \subseteq Request
    BY HeldType
  <2> HIDE DEF Settled, Range, Accepted
  <2>8. QueueInv'
    BY <1>2, <2>1, <2>2, <2>6 DEF SessionInv, QueueInv
  <2>9. ItemInv'
    BY <1>2, <2>1, <2>2, <2>3, <2>4, <2>5, <2>7 DEF SessionInv, ItemInv
  <2>10. NothingLost' /\ AbandonedEndsSession' /\ OneDeadline'
    BY <1>2, <2>1, <2>2, <2>3, <2>4, <2>5
    DEF SessionInv, NothingLost, AbandonedEndsSession, OneDeadline
  <2> QED BY <2>8, <2>9, <2>10 DEF SessionInv
<1>11. CASE ExecuteAborted(r)
  <2>1. /\ cancelled' = cancelled \cup {r}
        /\ outcome' = Settle({r}, Promise("local", <<>>), outcome)
        /\ UNCHANGED <<sessionVars, timers, listeners, accepted, begun>>
    BY <1>11 DEF ExecuteAborted, historyVars
  <2>2. Settled(r)' /\ \A s \in Request \ {r} : Settled(s)' <=> Settled(s)
    BY <2>1 DEF Settled, Settle, Promise, Pending
  <2>3. Accepted' = Accepted /\ Range(queue') = Range(queue)
        /\ Held(current', queue') = Held(current, queue)
        /\ IsInjective(queue') = IsInjective(queue)
    BY <2>1 DEF Accepted, sessionVars
  <2>4. Accepted \subseteq Request /\ cancelled \subseteq Request
    BY RangeOfSeq DEF Accepted, TypeOK
  <2>5. Held(current, queue) \subseteq Request
    BY HeldType
  <2> HIDE DEF Settled, Range, Accepted
  <2>6. QueueInv'
    BY <2>1, <2>3 DEF SessionInv, QueueInv, sessionVars
  <2>7. ItemInv'
    BY <1>2, <2>1, <2>2, <2>3, <2>4, <2>5 DEF SessionInv, ItemInv, sessionVars
  <2>8. NothingLost' /\ AbandonedEndsSession' /\ OneDeadline'
    BY <1>2, <2>1, <2>2, <2>3, <2>4
    DEF SessionInv, NothingLost, AbandonedEndsSession, OneDeadline, sessionVars
  <2> QED BY <2>6, <2>7, <2>8 DEF SessionInv
<1> QED BY <1>8, <1>9, <1>10, <1>11 DEF Execute

LEMMA FailPlainInv ==
    ASSUME TypeOK, SessionInv, NEW category \in Categories, Fail(category),
           UNCHANGED historyVars
    PROVE  SessionInv'
<1>1. cancelled \in SUBSET Request
  BY DEF TypeOK
<1>2. \A r \in cancelled : outcome[r] # Pending
  BY DEF SessionInv, ItemInv, Settled
<1> QED BY <1>1, <1>2, FailInv DEF Fail

\* A step that touches none of the variables of the invariant.
LEMMA UntouchedInv ==
    ASSUME SessionInv,
           UNCHANGED <<queue, current, dead, cancelled, timers, outcome,
                       accepted, begun>>,
           listeners' \subseteq listeners,
           parser' # "none" => parser # "none" \/ current # NoRequest
    PROVE  SessionInv'
<1>1. Accepted' = Accepted /\ Range(queue') = Range(queue)
      /\ Held(current', queue') = Held(current, queue)
      /\ IsInjective(queue') = IsInjective(queue)
      /\ \A r : Settled(r)' <=> Settled(r)
  BY DEF Accepted, Settled
<1> HIDE DEF Settled, Range, Accepted
<1>2. QueueInv' /\ ItemInv'
  BY <1>1 DEF SessionInv, QueueInv, ItemInv
<1>3. NothingLost' /\ AbandonedEndsSession' /\ OneDeadline'
  BY <1>1 DEF SessionInv, NothingLost, AbandonedEndsSession, OneDeadline
<1> QED BY <1>2, <1>3 DEF SessionInv

LEMMA AbortInv ==
    ASSUME TypeOK, SessionInv, NEW r \in Request, Abort(r)
    PROVE  SessionInv'
<1>1. CASE AbortUnheard(r)
  <2>1. /\ UNCHANGED <<queue, current, dead, cancelled, timers, outcome,
                       accepted, begun, parser>>
        /\ listeners' \subseteq listeners
    BY <1>1 DEF AbortUnheard, sessionVars, historyVars
  <2> QED BY <2>1, UntouchedInv
<1>2. CASE AbortWaiting(r)
  <2>1. /\ r \in listeners /\ r \notin cancelled /\ current # r
        /\ listeners' = listeners \ {r}
        /\ cancelled' = cancelled \cup {r}
        /\ outcome' = Settle({r}, Promise("local", <<>>), outcome)
        /\ UNCHANGED <<sessionVars, timers, accepted, begun>>
    BY <1>2 DEF AbortWaiting, historyVars
  <2>2. Settled(r)' /\ \A s \in Request \ {r} : Settled(s)' <=> Settled(s)
    BY <2>1 DEF Settled, Settle, Promise, Pending
  <2>3. Accepted' = Accepted /\ Range(queue') = Range(queue)
        /\ Held(current', queue') = Held(current, queue)
        /\ IsInjective(queue') = IsInjective(queue)
    BY <2>1 DEF Accepted, sessionVars
  <2>4. Accepted \subseteq Request /\ cancelled \subseteq Request
    BY RangeOfSeq DEF Accepted, TypeOK
  <2>5. Held(current, queue) \subseteq Request
    BY HeldType
  <2> HIDE DEF Settled, Range, Accepted
  <2>6. r \in Accepted /\ r \notin begun
    BY <2>1 DEF SessionInv, ItemInv
  <2>7. QueueInv'
    BY <2>1, <2>3 DEF SessionInv, QueueInv, sessionVars
  <2>8. ItemInv'
    BY <2>1, <2>2, <2>3, <2>4, <2>5 DEF SessionInv, ItemInv, sessionVars
  <2>9. NothingLost' /\ AbandonedEndsSession' /\ OneDeadline'
    BY <2>1, <2>2, <2>3, <2>4, <2>6
    DEF SessionInv, NothingLost, AbandonedEndsSession, OneDeadline, sessionVars
  <2> QED BY <2>7, <2>8, <2>9 DEF SessionInv
<1>3. CASE AbortCurrent(r)
  <2>1. /\ r \in Held(current, queue)
        /\ FailAll("runner", Held(current, queue), cancelled \cup {r},
                   Settle({r}, Promise("local", <<>>), outcome))
        /\ UNCHANGED historyVars
    BY <1>3, RequestAssumption DEF AbortCurrent, Held
  <2>2. /\ \A s \in cancelled \cup {r} :
              Settle({r}, Promise("local", <<>>), outcome)[s] # Pending
        /\ \A s \in Request \ Held(current, queue) :
              Settle({r}, Promise("local", <<>>), outcome)[s] = outcome[s]
    BY <2>1 DEF Settle, Promise, Pending, SessionInv, ItemInv, Settled, TypeOK
  <2>3. cancelled \cup {r} \in SUBSET Request /\ "runner" \in Categories
    BY DEF TypeOK, Categories
  <2> QED BY <2>1, <2>2, <2>3, FailInv
<1> QED BY <1>1, <1>2, <1>3 DEF Abort

LEMMA TimeoutInv ==
    ASSUME TypeOK, SessionInv, NEW r \in Request, Timeout(r)
    PROVE  SessionInv'
<1>1. /\ r \in Held(current, queue)
      /\ FailAll("timeout", Held(current, queue), cancelled \cup {r},
                 Settle({r}, Promise("timeout", <<>>), outcome))
      /\ UNCHANGED historyVars
  BY DEF Timeout, Held, SessionInv, OneDeadline
<1>2. /\ \A s \in cancelled \cup {r} :
            Settle({r}, Promise("timeout", <<>>), outcome)[s] # Pending
      /\ \A s \in Request \ Held(current, queue) :
            Settle({r}, Promise("timeout", <<>>), outcome)[s] = outcome[s]
  BY <1>1 DEF Settle, Promise, Pending, SessionInv, ItemInv, Settled, TypeOK
<1>3. cancelled \cup {r} \in SUBSET Request /\ "timeout" \in Categories
  BY DEF TypeOK, Categories
<1> QED BY <1>1, <1>2, <1>3, FailInv

LEMMA ResultInv ==
    ASSUME TypeOK, SessionInv, StdoutResult
    PROVE  SessionInv'
<1>1. /\ Pump(queue, timers \ {current})
      /\ listeners' = listeners \ {current}
      /\ UNCHANGED <<dead, cancelled, accepted>>
      /\ ~dead /\ parser = "result"
  BY DEF StdoutResult, Deliver
<1>2. PICK status \in Statuses :
         outcome' = IF current \in cancelled THEN outcome
                    ELSE Settle({current},
                                IF status = "OK" THEN Promise("resolved", received)
                                ELSE Promise(status, <<>>), outcome)
  BY DEF StdoutResult
<1>3. current \in Request /\ current \in begun /\ current # NoRequest
      /\ current \notin cancelled
  BY <1>1 DEF SessionInv, QueueInv, AbandonedEndsSession, TypeOK
<1>4. \A s \in Request : Settled(s)' <=> s = current \/ Settled(s)
  <2> DEFINE p == IF status = "OK" THEN Promise("resolved", received)
                  ELSE Promise(status, <<>>)
  <2>1. p # Pending
    BY DEF Promise, Pending, Statuses
  <2>2. outcome' = [r \in Request |->
                      IF r \in {current} /\ outcome[r] = Pending THEN p ELSE outcome[r]]
    BY <1>2, <1>3 DEF Settle
  <2> HIDE DEF p
  <2> QED BY <1>3, <2>1, <2>2 DEF Settled
<1>5. timers \ {current} = {}
  BY DEF SessionInv, OneDeadline
<1>6. Accepted' = Accepted /\ Accepted \subseteq Request /\ cancelled \subseteq Request
      /\ Range(queue) \subseteq Request
  BY <1>1, RangeOfSeq DEF Accepted, TypeOK
<1> HIDE DEF Settled, Range, Accepted
<1>7. /\ NoRequest \notin Range(queue) /\ current \notin Range(queue)
      /\ Held(current, queue) = {current} \cup Range(queue)
  BY <1>3, <1>6, RequestAssumption DEF Held, SessionInv, QueueInv
<1>8. /\ begun \subseteq Accepted' /\ Range(queue) \subseteq Accepted' \ begun
      /\ IsInjective(queue) /\ queue \in Seq(Request)
      /\ begun \cap cancelled = {}
  BY <1>1, <1>6 DEF SessionInv, QueueInv, AbandonedEndsSession, TypeOK
<1>9. /\ \A r \in cancelled : Settled(r)'
      /\ \A r \in Request : Settled(r)' => r \in Accepted' \cup cancelled
      /\ \A r \in Range(queue) : r \notin cancelled => ~Settled(r)'
      /\ \A r \in Accepted' \ begun : r \in Range(queue) \cup cancelled
  BY <1>3, <1>4, <1>6, <1>7 DEF SessionInv, ItemInv, QueueInv
<1>10. \A r \in Accepted' : ~Settled(r)' => r \in Range(queue)
  BY <1>4, <1>6, <1>7 DEF SessionInv, NothingLost
<1>11. listeners' \cap begun = {} /\ listeners' \subseteq Accepted'
  <2>1. listeners \cap begun \subseteq {current} /\ listeners \subseteq Accepted
    BY DEF SessionInv, ItemInv
  <2> QED BY <1>1, <1>6, <2>1
<1>12. Pump(queue, {})
  BY <1>1, <1>5
<1> QED BY <1>1, <1>7, <1>8, <1>9, <1>10, <1>11, <1>12, PumpInv

LEMMA StdoutInv ==
    ASSUME TypeOK, SessionInv, StdoutStep
    PROVE  SessionInv'
<1>1. CASE StdoutReady
  <2>1. /\ UNCHANGED <<queue, current, dead, cancelled, timers, outcome,
                       accepted, begun, listeners>>
        /\ parser' # "none" => parser # "none" \/ current # NoRequest
    BY <1>1 DEF StdoutReady, itemVars, historyVars
  <2> QED BY <2>1, UntouchedInv
<1>2. CASE StdoutBeforeReady
  <2>1. CASE UNCHANGED <<sessionVars, itemVars>>
    BY <1>2, <2>1, UntouchedInv DEF StdoutBeforeReady, sessionVars, itemVars, historyVars
  <2>2. CASE Fail("runner")
    BY <1>2, <2>2, FailPlainInv DEF StdoutBeforeReady, Categories, historyVars
  <2> QED BY <1>2, <2>1, <2>2 DEF StdoutBeforeReady
<1>3. CASE StdoutUnasked
  <2>1. CASE UNCHANGED <<sessionVars, itemVars>>
    BY <1>3, <2>1, UntouchedInv DEF StdoutUnasked, sessionVars, itemVars, historyVars
  <2>2. CASE Fail("runner")
    BY <1>3, <2>2, FailPlainInv DEF StdoutUnasked, Categories, historyVars
  <2> QED BY <1>3, <2>1, <2>2 DEF StdoutUnasked
<1>4. CASE StdoutParsed
  <2>1. /\ UNCHANGED <<queue, current, dead, cancelled, timers, outcome,
                       accepted, begun, listeners>>
        /\ parser # "none"
    BY <1>4 DEF StdoutParsed, itemVars, historyVars, ParserSkips, ParserEnters,
                ParserBuffers, ParserLeaves
  <2> QED BY <2>1, UntouchedInv
<1>5. CASE StdoutTooLarge
  BY <1>5, FailPlainInv DEF StdoutTooLarge, Categories, historyVars
<1>6. CASE StdoutResult
  BY <1>6, ResultInv
<1> QED BY <1>1, <1>2, <1>3, <1>4, <1>5, <1>6 DEF StdoutStep

LEMMA SessionInvInductive ==
    ASSUME TypeOK, SessionInv, [Next]_vars
    PROVE  SessionInv'
<1>1. ASSUME NEW r \in Request, Execute(r) \/ Abort(r) \/ Timeout(r)
      PROVE  SessionInv'
  BY <1>1, ExecuteInv, AbortInv, TimeoutInv
<1>2. CASE StdoutStep
  BY <1>2, StdoutInv
<1>3. CASE ChildError
  BY <1>3, FailPlainInv DEF ChildError, Categories, historyVars
<1>4. CASE ChildClose
  BY <1>4, FailPlainInv DEF ChildClose, ExitCategory, Categories, historyVars
<1>5. CASE CleanupIdle \/ ManagerClose
  BY <1>5, FailPlainInv DEF CleanupIdle, ManagerClose, Categories, historyVars
<1>6. CASE Elapse \/ AdapterStep \/ UNCHANGED vars
  BY <1>6, UntouchedInv
  DEF Elapse, AdapterStep, vars, sessionVars, itemVars, historyVars
<1> QED BY <1>1, <1>2, <1>3, <1>4, <1>5, <1>6 DEF Next

\* The invariant of the session holds in every reachable state.
THEOREM SessionCorrect == Spec => []SessionInv
<1>1. Init => SessionInv
  <2> SUFFICES ASSUME Init PROVE SessionInv
    OBVIOUS
  <2>1. Accepted = {} /\ Range(queue) = {} /\ IsInjective(queue)
    BY RangeEmpty DEF Init, Accepted, IsInjective
  <2>2. \A r \in Request : ~Settled(r)
    BY DEF Init, Settled
  <2>3. Held(current, queue) = {}
    BY <2>1 DEF Held, Init
  <2> QED BY <2>1, <2>2, <2>3
          DEF Init, SessionInv, QueueInv, ItemInv, NothingLost,
              AbandonedEndsSession, OneDeadline
<1>2. TypeOK /\ SessionInv /\ [Next]_vars => SessionInv'
  BY SessionInvInductive
<1> QED BY <1>1, <1>2, TypeCorrect, PTL DEF Spec

\* As long as a query is unsettled, a live session holds it: no path through
\* execute, pump, abort, timeout, result and failAll drops a promise.
THEOREM NothingIsLost == Spec => []NothingLost
<1>1. SessionInv => NothingLost
  BY DEF SessionInv
<1> QED BY <1>1, SessionCorrect, PTL

\* A session in which a begun query was cancelled or timed out is over.
THEOREM AbandonedQueryEndsSession == Spec => []AbandonedEndsSession
<1>1. SessionInv => AbandonedEndsSession
  BY DEF SessionInv
<1> QED BY <1>1, SessionCorrect, PTL

\* The timer of the current query is the only one armed.
THEOREM OnlyDeadline == Spec => []OneDeadline
<1>1. SessionInv => OneDeadline
  BY DEF SessionInv
<1> QED BY <1>1, SessionCorrect, PTL

(***************************************************************************)
(* Order.  The queue keeps the order of arrival, so what pump takes comes  *)
(* after everything that was begun, and before everything that waits.      *)
(***************************************************************************)
Earlier(s, a, b) == \E i, j \in DOMAIN s : i < j /\ s[i] = a /\ s[j] = b

OrderInv ==
    /\ IsInjective(accepted)
    /\ \A i, j \in DOMAIN queue : i < j => Earlier(accepted, queue[i], queue[j])
    /\ \A a, b \in Accepted :
          Earlier(accepted, a, b) /\ b \in begun => a \in begun \cup cancelled

\* An element appended comes after all others, whose order stays.
LEMMA AppendOrder ==
    ASSUME NEW S, NEW s \in Seq(S), NEW e \in S \ Range(s), IsInjective(s)
    PROVE  /\ IsInjective(Append(s, e))
           /\ \A a, b \in Range(s) : Earlier(Append(s, e), a, b) <=> Earlier(s, a, b)
           /\ \A a \in Range(s) : Earlier(Append(s, e), a, e)
           /\ \A b : ~Earlier(Append(s, e), e, b)
<1> DEFINE t == Append(s, e)
           n == Len(s)
<1>1. /\ n \in Nat /\ DOMAIN s = 1 .. n /\ DOMAIN t = 1 .. n + 1
      /\ \A i \in 1 .. n : t[i] = s[i]
      /\ t[n + 1] = e
  BY AppendProperties, LenProperties
<1>2. \A i \in 1 .. n : s[i] \in Range(s) /\ s[i] # e
  BY <1>1 DEF Range
<1> HIDE DEF t, n
<1>3. IsInjective(t)
  BY <1>1, <1>2 DEF IsInjective
<1>4. ASSUME NEW a \in Range(s), NEW b \in Range(s)
      PROVE  Earlier(t, a, b) <=> Earlier(s, a, b)
  <2>1. a # e /\ b # e
    OBVIOUS
  <2> QED BY <1>1, <2>1 DEF Earlier
<1>5. ASSUME NEW a \in Range(s) PROVE Earlier(t, a, e)
  <2>1. PICK i \in 1 .. n : s[i] = a
    BY <1>1 DEF Range
  <2>2. i \in DOMAIN t /\ n + 1 \in DOMAIN t /\ i < n + 1
    BY <1>1
  <2> QED BY <1>1, <2>1, <2>2 DEF Earlier
<1>6. ASSUME NEW b, Earlier(t, e, b) PROVE FALSE
  <2>1. PICK i, j \in 1 .. n + 1 : i < j /\ t[i] = e
    BY <1>1, <1>6 DEF Earlier
  <2> QED BY <1>1, <1>2, <2>1
<1> QED BY <1>3, <1>4, <1>5, <1>6 DEF t

LEMMA EarlierAsymmetric ==
    ASSUME NEW S, NEW s \in Seq(S), IsInjective(s), NEW a, NEW b,
           Earlier(s, a, b), Earlier(s, b, a)
    PROVE  FALSE
<1>1. DOMAIN s = 1 .. Len(s) /\ Len(s) \in Nat
  BY LenProperties
<1>2. PICK i, j \in DOMAIN s : i < j /\ s[i] = a /\ s[j] = b
  BY DEF Earlier
<1>3. PICK k, l \in DOMAIN s : k < l /\ s[k] = b /\ s[l] = a
  BY DEF Earlier
<1>4. k = j /\ l = i
  BY <1>2, <1>3 DEF IsInjective
<1> QED BY <1>1, <1>2, <1>3, <1>4

\* pump keeps the order when the queue it is given has all that is unbegun.
LEMMA PumpOrder ==
    ASSUME TypeOK', NEW q \in Seq(Request), NEW armed, Pump(q, armed),
           cancelled' = cancelled, IsInjective(accepted'),
           \A i, j \in DOMAIN q : i < j => Earlier(accepted', q[i], q[j]),
           \A r \in Accepted' \ begun : r \in Range(q) \cup cancelled,
           \A a, b \in Accepted' :
              Earlier(accepted', a, b) /\ b \in begun => a \in begun \cup cancelled
    PROVE  OrderInv'
<1>1. CASE PumpNothing(q, armed)
  BY <1>1 DEF PumpNothing, OrderInv
<1>2. CASE PumpNext(q, armed)
  <2>1. PICK i \in DOMAIN q :
           /\ \A j \in 1 .. i - 1 : q[j] \in cancelled
           /\ queue' = SubSeq(q, i + 1, Len(q))
           /\ begun' = begun \cup {q[i]}
    BY <1>2 DEF PumpNext
  <2>2. /\ Len(q) \in Nat /\ DOMAIN q = 1 .. Len(q) /\ i \in 1 .. Len(q)
        /\ DOMAIN queue' = 1 .. Len(q) - i
        /\ \A j \in 1 .. Len(q) - i : queue'[j] = q[i + j]
    <3>1. /\ queue' \in Seq(Request) /\ Len(queue') = Len(q) - i
          /\ \A j \in 1 .. Len(q) - i : queue'[j] = q[i + j]
      BY <2>1, SuffixProperties
    <3> QED BY <2>1, <3>1, LenProperties
  <2>3. ASSUME NEW j \in 1 .. Len(q) - i, NEW k \in 1 .. Len(q) - i, j < k
        PROVE  Earlier(accepted', queue'[j], queue'[k])
    <3>1. i + j \in DOMAIN q /\ i + k \in DOMAIN q /\ i + j < i + k
      BY <2>2, <2>3
    <3> QED BY <2>2, <3>1
  <2>4. ASSUME NEW a \in Accepted', Earlier(accepted', a, q[i])
        PROVE  a \in begun' \cup cancelled
    <3>1. CASE a \in Range(q)
      <4>1. PICK k \in 1 .. Len(q) : a = q[k]
        BY <2>2, <3>1 DEF Range
      <4>2. CASE k > i
        <5>1. Earlier(accepted', q[i], a)
          BY <2>2, <4>1, <4>2
        <5>2. accepted' \in Seq(Request)
          BY DEF TypeOK
        <5> QED BY <2>4, <5>1, <5>2, EarlierAsymmetric
      <4>3. CASE k = i
        BY <2>1, <4>1, <4>3
      <4>4. CASE k < i
        <5>1. k \in 1 .. i - 1
          BY <2>2, <4>4
        <5> QED BY <2>1, <4>1, <5>1
      <4> QED BY <2>2, <4>2, <4>3, <4>4
    <3> QED BY <2>1, <3>1
  <2>5. ASSUME NEW a \in Accepted', NEW b \in Accepted',
               Earlier(accepted', a, b), b \in begun'
        PROVE  a \in begun' \cup cancelled
    BY <2>1, <2>4, <2>5
  <2>6. \A j, k \in DOMAIN queue' : j < k => Earlier(accepted', queue'[j], queue'[k])
    BY <2>2, <2>3
  <2> QED BY <2>5, <2>6 DEF OrderInv
<1> QED BY <1>1, <1>2 DEF Pump

\* A request that enters the queue comes after all that entered before it.
LEMMA EnterOrder ==
    ASSUME TypeOK, SessionInv, OrderInv, NEW r \in Request \ Accepted,
           accepted' = Append(accepted, r)
    PROVE  /\ IsInjective(accepted')
           /\ Accepted' = Accepted \cup {r}
           /\ \A i, j \in DOMAIN Append(queue, r) : i < j =>
                 Earlier(accepted', Append(queue, r)[i], Append(queue, r)[j])
           /\ \A a, b \in Accepted' :
                 Earlier(accepted', a, b) /\ b \in begun => a \in begun \cup cancelled
<1>1. /\ IsInjective(accepted')
      /\ \A a, b \in Accepted : Earlier(accepted', a, b) <=> Earlier(accepted, a, b)
      /\ \A a \in Accepted : Earlier(accepted', a, r)
      /\ \A b : ~Earlier(accepted', r, b)
  BY AppendOrder DEF TypeOK, OrderInv, Accepted
<1>2. Accepted' = Accepted \cup {r}
  BY AppendRange DEF TypeOK, Accepted
<1>3. ASSUME NEW i \in DOMAIN Append(queue, r), NEW j \in DOMAIN Append(queue, r), i < j
      PROVE  Earlier(accepted', Append(queue, r)[i], Append(queue, r)[j])
  <2>1. /\ Len(queue) \in Nat /\ DOMAIN queue = 1 .. Len(queue)
        /\ DOMAIN Append(queue, r) = 1 .. Len(queue) + 1
        /\ \A k \in 1 .. Len(queue) : Append(queue, r)[k] = queue[k]
        /\ Append(queue, r)[Len(queue) + 1] = r
    BY AppendProperties, LenProperties DEF TypeOK
  <2>2. \A k \in 1 .. Len(queue) : queue[k] \in Accepted
    BY <2>1 DEF SessionInv, QueueInv, Range
  <2>3. i \in 1 .. Len(queue)
    BY <1>3, <2>1
  <2>4. CASE j = Len(queue) + 1
    BY <1>1, <2>1, <2>2, <2>3, <2>4
  <2>5. CASE j \in 1 .. Len(queue)
    <3>1. Earlier(accepted, queue[i], queue[j])
      BY <1>3, <2>1, <2>3, <2>5 DEF OrderInv
    <3> QED BY <1>1, <2>1, <2>2, <2>3, <2>5, <3>1
  <2> QED BY <2>1, <2>4, <2>5
<1>4. ASSUME NEW a \in Accepted', NEW b \in Accepted',
             Earlier(accepted', a, b), b \in begun
      PROVE  a \in begun \cup cancelled
  <2>1. b \in Accepted /\ a \in Accepted
    BY <1>1, <1>2, <1>4 DEF SessionInv, QueueInv
  <2> QED BY <1>1, <1>4, <2>1 DEF OrderInv
<1> QED BY <1>1, <1>2, <1>3, <1>4

\* A step that neither enters nor begins a request keeps the order.
LEMMA QuietOrder ==
    ASSUME OrderInv, UNCHANGED <<accepted, begun>>, cancelled \subseteq cancelled',
           queue' = queue \/ queue' = <<>>
    PROVE  OrderInv'
<1>1. Accepted' = Accepted
  BY DEF Accepted
<1>2. \A i, j \in DOMAIN queue' : i < j => Earlier(accepted', queue'[i], queue'[j])
  BY DEF OrderInv
<1> QED BY <1>1, <1>2 DEF OrderInv

LEMMA ExecuteOrder ==
    ASSUME TypeOK, TypeOK', SessionInv, OrderInv, NEW r \in Request, Execute(r)
    PROVE  OrderInv'
<1>1. r \notin Accepted /\ ~dead
  BY DEF Execute, ExecuteFirst, ExecuteStartFails, ExecuteQueued, ExecuteNext,
         ExecuteAborted, Submit, MayExecute
<1>2. CASE ExecuteFirst(r) \/ ExecuteNext(r)
  <2>1. /\ Pump(Append(queue, r), timers) /\ cancelled' = cancelled
        /\ accepted' = Append(accepted, r) /\ current = NoRequest
    BY <1>2 DEF ExecuteFirst, ExecuteNext, Submit
  <2>2. Append(queue, r) \in Seq(Request)
    BY AppendProperties DEF TypeOK
  <2>3. Range(Append(queue, r)) = Range(queue) \cup {r}
    BY AppendRange DEF TypeOK
  <2>4. Accepted' = Accepted \cup {r}
    BY <1>1, <2>1, EnterOrder
  <2>5. \A s \in Accepted' \ begun : s \in Range(Append(queue, r)) \cup cancelled
    BY <2>3, <2>4 DEF SessionInv, ItemInv
  <2> QED BY <1>1, <2>1, <2>2, <2>5, EnterOrder, PumpOrder
<1>3. CASE ExecuteStartFails(r)
  <2>1. /\ accepted' = Append(accepted, r) /\ begun' = begun \cup {r}
        /\ queue' = <<>> /\ cancelled' = cancelled \cup Held(r, queue)
        /\ current = NoRequest
    BY <1>3 DEF ExecuteStartFails, FailAll
  <2>2. \A a \in Accepted' : a \in begun' \cup cancelled'
    <3>1. Accepted' = Accepted \cup {r}
      BY <1>1, <2>1, EnterOrder
    <3>2. NoRequest \notin Range(queue)
      BY RangeOfSeq, RequestAssumption DEF TypeOK
    <3> HIDE DEF Range, Accepted
    <3> QED BY <2>1, <3>1, <3>2 DEF SessionInv, ItemInv, Held
  <2>3. IsInjective(accepted')
    BY <1>1, <2>1, EnterOrder
  <2> QED BY <2>1, <2>2, <2>3 DEF OrderInv
<1>4. CASE ExecuteQueued(r)
  <2>1. /\ accepted' = Append(accepted, r) /\ queue' = Append(queue, r)
        /\ UNCHANGED <<begun, cancelled>>
    BY <1>4 DEF ExecuteQueued, Submit
  <2> QED BY <1>1, <2>1, EnterOrder DEF OrderInv
<1>5. CASE ExecuteAborted(r)
  BY <1>5, QuietOrder DEF ExecuteAborted, sessionVars, historyVars
<1> QED BY <1>2, <1>3, <1>4, <1>5 DEF Execute

LEMMA OrderInductive ==
    ASSUME TypeOK, TypeOK', SessionInv, OrderInv, [Next]_vars
    PROVE  OrderInv'
<1>1. ASSUME NEW r \in Request, Execute(r)
      PROVE  OrderInv'
  BY <1>1, ExecuteOrder
<1>2. ASSUME NEW category, Fail(category)
      PROVE  queue' = <<>> /\ cancelled \subseteq cancelled'
  BY <1>2 DEF Fail, FailAll
<1>3. ASSUME NEW r \in Request, Abort(r)
      PROVE  OrderInv'
  BY <1>3, QuietOrder
  DEF Abort, AbortUnheard, AbortWaiting, AbortCurrent, FailAll, sessionVars, historyVars
<1>4. ASSUME NEW r \in Request, Timeout(r)
      PROVE  OrderInv'
  BY <1>4, QuietOrder DEF Timeout, FailAll, historyVars
<1>5. CASE StdoutStep
  <2>1. CASE StdoutReady \/ StdoutParsed
    BY <2>1, QuietOrder DEF StdoutReady, StdoutParsed, itemVars, historyVars
  <2>2. CASE StdoutBeforeReady \/ StdoutUnasked
    BY <1>2, <2>2, QuietOrder
    DEF StdoutBeforeReady, StdoutUnasked, sessionVars, itemVars, historyVars
  <2>3. CASE StdoutTooLarge
    BY <1>2, <2>3, QuietOrder DEF StdoutTooLarge, historyVars
  <2>4. CASE StdoutResult
    <3>1. /\ Pump(queue, timers \ {current}) /\ UNCHANGED <<cancelled, accepted>>
      BY <2>4 DEF StdoutResult
    <3>2. /\ queue \in Seq(Request) /\ Accepted' = Accepted
          /\ \A s \in Accepted \ begun : s \in Range(queue) \cup cancelled
      BY <3>1 DEF TypeOK, SessionInv, ItemInv, Accepted
    <3> QED BY <3>1, <3>2, PumpOrder DEF OrderInv
  <2> QED BY <1>5, <2>1, <2>2, <2>3, <2>4 DEF StdoutStep
<1>6. CASE ChildError \/ ChildClose \/ CleanupIdle \/ ManagerClose
  BY <1>2, <1>6, QuietOrder
  DEF ChildError, ChildClose, CleanupIdle, ManagerClose, historyVars
<1>7. CASE Elapse \/ AdapterStep \/ UNCHANGED vars
  BY <1>7, QuietOrder DEF Elapse, AdapterStep, vars, sessionVars, itemVars, historyVars
<1> QED BY <1>1, <1>3, <1>4, <1>5, <1>6, <1>7 DEF Next

\* Queries are begun in the order execute accepted them; only a query that
\* was cancelled while it waited is passed over by pump.
THEOREM QueriesBeginInOrder == Spec => []InOrder
<1>1. Init => OrderInv
  BY DEF Init, OrderInv, Accepted, Range, IsInjective
<1>2. TypeOK /\ TypeOK' /\ SessionInv /\ OrderInv /\ [Next]_vars => OrderInv'
  BY OrderInductive
<1>3. OrderInv => InOrder
  BY DEF OrderInv, InOrder, Before, Earlier
<1> QED BY <1>1, <1>2, <1>3, TypeCorrect, SessionCorrect, PTL DEF Spec

(***************************************************************************)
(* The session as a service.                                               *)
(***************************************************************************)
LEMMA PhaseFacts ==
    ASSUME TypeOK, SessionInv, NEW r \in Request
    PROVE  /\ phaseOf[r] = IF Settled(r) THEN "settled"
                           ELSE IF r \in Accepted THEN "pending" ELSE "new"
           /\ phaseOf[r] = "pending" => ~dead /\ r \in Held(current, queue) \ cancelled
           /\ r \in Held(current, queue) \ cancelled => phaseOf[r] = "pending"
<1>1. phaseOf[r] = IF Settled(r) THEN "settled" ELSE IF r \in Accepted THEN "pending" ELSE "new"
  BY DEF phaseOf
<1>2. phaseOf[r] = "pending" => ~dead /\ r \in Held(current, queue) \ cancelled
  BY <1>1 DEF SessionInv, ItemInv, NothingLost
<1>3. r \in Held(current, queue) \ cancelled => phaseOf[r] = "pending"
  BY <1>1 DEF SessionInv, ItemInv, QueueInv, Held
<1> QED BY <1>1, <1>2, <1>3

\* Steps that the broker does not see.
LEMMA Unseen ==
    ASSUME UNCHANGED <<outcome, accepted, dead>>
    PROVE  UNCHANGED Service!serviceVars
<1>1. phaseOf' = phaseOf /\ answerOf' = answerOf
  BY DEF phaseOf, answerOf, Settled, Accepted
<1> QED BY <1>1 DEF Service!serviceVars

\* A query that is accepted: it was new and is pending.
LEMMA TakeMaps ==
    ASSUME TypeOK, SessionInv, NEW r \in Request, MayExecute(r),
           accepted' = Append(accepted, r), UNCHANGED <<outcome, dead>>
    PROVE  Service!Take(r)
<1>1. Accepted' = Accepted \cup {r}
  BY AppendRange DEF Accepted, TypeOK
<1>2. ~Settled(r) /\ r \notin Accepted /\ ~dead
  BY DEF MayExecute, SessionInv, ItemInv
<1>3. \A s \in Request : Settled(s)' <=> Settled(s)
  BY DEF Settled
<1>4. answerOf' = answerOf
  BY DEF answerOf, Settled
<1>5. phaseOf' = [phaseOf EXCEPT ![r] = "pending"]
  BY <1>1, <1>2, <1>3 DEF phaseOf
<1>6. phaseOf[r] = "new"
  BY <1>2 DEF phaseOf
<1> QED BY <1>2, <1>4, <1>5, <1>6 DEF Service!Take

\* One promise is settled while the session lives.
LEMMA SettleMaps ==
    ASSUME TypeOK, SessionInv, NEW r \in Request, NEW a, NEW o, a # "pending",
           outcome' = Settle({r}, Promise(a, o), outcome), ~Settled(r),
           UNCHANGED <<accepted, dead>>
    PROVE  Service!Settles(r, a)
<1>1. Promise(a, o) # Pending /\ Promise(a, o).state = a
  BY DEF Promise, Pending
<1>2. /\ outcome'[r] = Promise(a, o)
      /\ \A s \in Request \ {r} : outcome'[s] = outcome[s]
  BY DEF Settle, Settled
<1>3. Settled(r)' /\ \A s \in Request \ {r} : Settled(s)' <=> Settled(s)
  BY <1>1, <1>2 DEF Settled
<1>4. Accepted' = Accepted
  BY DEF Accepted
<1>5. phaseOf' = [phaseOf EXCEPT ![r] = "settled"]
  BY <1>3, <1>4 DEF phaseOf
<1>6. answerOf' = [answerOf EXCEPT ![r] = a]
  BY <1>1, <1>2, <1>3 DEF answerOf
<1> QED BY <1>5, <1>6 DEF Service!Settles

\* The session ends: everything it holds is settled with the reason, but for
\* one query that may be the cause.
LEMMA CloseMaps ==
    ASSUME TypeOK, SessionInv, ~dead, dead', NEW reason \in Categories,
           NEW held \in SUBSET Request,
           \A r \in Request : phaseOf[r] = "pending" => r \in held,
           \A r \in held : phaseOf[r] \in {"new", "pending"},
           \A r \in held : Settled(r)' /\ outcome'[r].state \in {reason, "local", "timeout"},
           \A r, s \in held : outcome'[r].state # reason /\ outcome'[s].state # reason => r = s,
           \A r \in Request \ held : /\ outcome'[r] = outcome[r]
                                     /\ r \in Accepted' <=> r \in Accepted
    PROVE  Service!Close
<1> DEFINE late == {r \in held : phaseOf[r] = "new"}
           first == [r \in held |-> outcome'[r].state]
<1>1. held = late \cup {r \in Request : phaseOf[r] = "pending"}
  OBVIOUS
<1>2. phaseOf' = [r \in Request |-> IF r \in held THEN "settled" ELSE phaseOf[r]]
  BY DEF phaseOf, Settled
<1>3. answerOf' = [r \in Request |-> IF r \in held THEN first[r] ELSE answerOf[r]]
  BY DEF answerOf, Settled
<1>4. first \in [held -> {reason, "local", "timeout"}]
  OBVIOUS
<1>5. reason \in Service!ByClosing
  BY DEF Categories, Service!ByClosing
<1>6. \A r, s \in held : first[r] # reason /\ first[s] # reason => r = s
  OBVIOUS
<1>7. late \in SUBSET Request /\ \A r \in late : phaseOf[r] = "new"
  OBVIOUS
<1> HIDE DEF late, first
<1>8. \E f \in [held -> {reason, "local", "timeout"}] :
         /\ \A r, s \in held : f[r] # reason /\ f[s] # reason => r = s
         /\ answerOf' = [r \in Request |-> IF r \in held THEN f[r] ELSE answerOf[r]]
  BY <1>3, <1>4, <1>6
<1> DEFINE Closes(re, h) ==
              /\ phaseOf' = [r \in Request |-> IF r \in h THEN "settled" ELSE phaseOf[r]]
              /\ \E f \in [h -> {re, "local", "timeout"}] :
                    /\ \A r, s \in h : f[r] # re /\ f[s] # re => r = s
                    /\ answerOf' = [r \in Request |-> IF r \in h THEN f[r] ELSE answerOf[r]]
<1>9. Closes(reason, held)
  BY <1>2, <1>8
<1> HIDE DEF Closes
<1>10. Closes(reason, late \cup {r \in Request : phaseOf[r] = "pending"})
  BY <1>1, <1>9
<1>11. \E re \in Service!ByClosing, l \in SUBSET Request :
          /\ \A r \in l : phaseOf[r] = "new"
          /\ Closes(re, l \cup {r \in Request : phaseOf[r] = "pending"})
  BY <1>5, <1>7, <1>10
<1>12. (~dead)' = FALSE /\ ~dead
  OBVIOUS
<1> QED BY <1>11, <1>12 DEF Service!Close, Closes

\* failAll, for a session that fails and for one whose current query is the
\* cause and was answered before.
LEMMA FailMaps ==
    ASSUME TypeOK, SessionInv, ~dead, NEW category \in Categories, Fail(category),
           accepted' = accepted
    PROVE  Service!Close
<1> DEFINE held == Held(current, queue) \ cancelled
<1>1. /\ dead'
      /\ outcome' = Settle(held, Promise(category, <<>>), outcome)
  BY DEF Fail, FailAll
<1>2. held \in SUBSET Request /\ \A r \in Request : r \in held <=> phaseOf[r] = "pending"
  <2>1. held \in SUBSET Request
    BY HeldType
  <2> QED BY <2>1, PhaseFacts
<1>3. Promise(category, <<>>) # Pending /\ Promise(category, <<>>).state = category
  BY DEF Promise, Pending, Categories
<1>4. \A r \in held : outcome[r] = Pending
  BY <1>2, PhaseFacts DEF Settled
<1> HIDE DEF held
<1>5. \A r \in held : outcome'[r] = Promise(category, <<>>)
  BY <1>1, <1>2, <1>4 DEF Settle
<1>6. \A r \in Request \ held : outcome'[r] = outcome[r]
  BY <1>1 DEF Settle
<1>7. Accepted' = Accepted
  BY DEF Accepted
<1>8. \A r \in held : Settled(r)' /\ outcome'[r].state = category
  BY <1>3, <1>5 DEF Settled
<1> QED BY <1>1, <1>2, <1>6, <1>7, <1>8, CloseMaps

LEMMA FailWithMaps ==
    ASSUME TypeOK, SessionInv, NEW category \in {"runner", "timeout"},
           NEW r \in Request, r = current, r \notin cancelled, NEW mine \in {"local", "timeout"},
           FailAll(category, Held(current, queue), cancelled \cup {r},
                   Settle({r}, Promise(mine, <<>>), outcome)),
           accepted' = accepted
    PROVE  Service!Close
<1> DEFINE held == Held(current, queue) \ cancelled
           out == Settle({r}, Promise(mine, <<>>), outcome)
<1>0. ~dead /\ category \in Categories
  BY RequestAssumption DEF SessionInv, QueueInv, Categories
<1>1. /\ dead'
      /\ outcome' = Settle(held \ {r}, Promise(category, <<>>), out)
  <2>1. Held(current, queue) \ (cancelled \cup {r}) = held \ {r}
    OBVIOUS
  <2> QED BY <2>1 DEF FailAll
<1>2. held \in SUBSET Request /\ \A s \in Request : s \in held <=> phaseOf[s] = "pending"
  <2>1. held \in SUBSET Request
    BY HeldType
  <2> QED BY <2>1, PhaseFacts
<1>3. /\ Promise(category, <<>>) # Pending /\ Promise(category, <<>>).state = category
      /\ Promise(mine, <<>>) # Pending /\ Promise(mine, <<>>).state = mine
  BY DEF Promise, Pending
<1>4. \A s \in held : outcome[s] = Pending
  BY <1>2, PhaseFacts DEF Settled
<1>5. r \in held
  BY RequestAssumption DEF Held
<1> HIDE DEF held, out
<1>6. outcome'[r] = Promise(mine, <<>>)
  BY <1>1, <1>3, <1>4, <1>5 DEF Settle, out
<1>7. \A s \in held \ {r} : outcome'[s] = Promise(category, <<>>)
  BY <1>1, <1>2, <1>4 DEF Settle, out
<1>8. \A s \in Request \ held : outcome'[s] = outcome[s]
  BY <1>1, <1>5 DEF Settle, out
<1>9. Accepted' = Accepted
  BY DEF Accepted
<1>10. \A s \in held : Settled(s)' /\ outcome'[s].state \in {category, "local", "timeout"}
                       /\ (outcome'[s].state # category => s = r)
  BY <1>3, <1>6, <1>7 DEF Settled
<1>11. \A s, t \in held : outcome'[s].state # category /\ outcome'[t].state # category => s = t
  BY <1>10
<1>12. /\ \A s \in Request : phaseOf[s] = "pending" => s \in held
       /\ \A s \in held : phaseOf[s] \in {"new", "pending"}
  BY <1>2
<1>13. \A s \in Request \ held : /\ outcome'[s] = outcome[s]
                                 /\ s \in Accepted' <=> s \in Accepted
  BY <1>8, <1>9
<1>14. dead' /\ held \in SUBSET Request
  BY <1>1, <1>2
<1>15. \A s \in held : Settled(s)' /\ outcome'[s].state \in {category, "local", "timeout"}
  BY <1>10
<1> QED BY <1>0, <1>11, <1>12, <1>13, <1>14, <1>15, CloseMaps

LEMMA ExecuteMaps ==
    ASSUME TypeOK, SessionInv, NEW r \in Request, Execute(r)
    PROVE  Service!ServiceNext
<1>1. MayExecute(r)
  BY DEF Execute, ExecuteFirst, ExecuteStartFails, ExecuteQueued, ExecuteNext,
         ExecuteAborted, Submit
<1>2. ~dead /\ r \notin Accepted /\ r \notin cancelled /\ ~Settled(r)
  BY <1>1 DEF MayExecute, SessionInv, ItemInv
<1>3. phaseOf[r] = "new"
  BY <1>2 DEF phaseOf
<1>4. CASE ExecuteFirst(r) \/ ExecuteQueued(r) \/ ExecuteNext(r)
  <2>1. accepted' = Append(accepted, r) /\ UNCHANGED <<outcome, dead>>
    BY <1>4 DEF ExecuteFirst, ExecuteQueued, ExecuteNext, Submit
  <2> QED BY <1>1, <2>1, TakeMaps DEF Service!ServiceNext
<1>5. CASE ExecuteStartFails(r)
  <2>1. /\ FailAll("runner", Held(r, queue), cancelled, outcome)
        /\ current = NoRequest /\ accepted' = Append(accepted, r)
    BY <1>5 DEF ExecuteStartFails
  <2>2. Held(r, queue) = {r} /\ Held(current, queue) = {}
    BY <2>1, RangeEmpty, RequestAssumption DEF SessionInv, QueueInv, Held
  <2>3. Accepted' = Accepted \cup {r}
    BY <2>1, AppendRange DEF Accepted, TypeOK
  <2>4. dead' /\ outcome' = Settle({r}, Promise("runner", <<>>), outcome)
    <3>1. {r} \ cancelled = {r}
      BY <1>2
    <3> QED BY <2>1, <2>2, <3>1 DEF FailAll
  <2>5. Promise("runner", <<>>) # Pending /\ Promise("runner", <<>>).state = "runner"
    BY DEF Promise, Pending
  <2>6. outcome'[r] = Promise("runner", <<>>) /\ \A s \in Request \ {r} : outcome'[s] = outcome[s]
    BY <1>2, <2>4 DEF Settle, Settled
  <2>7. \A s \in Request : phaseOf[s] # "pending"
    BY <2>2, PhaseFacts
  <2>8. Settled(r)' /\ outcome'[r].state = "runner"
    BY <2>5, <2>6 DEF Settled
  <2> DEFINE held == {r}
  <2>9. held \in SUBSET Request /\ dead' /\ ~dead /\ "runner" \in Categories
    BY <1>2, <2>4 DEF Categories
  <2>10. \A s \in Request : phaseOf[s] = "pending" => s \in held
    BY <2>7
  <2>11. \A s \in held : phaseOf[s] \in {"new", "pending"}
    BY <1>3
  <2>12. \A s \in held : Settled(s)' /\ outcome'[s].state \in {"runner", "local", "timeout"}
    BY <2>8
  <2>13. \A s, t \in held : outcome'[s].state # "runner" /\ outcome'[t].state # "runner"
                             => s = t
    BY <2>8
  <2>14. \A s \in Request \ held : /\ outcome'[s] = outcome[s]
                                   /\ s \in Accepted' <=> s \in Accepted
    BY <2>3, <2>6
  <2> HIDE DEF held
  <2>15. Service!Close
    BY <2>9, <2>10, <2>11, <2>12, <2>13, <2>14, CloseMaps
  <2> QED BY <2>15 DEF Service!ServiceNext
<1>6. CASE ExecuteAborted(r)
  <2>1. /\ outcome' = Settle({r}, Promise("local", <<>>), outcome)
        /\ UNCHANGED <<accepted, dead>>
    BY <1>6 DEF ExecuteAborted, sessionVars, historyVars
  <2>2. Service!Settles(r, "local")
    BY <1>2, <2>1, SettleMaps
  <2>3. Service!Withdraw(r)
    BY <1>2, <1>3, <2>1, <2>2 DEF Service!Withdraw
  <2> QED BY <2>3 DEF Service!ServiceNext
<1> QED BY <1>4, <1>5, <1>6 DEF Execute

LEMMA AbortMaps ==
    ASSUME TypeOK, SessionInv, NEW r \in Request, Abort(r)
    PROVE  Service!ServiceNext \/ UNCHANGED Service!serviceVars
<1>1. CASE AbortUnheard(r)
  BY <1>1, Unseen DEF AbortUnheard, sessionVars, historyVars
<1>2. CASE AbortWaiting(r)
  <2>1. /\ outcome' = Settle({r}, Promise("local", <<>>), outcome)
        /\ UNCHANGED <<accepted, dead>> /\ current # r /\ r \in listeners \ cancelled
    BY <1>2 DEF AbortWaiting, sessionVars, historyVars
  <2>2. r \in Accepted \ begun
    BY <2>1 DEF SessionInv, ItemInv
  <2>3. r \in Held(current, queue) \ cancelled
    <3>1. r \in Range(queue)
      BY <2>1, <2>2 DEF SessionInv, ItemInv
    <3> QED BY <2>1, <3>1, RequestAssumption DEF Held
  <2>4. phaseOf[r] = "pending" /\ ~dead /\ ~Settled(r)
    BY <2>3, PhaseFacts
  <2>5. Service!Settles(r, "local")
    BY <2>1, <2>4, SettleMaps
  <2>6. Service!Withdraw(r)
    BY <2>1, <2>4, <2>5 DEF Service!Withdraw
  <2> QED BY <2>6 DEF Service!ServiceNext
<1>3. CASE AbortCurrent(r)
  <2>1. Service!Close
    BY <1>3, FailWithMaps DEF AbortCurrent, historyVars
  <2> QED BY <2>1 DEF Service!ServiceNext
<1> QED BY <1>1, <1>2, <1>3 DEF Abort

LEMMA TimeoutMaps ==
    ASSUME TypeOK, SessionInv, NEW r \in Request, Timeout(r)
    PROVE  Service!ServiceNext
<1>1. r = current /\ r \notin cancelled
  BY DEF Timeout, SessionInv, OneDeadline
<1>2. Service!Close
  BY <1>1, FailWithMaps DEF Timeout, historyVars
<1> QED BY <1>2 DEF Service!ServiceNext

LEMMA StdoutMaps ==
    ASSUME TypeOK, SessionInv, StdoutStep
    PROVE  Service!ServiceNext \/ UNCHANGED Service!serviceVars
<1>0. ~dead
  BY DEF StdoutStep, StdoutReady, StdoutBeforeReady, StdoutUnasked, StdoutParsed,
         StdoutTooLarge, StdoutResult, Deliver
<1>1. CASE StdoutReady \/ StdoutParsed
  BY <1>1, Unseen DEF StdoutReady, StdoutParsed, itemVars, historyVars
<1>2. CASE StdoutBeforeReady \/ StdoutUnasked
  <2>1. accepted' = accepted
    BY <1>2 DEF StdoutBeforeReady, StdoutUnasked, historyVars
  <2>2. CASE Fail("runner")
    BY <1>0, <2>1, <2>2, FailMaps DEF Categories, Service!ServiceNext
  <2>3. CASE UNCHANGED <<sessionVars, itemVars>>
    BY <2>1, <2>3, Unseen DEF sessionVars, itemVars
  <2> QED BY <1>2, <2>2, <2>3 DEF StdoutBeforeReady, StdoutUnasked
<1>3. CASE StdoutTooLarge
  BY <1>0, <1>3, FailMaps DEF StdoutTooLarge, historyVars, Categories, Service!ServiceNext
<1>4. CASE StdoutResult
  <2>1. PICK status \in Statuses :
           /\ parser = "result"
           /\ outcome' = IF current \in cancelled THEN outcome
                         ELSE Settle({current},
                                     IF status = "OK" THEN Promise("resolved", received)
                                     ELSE Promise(status, <<>>), outcome)
    BY <1>4 DEF StdoutResult
  <2>2. UNCHANGED <<accepted, dead>>
    BY <1>4 DEF StdoutResult
  <2>3. CASE current \in cancelled
    BY <2>1, <2>2, <2>3, Unseen
  <2>4. CASE current \notin cancelled
    <3>1. current \in Request /\ current \in Held(current, queue) \ cancelled
      BY <2>1, <2>4 DEF TypeOK, SessionInv, QueueInv, Held
    <3>2. phaseOf[current] = "pending" /\ ~Settled(current)
      BY <3>1, PhaseFacts
    <3>3. PICK a, o : a \in Service!ByMySQL /\
             outcome' = Settle({current}, Promise(a, o), outcome) /\ a # "pending"
      BY <2>1, <2>4 DEF Statuses, Service!ByMySQL
    <3>4. Service!Settles(current, a)
      BY <2>2, <3>1, <3>2, <3>3, SettleMaps
    <3>5. Service!Finish(current)
      BY <1>0, <2>2, <3>2, <3>3, <3>4 DEF Service!Finish
    <3> QED BY <3>1, <3>5 DEF Service!ServiceNext
  <2> QED BY <2>3, <2>4
<1> QED BY <1>1, <1>2, <1>3, <1>4 DEF StdoutStep

\* Every step of the session is a step of the service or is not seen.
LEMMA StepMaps ==
    ASSUME TypeOK, SessionInv, [Next]_vars
    PROVE  Service!ServiceNext \/ UNCHANGED Service!serviceVars
<1>1. ASSUME NEW r \in Request, Execute(r) \/ Abort(r) \/ Timeout(r)
      PROVE  Service!ServiceNext \/ UNCHANGED Service!serviceVars
  BY <1>1, ExecuteMaps, AbortMaps, TimeoutMaps
<1>2. CASE StdoutStep
  BY <1>2, StdoutMaps
<1>3. CASE ChildError \/ ChildClose \/ CleanupIdle \/ ManagerClose
  <2>1. PICK category \in Categories : Fail(category)
    BY <1>3 DEF ChildError, ChildClose, CleanupIdle, ManagerClose, Categories, ExitCategory
  <2>2. ~dead /\ accepted' = accepted
    BY <1>3 DEF ChildError, ChildClose, CleanupIdle, ManagerClose, historyVars
  <2> QED BY <2>1, <2>2, FailMaps DEF Service!ServiceNext
<1>4. CASE Elapse \/ AdapterStep \/ UNCHANGED vars
  BY <1>4, Unseen DEF Elapse, AdapterStep, vars, sessionVars, itemVars, historyVars
<1> QED BY <1>1, <1>2, <1>3, <1>4 DEF Next

\* Seen from the broker the session is a query service: it answers every query
\* it takes once, and when it ends, by whatever failure, it answers all that it
\* holds with one reason, but for the query that is the cause.
THEOREM SessionIsAService == Spec => ImplementsService
<1>1. Init => Service!ServiceInit
  <2> SUFFICES ASSUME Init PROVE Service!ServiceInit
    OBVIOUS
  <2>1. Accepted = {} /\ \A r \in Request : ~Settled(r)
    BY RangeEmpty DEF Init, Accepted, Settled
  <2>2. phaseOf = [r \in Request |-> "new"] /\ answerOf = [r \in Request |-> "none"]
    BY <2>1 DEF phaseOf, answerOf
  <2>3. ~dead = TRUE
    BY DEF Init
  <2> QED BY <2>2, <2>3 DEF Service!ServiceInit
<1>2. TypeOK /\ SessionInv /\ [Next]_vars => [Service!ServiceNext]_(Service!serviceVars)
  BY StepMaps
<1> QED BY <1>1, <1>2, TypeCorrect, SessionCorrect, PTL
        DEF Spec, ImplementsService, Service!ServiceSpec

(***************************************************************************)
(* The pipes.  For a request r that was sent, the adapter has written the  *)
(* first w tokens of its transcript, behind m tokens of no request; the    *)
(* parser has consumed some of them, the rest are in stdout.               *)
(***************************************************************************)
Transcript(r, k) ==
    IF k = 1 THEN Token("begin", r)
    ELSE IF k <= printed[r] + 1 THEN Token("row", r)
    ELSE IF k = printed[r] + 2 THEN Token("end", r)
    ELSE Token(reported[r], r)

Consumed(r) ==
    IF parser = "start" THEN 0
    ELSE IF parser = "xml" THEN Len(received) + 1
    ELSE printed[r] + 2

\* How far the adapter is with r.
Written(r, w) ==
    /\ w \in {0, printed[r] + 1, printed[r] + 2, printed[r] + 3}
    /\ w = 0 => printed[r] = 0
    /\ reported[r] = "none" <=> w # printed[r] + 3
    /\ stdin = <<>> \/ (stdin = <<r>> /\ w = 0 /\ adapter \in {"idle", "exited"})
    /\ adapter \in Busy => serving = r
    /\ adapter = "started" => w = 0
    /\ adapter = "rows" => w = printed[r] + 1
    /\ adapter = "status" => w = printed[r] + 2
    /\ adapter = "idle" => stdin = <<r>> \/ w = printed[r] + 3

\* What is on the pipe to the session.
OnPipe(r, m, w) ==
    /\ m > 0 => parser = "start"
    /\ Consumed(r) <= w
    /\ Len(stdout) = m + w - Consumed(r)
    /\ \A i \in 1 .. m : stdout[i].of = NoRequest
    /\ \A i \in m + 1 .. Len(stdout) : stdout[i] = Transcript(r, Consumed(r) + i - m)

\* What the parser has kept.
Kept(r) ==
    /\ parser = "start" => received = <<>>
    /\ parser = "xml" => Len(received) <= printed[r]
    /\ parser = "result" => Len(received) = printed[r]
    /\ \A i \in 1 .. Len(received) : received[i] = Token("row", r)

Streamed(r) == Kept(r) /\ \E m, w \in Nat : Written(r, w) /\ OnPipe(r, m, w)

LiveInv ==
    ~dead =>
       /\ parser # "none" => ready /\ Streamed(current)
       /\ parser = "none" => /\ stdin = <<>> /\ adapter \notin Busy
                             /\ \A i \in 1 .. Len(stdout) : stdout[i].of = NoRequest
       /\ \A r \in Request : r \notin begun \/ (r = current /\ parser = "none") =>
                                printed[r] = 0 /\ reported[r] = "none"
       /\ adapter \in {"none", "login"} =>
             ~ready /\ \A i \in 1 .. Len(stdout) : stdout[i].kind # "ready"

WorkInv ==
    /\ adapter \in Busy => stdin = <<>> /\ reported[serving] = "none"
    /\ \/ stdin = <<>>
       \/ \E x \in Request : stdin = <<x>> /\ printed[x] = 0 /\ reported[x] = "none"

PipeInv == LiveInv /\ WorkInv /\ ResultIsOwn

LEMMA ConsumedType ==
    ASSUME TypeOK, NEW r \in Request
    PROVE  Consumed(r) \in Nat
<1>1. printed[r] \in Nat /\ Len(received) \in Nat
  BY LenProperties DEF TypeOK, AdapterTypeOK
<1> QED BY <1>1 DEF Consumed

\* The adapter writes the next token of its transcript.
LEMMA PipeGrows ==
    ASSUME TypeOK, NEW r \in Request, NEW m \in Nat, NEW w \in Nat, OnPipe(r, m, w),
           stdout' = Append(stdout, Transcript(r, w + 1)'),
           parser' = parser, Consumed(r)' = Consumed(r),
           \A k \in 1 .. w : Transcript(r, k)' = Transcript(r, k)
    PROVE  OnPipe(r, m, w + 1)'
<1> DEFINE c == Consumed(r)
           n == Len(stdout)
           T(k) == Transcript(r, k)
<1>1. c \in Nat
  BY ConsumedType
<1>2. stdout \in Seq(Tokens) /\ n \in Nat
  BY LenProperties DEF TypeOK, AdapterTypeOK
<1>3. /\ Len(stdout') = n + 1
      /\ \A i \in 1 .. n : stdout'[i] = stdout[i]
      /\ stdout'[n + 1] = Transcript(r, w + 1)'
  BY <1>2
<1>4. /\ m > 0 => parser = "start"
      /\ c <= w /\ n = m + w - c
      /\ \A i \in 1 .. m : stdout[i].of = NoRequest
      /\ \A i \in m + 1 .. n : stdout[i] = T(c + i - m)
  BY DEF OnPipe
<1>5. /\ \A k \in 1 .. w : T(k)' = T(k)
      /\ stdout'[n + 1] = T(w + 1)'
  BY <1>3
<1> HIDE DEF c, n, T
<1>6. \A i \in 1 .. m : stdout'[i].of = NoRequest
  BY <1>1, <1>2, <1>3, <1>4
<1>7. ASSUME NEW i \in m + 1 .. n + 1
      PROVE  stdout'[i] = T(c + i - m)'
  <2>1. c' = c
    BY DEF c
  <2>2. CASE i \in m + 1 .. n
    <3>1. c + i - m \in 1 .. w /\ i \in 1 .. n
      BY <2>2, <1>1, <1>2, <1>4
    <3>2. T(c + i - m)' = T(c + i - m)
      BY <3>1, <1>5, <2>1
    <3> QED BY <2>2, <3>1, <3>2, <1>3, <1>4
  <2>3. CASE i = n + 1
    <3>1. c + i - m = w + 1
      BY <2>3, <1>1, <1>2, <1>4
    <3>2. T(c + i - m)' = T(w + 1)'
      BY <2>1, <3>1
    <3> QED BY <2>3, <3>2, <1>5
  <2>4. i \in m + 1 .. n \/ i = n + 1
    BY <1>2
  <2> QED BY <2>2, <2>3, <2>4
<1>8. /\ m > 0 => parser' = "start"
      /\ c' <= w + 1 /\ Len(stdout') = m + (w + 1) - c'
  <2>1. c' = c
    BY DEF c
  <2> QED BY <2>1, <1>1, <1>2, <1>3, <1>4
<1> QED BY <1>3, <1>6, <1>7, <1>8 DEF OnPipe, c, T

\* What the parser finds at the head of the pipe.
LEMMA PipeHead ==
    ASSUME TypeOK, NEW r \in Request, NEW m \in Nat, NEW w \in Nat, OnPipe(r, m, w),
           stdout # <<>>
    PROVE  /\ Head(stdout) = stdout[1]
           /\ m > 0 => Head(stdout).of = NoRequest
           /\ m = 0 => /\ Consumed(r) < w
                       /\ Head(stdout) = Transcript(r, Consumed(r) + 1)
<1>1. Consumed(r) \in Nat
  BY ConsumedType
<1>2. stdout \in Seq(Tokens) /\ Len(stdout) \in Nat /\ Len(stdout) > 0
  BY DEF TypeOK, AdapterTypeOK
<1>3. Head(stdout) = stdout[1]
  BY <1>2
<1>4. CASE m > 0
  BY <1>1, <1>2, <1>3, <1>4 DEF OnPipe
<1>5. CASE m = 0
  <2>1. 1 \in m + 1 .. Len(stdout) /\ Consumed(r) + 1 - m = Consumed(r) + 1
    BY <1>1, <1>2, <1>5
  <2>2. Consumed(r) < w
    BY <1>1, <1>2, <1>5 DEF OnPipe
  <2> QED BY <1>3, <1>5, <2>1, <2>2 DEF OnPipe
<1> QED BY <1>3, <1>4, <1>5

\* One token leaves the pipe.
LEMMA PipeShrinks ==
    ASSUME TypeOK, NEW r \in Request, NEW m \in Nat, NEW w \in Nat, OnPipe(r, m, w),
           stdout # <<>>, stdout' = Tail(stdout), UNCHANGED <<printed, reported>>
    PROVE  /\ m > 0 /\ parser' = parser /\ Consumed(r)' = Consumed(r) => OnPipe(r, m - 1, w)'
           /\ m = 0 /\ Consumed(r)' = Consumed(r) + 1 => OnPipe(r, 0, w)'
<1> DEFINE c == Consumed(r)
           n == Len(stdout)
           T(k) == Transcript(r, k)
<1>1. c \in Nat
  BY ConsumedType
<1>2. stdout \in Seq(Tokens) /\ n \in Nat /\ n > 0
  BY DEF TypeOK, AdapterTypeOK
<1>3. Len(stdout') = n - 1 /\ \A i \in 1 .. n - 1 : stdout'[i] = stdout[i + 1]
  BY <1>2
<1>4. /\ m > 0 => parser = "start"
      /\ c <= w /\ n = m + w - c
      /\ \A i \in 1 .. m : stdout[i].of = NoRequest
      /\ \A i \in m + 1 .. n : stdout[i] = T(c + i - m)
  BY DEF OnPipe
<1>5. \A k : T(k)' = T(k)
  BY DEF Transcript
<1>6. ASSUME m > 0, parser' = parser, c' = c
      PROVE  OnPipe(r, m - 1, w)'
  <2> HIDE DEF c, n, T
  <2>1. c' <= w /\ Len(stdout') = (m - 1) + w - c'
    BY <1>1, <1>2, <1>3, <1>4, <1>6
  <2>2. \A i \in 1 .. m - 1 : stdout'[i].of = NoRequest
    BY <1>1, <1>2, <1>3, <1>4
  <2>3. ASSUME NEW i \in (m - 1) + 1 .. Len(stdout')
        PROVE  stdout'[i] = T(c + i - (m - 1))'
    <3>1. i + 1 \in m + 1 .. n /\ i \in 1 .. n - 1 /\ c' + i - (m - 1) = c + (i + 1) - m
      BY <1>1, <1>2, <1>3, <1>6
    <3>2. stdout'[i] = T(c + (i + 1) - m)
      BY <3>1, <1>3, <1>4
    <3> QED BY <3>1, <3>2, <1>5
  <2> QED BY <1>4, <1>6, <2>1, <2>2, <2>3 DEF OnPipe, c, T
<1>7. ASSUME m = 0, c' = c + 1
      PROVE  OnPipe(r, 0, w)'
  <2> HIDE DEF c, n, T
  <2>1. c' <= w /\ Len(stdout') = 0 + w - c'
    BY <1>1, <1>2, <1>3, <1>4, <1>7
  <2>2. ASSUME NEW i \in 0 + 1 .. Len(stdout')
        PROVE  stdout'[i] = T(c + i - 0)'
    <3>1. i + 1 \in m + 1 .. n /\ i \in 1 .. n - 1 /\ c' + i - 0 = c + (i + 1) - m
      BY <1>1, <1>2, <1>3, <1>7
    <3>2. stdout'[i] = T(c + (i + 1) - m)
      BY <3>1, <1>3, <1>4
    <3> QED BY <3>1, <3>2, <1>5
  <2>3. \A i \in 1 .. 0 : stdout'[i].of = NoRequest
    OBVIOUS
  <2> QED BY <2>1, <2>2, <2>3 DEF OnPipe, c, T
<1> QED BY <1>6, <1>7

\* What a step of the adapter leaves of the stream when it prints nothing.
LEMMA SilentStream ==
    ASSUME NEW r \in Request, NEW m \in Nat, NEW w \in Nat, Kept(r), OnPipe(r, m, w),
           UNCHANGED <<stdout, parser, received, printed, reported>>
    PROVE  Kept(r)' /\ OnPipe(r, m, w)'
BY DEF Kept, OnPipe, Consumed, Transcript

\* The adapter's steps for the request that is current.
LEMMA AdapterStreams ==
    ASSUME TypeOK, TypeOK', NEW r \in Request, Streamed(r), parser # "none",
           adapter \notin {"none", "login"}, AdapterStep
    PROVE  Streamed(r)'
<1>1. PICK m \in Nat, w \in Nat : Written(r, w) /\ OnPipe(r, m, w)
  BY DEF Streamed
<1>2. /\ UNCHANGED <<parser, received>> /\ Kept(r)
      /\ parser \in {"start", "xml", "result"}
  BY DEF AdapterStep, sessionVars, Streamed, TypeOK
<1>3. /\ printed[r] \in Nat /\ Len(received) \in Nat
      /\ printed \in [Request -> Nat]
      /\ reported \in [Request -> Statuses \cup {"none"}]
      /\ stdin \in Seq(Request)
      /\ adapter \in Phases
  BY LenProperties DEF TypeOK, AdapterTypeOK
<1>4. Consumed(r) <= w
  BY <1>1 DEF OnPipe
<1>5. ASSUME NEW u \in Nat, NEW v \in Nat, Kept(r)', Written(r, v)', OnPipe(r, u, v)'
      PROVE  Streamed(r)'
  BY <1>5 DEF Streamed
<1>6. ASSUME UNCHANGED <<stdout, printed, reported>>, Written(r, w)'
      PROVE  Streamed(r)'
  BY <1>1, <1>2, <1>5, <1>6, SilentStream
<1>7. adapter \in Busy => stdin = <<>> /\ serving = r /\ reported[r] = "none"
  BY <1>1, <1>3 DEF Written, Busy
<1>8. ASSUME NEW t \in Nat, w + 1 = t, Kept(r)', Consumed(r)' = Consumed(r),
             Written(r, t)', stdout' = Append(stdout, Transcript(r, w + 1)'),
             \A k \in 1 .. w : Transcript(r, k)' = Transcript(r, k)
      PROVE  Streamed(r)'
  <2>1. OnPipe(r, m, w + 1)'
    BY <1>1, <1>2, <1>8, PipeGrows
  <2> QED BY <2>1, <1>5, <1>8
<1>9. CASE AdapterReady \/ AdapterLoginFails
  BY <1>9 DEF AdapterReady, AdapterLoginFails
<1>10. CASE AdapterReads
  <2>1. Written(r, w)'
    BY <1>1, <1>3, <1>10 DEF AdapterReads, Written, Busy
  <2> QED BY <1>6, <1>10, <2>1 DEF AdapterReads
<1>11. CASE AdapterBegins
  <2>1. /\ adapter = "started" /\ adapter' = "rows"
        /\ stdout' = Append(stdout, Token("begin", r))
        /\ UNCHANGED <<serving, stdin, printed, reported>>
        /\ serving = r /\ stdin = <<>>
    BY <1>7, <1>11 DEF AdapterBegins, Puts, Busy
  <2>2. w = 0 /\ printed[r] = 0 /\ reported[r] = "none"
    BY <1>1, <1>7, <2>1 DEF Written, Busy
  <2>3. Written(r, 1)'
    BY <1>3, <2>1, <2>2 DEF Written, Busy
  <2>4. Kept(r)' /\ Consumed(r)' = Consumed(r)
    BY <1>2, <2>1 DEF Kept, Consumed
  <2>5. Transcript(r, w + 1)' = Token("begin", r)
    BY <2>2 DEF Transcript
  <2> QED BY <1>8, <2>1, <2>2, <2>3, <2>4, <2>5
<1>12. CASE AdapterPrintsRow
  <2>1. /\ adapter = "rows"
        /\ stdout' = Append(stdout, Token("row", r))
        /\ printed' = [printed EXCEPT ![r] = @ + 1]
        /\ UNCHANGED <<adapter, serving, stdin, reported>>
        /\ serving = r /\ stdin = <<>>
    BY <1>7, <1>12 DEF AdapterPrintsRow, Puts, Busy
  <2>2. w = printed[r] + 1 /\ reported[r] = "none"
    BY <1>1, <1>7, <2>1 DEF Written, Busy
  <2>3. printed'[r] = printed[r] + 1
    BY <1>3, <2>1
  <2>4. Written(r, w + 1)'
    BY <1>3, <2>1, <2>2, <2>3 DEF Written, Busy
  <2>5. parser # "result"
    BY <1>3, <1>4, <2>2 DEF Consumed
  <2>6. Kept(r)' /\ Consumed(r)' = Consumed(r)
    BY <1>2, <1>3, <2>3, <2>5 DEF Kept, Consumed
  <2>7. Transcript(r, w + 1)' = Token("row", r)
    BY <1>3, <2>2, <2>3 DEF Transcript
  <2>8. \A k \in 1 .. w : Transcript(r, k)' = Transcript(r, k)
    BY <1>3, <2>2, <2>3 DEF Transcript
  <2>9. w + 1 \in Nat
    OBVIOUS
  <2> HIDE DEF Kept, Written, Transcript
  <2> QED BY <1>8, <2>1, <2>4, <2>6, <2>7, <2>8, <2>9
<1>13. CASE AdapterEnds
  <2>1. /\ adapter = "rows" /\ adapter' = "status"
        /\ stdout' = Append(stdout, Token("end", r))
        /\ UNCHANGED <<serving, stdin, printed, reported>>
        /\ serving = r /\ stdin = <<>>
    BY <1>7, <1>13 DEF AdapterEnds, Puts, Busy
  <2>2. w = printed[r] + 1 /\ reported[r] = "none"
    BY <1>1, <1>7, <2>1 DEF Written, Busy
  <2>3. Written(r, w + 1)'
    BY <1>3, <2>1, <2>2 DEF Written, Busy
  <2>4. Kept(r)' /\ Consumed(r)' = Consumed(r)
    BY <1>2, <2>1 DEF Kept, Consumed
  <2>5. Transcript(r, w + 1)' = Token("end", r)
    BY <1>3, <2>1, <2>2 DEF Transcript
  <2>6. \A k \in 1 .. w : Transcript(r, k)' = Transcript(r, k)
    BY <2>1 DEF Transcript
  <2>7. w + 1 \in Nat
    OBVIOUS
  <2> QED BY <1>8, <2>1, <2>3, <2>4, <2>5, <2>6, <2>7
<1>14. CASE AdapterReports
  <2>1. PICK status \in Statuses :
           /\ stdout' = Append(stdout, Token(status, r))
           /\ reported' = [reported EXCEPT ![r] = status]
    BY <1>7, <1>14 DEF AdapterReports, Puts, Busy
  <2>2. /\ adapter = "status" /\ adapter' = "idle"
        /\ UNCHANGED <<stdin, printed>>
        /\ stdin = <<>>
    BY <1>7, <1>14 DEF AdapterReports, Busy
  <2>3. w = printed[r] + 2 /\ reported[r] = "none"
    BY <1>1, <1>7, <2>2 DEF Written, Busy
  <2>4. reported'[r] = status /\ status # "none"
    BY <1>3, <2>1 DEF Statuses
  <2>5. Written(r, w + 1)'
    BY <1>3, <2>2, <2>3, <2>4 DEF Written, Busy
  <2>6. Kept(r)' /\ Consumed(r)' = Consumed(r)
    BY <1>2, <2>2 DEF Kept, Consumed
  <2>7. Transcript(r, w + 1)' = Token(status, r)
    BY <1>3, <2>2, <2>3, <2>4 DEF Transcript
  <2>8. \A k \in 1 .. w : Transcript(r, k)' = Transcript(r, k)
    BY <1>3, <2>2, <2>3 DEF Transcript
  <2>9. w + 1 \in Nat
    OBVIOUS
  <2> QED BY <1>8, <2>1, <2>5, <2>6, <2>7, <2>8, <2>9
<1>15. CASE AdapterDrops \/ AdapterKilled
  <2>1. adapter' = "exited" /\ UNCHANGED <<serving, stdin, stdout, printed, reported>>
    BY <1>15 DEF AdapterDrops, AdapterKilled
  <2>2. Written(r, w)'
    BY <1>1, <1>3, <2>1 DEF Written, Busy
  <2> QED BY <1>6, <2>1, <2>2
<1>16. CASE AdapterPrintsNoise
  <2>1. /\ adapter = "idle" /\ stdout = <<>>
        /\ stdout' = Append(stdout, Token("noise", NoRequest))
        /\ UNCHANGED <<adapter, serving, stdin, printed, reported>>
    BY <1>16 DEF AdapterPrintsNoise, Puts
  <2>2. w = Consumed(r) /\ m = 0
    <3>1. Len(stdout) = 0 /\ Consumed(r) \in Nat
      BY <2>1, ConsumedType
    <3> QED BY <1>1, <3>1 DEF OnPipe
  <2>3. w = 0 \/ w = printed[r] + 3
    <3>1. <<r>> # <<>>
      OBVIOUS
    <3> QED BY <1>1, <2>1, <3>1 DEF Written
  <2>4. parser = "start" /\ w = 0
    BY <1>2, <1>3, <2>2, <2>3 DEF Consumed, Kept
  <2>5. Written(r, 0)'
    BY <1>1, <2>1, <2>4 DEF Written
  <2>6. Kept(r)' /\ Consumed(r)' = 0 /\ parser' = "start"
    BY <1>2, <2>1, <2>4 DEF Kept, Consumed
  <2>7. Len(stdout') = 1 /\ stdout'[1].of = NoRequest
    BY <2>1 DEF Token
  <2>8. OnPipe(r, 1, 0)'
    BY <2>6, <2>7 DEF OnPipe
  <2> QED BY <1>5, <2>5, <2>6, <2>8
<1> QED BY <1>9, <1>10, <1>11, <1>12, <1>13, <1>14, <1>15, <1>16 DEF AdapterStep

\* The parser takes a token that does not complete the result.
LEMMA ParserStreams ==
    ASSUME TypeOK, TypeOK', NEW r \in Request, r = current, Streamed(r),
           parser # "none", StdoutParsed
    PROVE  Streamed(r)'
<1>1. PICK m \in Nat, w \in Nat : Written(r, w) /\ OnPipe(r, m, w)
  BY DEF Streamed
<1>2. /\ Kept(r) /\ parser \in {"start", "xml", "result"}
      /\ UNCHANGED <<adapter, serving, stdin, printed, reported, current>>
      /\ stdout # <<>> /\ stdout' = Tail(stdout)
  BY DEF StdoutParsed, Deliver, Streamed, TypeOK
<1>3. /\ printed[r] \in Nat /\ Len(received) \in Nat
      /\ received \in Seq(Tokens) /\ r # NoRequest
      /\ reported[r] \in Statuses \cup {"none"}
      /\ stdout \in Seq(Tokens)
  BY RequestAssumption, LenProperties DEF TypeOK, AdapterTypeOK
<1>4. Written(r, w)'
  BY <1>1, <1>2 DEF Written
<1>5. ASSUME NEW u \in Nat, Kept(r)', OnPipe(r, u, w)'
      PROVE  Streamed(r)'
  BY <1>4, <1>5 DEF Streamed
<1> DEFINE t == Head(stdout)
<1>6. /\ m > 0 => t.of = NoRequest
      /\ m = 0 => Consumed(r) < w /\ t = Transcript(r, Consumed(r) + 1)
  BY <1>1, <1>2, PipeHead
<1>7. /\ m > 0 /\ parser' = parser /\ Consumed(r)' = Consumed(r) => OnPipe(r, m - 1, w)'
      /\ m = 0 /\ Consumed(r)' = Consumed(r) + 1 => OnPipe(r, 0, w)'
  BY <1>1, <1>2, PipeShrinks
<1>8. m > 0 => parser = "start"
  BY <1>1 DEF OnPipe
<1>9. ParserSkips(t) \/ ParserEnters(t) \/ ParserBuffers(t) \/ ParserLeaves(t)
  BY DEF StdoutParsed
<1> HIDE DEF t
<1>10. CASE ParserSkips(t)
  <2>1. m > 0
    <3> SUFFICES ASSUME m = 0 PROVE FALSE
      OBVIOUS
    <3>1. CASE parser = "start" /\ ~IsMarker(t, "begin")
      <4>1. t = Token("begin", r)
        BY <1>6, <3>1 DEF Consumed, Transcript
      <4> QED BY <3>1, <4>1 DEF IsMarker, Token
    <3>2. CASE parser = "result" /\ \A status \in Statuses : ~IsMarker(t, status)
      <4>1. w = printed[r] + 3 /\ t = Token(reported[r], r)
        <5>1. Consumed(r) = printed[r] + 2
          BY <3>2 DEF Consumed
        <5>2. w = printed[r] + 3
          BY <1>1, <1>3, <1>6, <5>1 DEF Written
        <5>3. t = Transcript(r, printed[r] + 3)
          BY <1>3, <1>6, <5>1
        <5> QED BY <1>3, <5>2, <5>3 DEF Transcript
      <4>2. reported[r] \in Statuses
        BY <1>1, <1>3, <4>1 DEF Written
      <4> QED BY <3>2, <4>1, <4>2 DEF IsMarker, Token
    <3> QED BY <1>10, <3>1, <3>2 DEF ParserSkips
  <2>2. /\ UNCHANGED <<parser, received>>
        /\ Kept(r)' /\ Consumed(r)' = Consumed(r)
    BY <1>2, <1>10 DEF ParserSkips, Kept, Consumed
  <2>3. OnPipe(r, m - 1, w)' /\ m - 1 \in Nat
    BY <1>7, <2>1, <2>2
  <2> QED BY <1>5, <2>2, <2>3
<1>11. CASE ParserEnters(t)
  <2>1. parser = "start" /\ parser' = "xml" /\ received' = received /\ t.of = r
    BY <1>10, <1>11 DEF ParserEnters, IsMarker
  <2>2. m = 0
    BY <1>3, <1>6, <2>1
  <2>3. received = <<>> /\ Consumed(r) = 0 /\ Consumed(r)' = 1
    BY <1>2, <2>1 DEF Kept, Consumed
  <2>4. Kept(r)'
    BY <1>2, <1>3, <2>1, <2>3 DEF Kept
  <2>5. OnPipe(r, 0, w)'
    BY <1>7, <2>2, <2>3
  <2> QED BY <1>5, <2>4, <2>5
<1>12. CASE ParserBuffers(t)
  <2>1. /\ parser = "xml" /\ parser' = "xml" /\ ~IsMarker(t, "end")
        /\ received' = Append(received, t)
    BY <1>12 DEF ParserBuffers
  <2>2. m = 0 /\ Consumed(r) = Len(received) + 1
    BY <1>8, <2>1 DEF Consumed
  <2>3. t = Transcript(r, Len(received) + 2) /\ Len(received) <= printed[r]
    BY <1>2, <1>3, <1>6, <2>1, <2>2 DEF Kept
  <2>4. Len(received) # printed[r]
    <3> SUFFICES ASSUME Len(received) = printed[r] PROVE FALSE
      OBVIOUS
    <3>1. t = Token("end", r)
      BY <1>3, <2>3 DEF Transcript
    <3> QED BY <2>1, <3>1 DEF IsMarker, Token
  <2>5. t = Token("row", r) /\ Len(received) + 1 <= printed[r]
    BY <1>3, <2>3, <2>4 DEF Transcript
  <2>6. /\ Len(received') = Len(received) + 1
        /\ \A i \in 1 .. Len(received) : received'[i] = received[i]
        /\ received'[Len(received) + 1] = t
    BY <1>3, <2>1
  <2>7. Kept(r)'
    <3>1. \A i \in 1 .. Len(received) : received[i] = Token("row", r)
      BY <1>2 DEF Kept
    <3>2. \A i \in 1 .. Len(received') : received'[i] = Token("row", r)
      BY <1>3, <2>5, <2>6, <3>1
    <3> QED BY <1>2, <1>3, <2>1, <2>5, <2>6, <3>2 DEF Kept
  <2>8. Consumed(r)' = Consumed(r) + 1
    BY <1>3, <2>1, <2>2, <2>6 DEF Consumed
  <2>9. OnPipe(r, 0, w)'
    BY <1>7, <2>2, <2>8
  <2> QED BY <1>5, <2>7, <2>9
<1>13. CASE ParserLeaves(t)
  <2>1. /\ parser = "xml" /\ parser' = "result" /\ IsMarker(t, "end")
        /\ received' = received
    BY <1>13 DEF ParserLeaves
  <2>2. m = 0 /\ Consumed(r) = Len(received) + 1
    BY <1>8, <2>1 DEF Consumed
  <2>3. t = Transcript(r, Len(received) + 2) /\ Len(received) <= printed[r]
    BY <1>2, <1>3, <1>6, <2>1, <2>2 DEF Kept
  <2>4. Len(received) = printed[r]
    <3> SUFFICES ASSUME Len(received) < printed[r] PROVE FALSE
      BY <1>3, <2>3
    <3>1. t = Token("row", r)
      BY <1>3, <2>3 DEF Transcript
    <3> QED BY <2>1, <3>1 DEF IsMarker, Token
  <2>5. Kept(r)'
    BY <1>2, <1>3, <2>1, <2>4 DEF Kept
  <2>6. Consumed(r)' = Consumed(r) + 1
    BY <1>2, <1>3, <2>1, <2>2, <2>4 DEF Consumed
  <2>7. OnPipe(r, 0, w)'
    BY <1>7, <2>2, <2>6
  <2> QED BY <1>5, <2>5, <2>7
<1> QED BY <1>9, <1>10, <1>11, <1>12, <1>13

\* The RESULT line: the parser holds what was printed for the request, the
\* status is the one that was reported, and nothing is left in the pipes.
LEMMA ResultStreamed ==
    ASSUME TypeOK, NEW r \in Request, r = current, Streamed(r), parser = "result",
           NEW status \in Statuses, Deliver(status), IsMarker(Head(stdout), status)
    PROVE  /\ reported[r] = status
           /\ received = [i \in 1 .. printed[r] |-> Token("row", r)]
           /\ stdout' = <<>> /\ stdin = <<>> /\ adapter \notin Busy
<1>1. PICK m \in Nat, w \in Nat : Written(r, w) /\ OnPipe(r, m, w)
  BY DEF Streamed
<1>2. /\ printed[r] \in Nat /\ received \in Seq(Tokens)
      /\ stdout \in Seq(Tokens) /\ stdin \in Seq(Request)
  BY DEF TypeOK, AdapterTypeOK
<1>3. Consumed(r) = printed[r] + 2 /\ m = 0
  BY <1>1 DEF Consumed, OnPipe
<1>4. stdout # <<>> /\ stdout' = Tail(stdout)
  BY DEF Deliver
<1>5. Consumed(r) < w /\ Head(stdout) = Transcript(r, Consumed(r) + 1)
  BY <1>1, <1>3, <1>4, PipeHead
<1>6. w = printed[r] + 3
  BY <1>1, <1>2, <1>3, <1>5 DEF Written
<1>7. Head(stdout) = Token(reported[r], r)
  BY <1>2, <1>3, <1>5 DEF Transcript
<1>8. reported[r] = status
  BY <1>7 DEF IsMarker, Token
<1>9. stdout' = <<>>
  <2>1. Len(stdout) = 1
    BY <1>1, <1>2, <1>3, <1>6 DEF OnPipe
  <2> QED BY <1>2, <1>4, <2>1
<1>10. stdin = <<>> /\ adapter \notin Busy
  BY <1>1, <1>2, <1>6 DEF Written, Busy
<1>11. received = [i \in 1 .. printed[r] |-> Token("row", r)]
  <2>1. Len(received) = printed[r] /\ \A i \in 1 .. Len(received) : received[i] = Token("row", r)
    BY DEF Streamed, Kept
  <2> QED BY <1>2, <2>1
<1> QED BY <1>8, <1>9, <1>10, <1>11

\* A request is sent into pipes that hold nothing of a request.
LEMMA SendStreams ==
    ASSUME TypeOK', NEW x \in Request, SendCurrent(x), stdin = <<>>,
           printed'[x] = 0, reported'[x] = "none", adapter' \in {"idle", "exited"},
           \A i \in 1 .. Len(stdout') : stdout'[i].of = NoRequest
    PROVE  Streamed(x)' /\ stdin' = <<x>>
<1>1. parser' = "start" /\ received' = <<>> /\ stdin' = <<x>>
  BY DEF SendCurrent
<1>2. Len(stdout') \in Nat
  BY LenProperties DEF TypeOK, AdapterTypeOK
<1>3. Kept(x)' /\ Consumed(x)' = 0
  BY <1>1 DEF Kept, Consumed
<1>4. Written(x, 0)'
  BY <1>1 DEF Written, Busy
<1>5. PICK n \in Nat : n = Len(stdout')
  BY <1>2
<1>6. OnPipe(x, n, 0)'
  <2>1. n > 0 => parser' = "start"
    BY <1>1
  <2>2. \A i \in 1 .. n : stdout'[i].of = NoRequest
    BY <1>5
  <2>3. Consumed(x)' <= 0 /\ Len(stdout') = n + 0 - Consumed(x)'
    BY <1>3, <1>5
  <2>4. \A i \in n + 1 .. Len(stdout') : FALSE
    BY <1>5
  <2> QED BY <2>1, <2>2, <2>3, <2>4 DEF OnPipe
<1> QED BY <1>1, <1>3, <1>4, <1>6 DEF Streamed

\* Promises that are settled for another reason than a RESULT line.
OtherReasons == {"local", "timeout", "runner", "result_too_large", "relay_login", "ssh"}

LEMMA OutcomeOwn ==
    ASSUME ResultIsOwn, UNCHANGED <<printed, reported>>,
           \A r \in Request : outcome'[r] = outcome[r] \/ outcome'[r].state \in OtherReasons
    PROVE  ResultIsOwn'
<1> SUFFICES ASSUME NEW r \in Request
             PROVE  ResultIsOwn!(r)'
  BY DEF ResultIsOwn
<1>1. ResultIsOwn!(r)
  BY DEF ResultIsOwn
<1>2. CASE outcome'[r] = outcome[r]
  BY <1>1, <1>2
<1>3. CASE outcome'[r].state \in OtherReasons
  BY <1>3 DEF OtherReasons
<1> QED BY <1>2, <1>3

\* A session that fails leaves the pipes alone, and keeps no parser.
LEMMA FailPipes ==
    ASSUME TypeOK, PipeInv, NEW category \in OtherReasons, NEW items, NEW canc, NEW out,
           FailAll(category, items, canc, out),
           \A r \in Request : out[r] = outcome[r] \/ out[r].state \in OtherReasons,
           adapter' = adapter \/ adapter' = "exited",
           UNCHANGED <<serving, stdin, printed, reported>>
    PROVE  PipeInv'
<1>1. dead' /\ outcome' = Settle(items \ canc, Promise(category, <<>>), out)
  BY DEF FailAll
<1>2. LiveInv'
  BY <1>1 DEF LiveInv
<1>3. WorkInv'
  BY DEF PipeInv, WorkInv, Busy
<1>4. \A r \in Request : outcome'[r] = outcome[r] \/ outcome'[r].state \in OtherReasons
  <2>1. \A r \in Request : outcome'[r] \in {out[r], Promise(category, <<>>)}
    BY <1>1 DEF Settle
  <2>2. Promise(category, <<>>).state \in OtherReasons
    BY DEF Promise
  <2> QED BY <2>1, <2>2
<1>5. ResultIsOwn'
  BY <1>4, OutcomeOwn DEF PipeInv
<1> QED BY <1>2, <1>3, <1>5 DEF PipeInv

LEMMA FailPlainPipes ==
    ASSUME TypeOK, PipeInv, NEW category \in OtherReasons, Fail(category),
           adapter' = adapter \/ adapter' = "exited",
           UNCHANGED <<serving, stdin, printed, reported>>
    PROVE  PipeInv'
BY FailPipes DEF Fail

LEMMA FailWithPipes ==
    ASSUME TypeOK, PipeInv, NEW category \in OtherReasons, NEW mine \in {"local", "timeout"},
           NEW r \in Request, NEW items, NEW canc,
           FailAll(category, items, canc, Settle({r}, Promise(mine, <<>>), outcome)),
           UNCHANGED adapterVars
    PROVE  PipeInv'
<1> DEFINE out == Settle({r}, Promise(mine, <<>>), outcome)
<1>1. \A s \in Request : out[s] \in {outcome[s], Promise(mine, <<>>)}
  BY DEF Settle
<1>2. Promise(mine, <<>>).state \in OtherReasons
  BY DEF Promise, OtherReasons
<1>3. \A s \in Request : out[s] = outcome[s] \/ out[s].state \in OtherReasons
  BY <1>1, <1>2
<1>4. FailAll(category, items, canc, out)
  OBVIOUS
<1>5. adapter' = adapter /\ UNCHANGED <<serving, stdin, printed, reported>>
  BY DEF adapterVars
<1> HIDE DEF out
<1> QED BY <1>3, <1>4, <1>5, FailPipes

\* Steps that touch neither the pipes nor the parser.
LEMMA QuietPipes ==
    ASSUME LiveInv, WorkInv,
           UNCHANGED <<adapter, serving, stdin, stdout, printed, reported, current,
                       parser, received, ready, dead, begun>>
    PROVE  LiveInv' /\ WorkInv'
BY DEF LiveInv, WorkInv, Streamed, Kept, Written, OnPipe, Consumed, Transcript

\* pump, over pipes that hold nothing of a request.
LEMMA PumpPipes ==
    ASSUME TypeOK, TypeOK', NEW q \in Seq(Request), NEW armed, IsInjective(q),
           Pump(q, armed), UNCHANGED <<printed, reported, ready>>,
           Range(q) \cap begun = {},
           stdin = <<>>, adapter' \notin Busy,
           \A i \in 1 .. Len(stdout') : stdout'[i].of = NoRequest,
           \A r \in Request : r \notin begun => printed[r] = 0 /\ reported[r] = "none",
           ready => adapter' \in {"idle", "exited"},
           adapter' \in {"none", "login"} =>
              ~ready /\ \A i \in 1 .. Len(stdout') : stdout'[i].kind # "ready"
    PROVE  LiveInv' /\ WorkInv'
<1>1. /\ begun \subseteq begun'
      /\ current' # NoRequest => current' \in Request \ begun
  <2>1. Range(q) \subseteq Request
    BY RangeOfSeq
  <2> QED BY <2>1, PumpEffect
<1>2. \A r \in Request : r \notin begun' \/ (r = current' /\ parser' = "none") =>
                            printed'[r] = 0 /\ reported'[r] = "none"
  BY <1>1, RequestAssumption
<1>3. CASE parser' = "none" /\ stdin' = stdin
  <2>1. LiveInv'
    BY <1>2, <1>3 DEF LiveInv
  <2>2. WorkInv'
    BY <1>3 DEF WorkInv
  <2> QED BY <2>1, <2>2
<1>4. ASSUME ready, NEW x \in Request, x = current', SendCurrent(x)
      PROVE  LiveInv' /\ WorkInv'
  <2>1. x \notin begun
    BY <1>1, <1>4, RequestAssumption
  <2>2. printed'[x] = 0 /\ reported'[x] = "none"
    BY <2>1
  <2>3. adapter' \in {"idle", "exited"}
    BY <1>4
  <2>4. Streamed(x)' /\ stdin' = <<x>>
    BY <1>4, <2>2, <2>3, SendStreams
  <2>5. Streamed(current)'
    BY <1>4, <2>4
  <2>6. parser' = "start" /\ ready'
    BY <1>4 DEF SendCurrent
  <2>7. LiveInv'
    BY <1>2, <2>3, <2>5, <2>6 DEF LiveInv
  <2>8. WorkInv'
    BY <2>2, <2>4 DEF WorkInv
  <2> QED BY <2>7, <2>8
<1>5. CASE PumpNothing(q, armed)
  BY <1>3, <1>5 DEF PumpNothing
<1>6. CASE PumpNext(q, armed)
  <2>1. PICK i \in DOMAIN q :
           /\ current' = q[i]
           /\ IF ready THEN SendCurrent(q[i])
                       ELSE parser' = "none" /\ received' = <<>> /\ UNCHANGED stdin
    BY <1>6 DEF PumpNext
  <2>2. q[i] \in Request
    BY <2>1
  <2> QED BY <1>3, <1>4, <2>1, <2>2
<1> QED BY <1>5, <1>6 DEF Pump

LEMMA ExecutePipes ==
    ASSUME TypeOK, TypeOK', SessionInv, PipeInv, NEW r \in Request, Execute(r)
    PROVE  PipeInv'
<1>1. ~dead /\ r \notin Accepted /\ r \notin begun
  BY DEF Execute, ExecuteFirst, ExecuteStartFails, ExecuteQueued, ExecuteNext,
         ExecuteAborted, Submit, MayExecute, SessionInv, QueueInv
<1>2. /\ LiveInv /\ WorkInv /\ ResultIsOwn
      /\ adapter \in Phases /\ queue \in Seq(Request)
  BY DEF PipeInv, TypeOK, AdapterTypeOK
<1>3. ASSUME UNCHANGED <<printed, reported, outcome>>
      PROVE  ResultIsOwn'
  BY <1>2, <1>3, OutcomeOwn
<1>4. /\ Append(queue, r) \in Seq(Request)
      /\ IsInjective(Append(queue, r))
      /\ Range(Append(queue, r)) \cap begun = {}
  <2>1. r \notin Range(queue) /\ IsInjective(queue) /\ Range(queue) \cap begun = {}
    BY <1>1 DEF SessionInv, QueueInv
  <2>2. IsInjective(Append(queue, r))
    BY <1>2, <2>1, AppendOrder
  <2> QED BY <1>1, <1>2, <2>1, <2>2, AppendRange
<1>5. /\ \A s \in Request : s \notin begun => printed[s] = 0 /\ reported[s] = "none"
      /\ adapter \in {"none", "login"} =>
            ~ready /\ \A i \in 1 .. Len(stdout) : stdout[i].kind # "ready"
  BY <1>1, <1>2 DEF LiveInv
<1>6. current = NoRequest => /\ parser = "none" /\ stdin = <<>> /\ adapter \notin Busy
                             /\ \A i \in 1 .. Len(stdout) : stdout[i].of = NoRequest
  BY <1>1, <1>2 DEF LiveInv, SessionInv, QueueInv
<1>7. CASE ExecuteFirst(r)
  <2>1. /\ Pump(Append(queue, r), timers) /\ current = NoRequest
        /\ adapter = "none" /\ adapter' = "login"
        /\ UNCHANGED <<stdout, printed, reported, ready, outcome>>
    BY <1>7 DEF ExecuteFirst
  <2>2. adapter' \notin Busy /\ ~ready
    BY <1>5, <2>1 DEF Busy
  <2>3. LiveInv' /\ WorkInv'
    BY <1>4, <1>5, <1>6, <2>1, <2>2, PumpPipes
  <2> QED BY <1>3, <2>1, <2>3 DEF PipeInv
<1>8. CASE ExecuteStartFails(r)
  <2>1. /\ FailAll("runner", Held(r, queue), cancelled, outcome)
        /\ UNCHANGED adapterVars
    BY <1>8 DEF ExecuteStartFails
  <2>2. adapter' = adapter /\ UNCHANGED <<serving, stdin, printed, reported>>
    BY <2>1 DEF adapterVars
  <2>3. "runner" \in OtherReasons
    BY DEF OtherReasons
  <2> QED BY <2>1, <2>2, <2>3, FailPipes
<1>9. CASE ExecuteQueued(r) \/ ExecuteAborted(r)
  <2>1. /\ UNCHANGED <<adapter, serving, stdin, stdout, printed, reported, current,
                       parser, received, ready, dead, begun>>
        /\ \A s \in Request : outcome'[s] \in {outcome[s], Promise("local", <<>>)}
    BY <1>9 DEF ExecuteQueued, ExecuteAborted, Settle, adapterVars, sessionVars, historyVars
  <2>2. Promise("local", <<>>).state \in OtherReasons
    BY DEF Promise, OtherReasons
  <2>3. ResultIsOwn'
    BY <1>2, <2>1, <2>2, OutcomeOwn
  <2> QED BY <1>2, <2>1, <2>3, QuietPipes DEF PipeInv
<1>10. CASE ExecuteNext(r)
  <2>1. /\ Pump(Append(queue, r), timers) /\ current = NoRequest
        /\ UNCHANGED <<adapter, stdout, printed, reported, ready, outcome>>
    BY <1>10 DEF ExecuteNext
  <2>2. ready => adapter \in {"idle", "exited"}
    BY <1>2, <1>5, <1>6, <2>1 DEF Phases
  <2>3. LiveInv' /\ WorkInv'
    BY <1>4, <1>5, <1>6, <2>1, <2>2, PumpPipes
  <2> QED BY <1>3, <2>1, <2>3 DEF PipeInv
<1> QED BY <1>7, <1>8, <1>9, <1>10 DEF Execute

LEMMA AbortPipes ==
    ASSUME TypeOK, PipeInv, NEW r \in Request, Abort(r)
    PROVE  PipeInv'
<1>1. CASE AbortUnheard(r) \/ AbortWaiting(r)
  <2>1. /\ UNCHANGED <<adapter, serving, stdin, stdout, printed, reported, current,
                       parser, received, ready, dead, begun>>
        /\ \A s \in Request : outcome'[s] \in {outcome[s], Promise("local", <<>>)}
    BY <1>1 DEF AbortUnheard, AbortWaiting, Settle, adapterVars, sessionVars, historyVars
  <2>2. Promise("local", <<>>).state \in OtherReasons
    BY DEF Promise, OtherReasons
  <2>3. ResultIsOwn'
    BY <2>1, <2>2, OutcomeOwn DEF PipeInv
  <2> QED BY <2>1, <2>3, QuietPipes DEF PipeInv
<1>2. CASE AbortCurrent(r)
  <2>1. /\ FailAll("runner", Held(current, queue), cancelled \cup {r},
                   Settle({r}, Promise("local", <<>>), outcome))
        /\ UNCHANGED adapterVars
        /\ "runner" \in OtherReasons /\ "local" \in {"local", "timeout"}
    BY <1>2 DEF AbortCurrent, OtherReasons
  <2> QED BY <2>1, FailWithPipes
<1> QED BY <1>1, <1>2 DEF Abort

LEMMA TimeoutPipes ==
    ASSUME TypeOK, PipeInv, NEW r \in Request, Timeout(r)
    PROVE  PipeInv'
<1>1. /\ FailAll("timeout", Held(current, queue), cancelled \cup {r},
                 Settle({r}, Promise("timeout", <<>>), outcome))
      /\ UNCHANGED adapterVars
      /\ "timeout" \in OtherReasons /\ "timeout" \in {"local", "timeout"}
  BY DEF Timeout, OtherReasons
<1> QED BY <1>1, FailWithPipes

\* Output that belongs to no request: the READY line and noise.
LEMMA UnaskedPipes ==
    ASSUME TypeOK, TypeOK', SessionInv, PipeInv, ~dead,
           parser = "none", stdout # <<>>, stdout' = Tail(stdout),
           UNCHANGED <<adapter, serving, printed, reported, current, dead, begun, outcome>>,
           Head(stdout).kind = "ready" \/ ready' = ready,
           \/ UNCHANGED <<parser, received, stdin>>
           \/ current # NoRequest /\ ready' /\ SendCurrent(current)
    PROVE  PipeInv'
<1>1. /\ stdin = <<>> /\ adapter \notin Busy
      /\ \A i \in 1 .. Len(stdout) : stdout[i].of = NoRequest
      /\ \A r \in Request : r \notin begun \/ r = current =>
                               printed[r] = 0 /\ reported[r] = "none"
      /\ adapter \in {"none", "login"} =>
            ~ready /\ \A i \in 1 .. Len(stdout) : stdout[i].kind # "ready"
  BY DEF PipeInv, LiveInv
<1>2. /\ stdout \in Seq(Tokens) /\ adapter \in Phases
      /\ current \in Request \cup {NoRequest}
  BY DEF TypeOK, AdapterTypeOK
<1>3. /\ \A i \in 1 .. Len(stdout') : i + 1 \in 1 .. Len(stdout) /\ stdout'[i] = stdout[i + 1]
      /\ 1 \in 1 .. Len(stdout) /\ Head(stdout) = stdout[1]
  BY <1>2
<1>4. /\ \A i \in 1 .. Len(stdout') : stdout'[i].of = NoRequest
      /\ adapter \in {"none", "login"} =>
            ~ready' /\ \A i \in 1 .. Len(stdout') : stdout'[i].kind # "ready"
  BY <1>1, <1>3
<1>5. ResultIsOwn'
  BY OutcomeOwn DEF PipeInv
<1>6. CASE UNCHANGED <<parser, received, stdin>>
  <2>1. LiveInv'
    BY <1>1, <1>4, <1>6 DEF LiveInv
  <2>2. WorkInv'
    BY <1>1, <1>6 DEF WorkInv
  <2> QED BY <1>5, <2>1, <2>2 DEF PipeInv
<1>7. CASE current # NoRequest /\ ready' /\ SendCurrent(current)
  <2>1. PICK x \in Request : x = current
    BY <1>2, <1>7
  <2>2. /\ SendCurrent(x) /\ printed'[x] = 0 /\ reported'[x] = "none"
        /\ adapter' \in {"idle", "exited"}
    BY <1>1, <1>2, <1>4, <1>7, <2>1 DEF Phases
  <2>3. Streamed(x)' /\ stdin' = <<x>>
    BY <1>1, <1>4, <2>2, SendStreams
  <2>4. Streamed(current)' /\ parser' = "start"
    BY <2>1, <2>2, <2>3 DEF SendCurrent
  <2>5. LiveInv'
    BY <1>1, <1>7, <2>2, <2>4 DEF LiveInv
  <2>6. WorkInv'
    BY <1>1, <2>2, <2>3 DEF WorkInv
  <2> QED BY <1>5, <2>5, <2>6 DEF PipeInv
<1> QED BY <1>6, <1>7

\* The RESULT line.
LEMMA ResultPipes ==
    ASSUME TypeOK, TypeOK', SessionInv, PipeInv, StdoutResult
    PROVE  PipeInv'
<1>1. /\ ready /\ ~dead /\ parser = "result"
      /\ Pump(queue, timers \ {current})
      /\ UNCHANGED <<adapter, serving, printed, reported, ready>>
  BY DEF StdoutResult, Deliver
<1>2. PICK status \in Statuses :
         /\ Deliver(status)
         /\ IsMarker(Head(stdout), status)
         /\ outcome' = IF current \in cancelled THEN outcome
                       ELSE Settle({current},
                                   IF status = "OK" THEN Promise("resolved", received)
                                   ELSE Promise(status, <<>>), outcome)
  BY DEF StdoutResult
<1>3. PICK r \in Request : r = current
  BY <1>1 DEF SessionInv, QueueInv, TypeOK
<1>4. /\ Streamed(r) /\ adapter \in Phases
      /\ \A s \in Request : s \notin begun => printed[s] = 0 /\ reported[s] = "none"
      /\ adapter \notin {"none", "login"}
  <2>1. Streamed(current)
    BY <1>1 DEF PipeInv, LiveInv
  <2> QED BY <1>1, <1>3, <2>1 DEF PipeInv, LiveInv, TypeOK, AdapterTypeOK
<1>5. /\ reported[r] = status
      /\ received = [i \in 1 .. printed[r] |-> Token("row", r)]
      /\ stdout' = <<>> /\ stdin = <<>> /\ adapter \notin Busy
  BY <1>1, <1>2, <1>3, <1>4, ResultStreamed
<1>6. LiveInv' /\ WorkInv'
  <2>1. queue \in Seq(Request) /\ IsInjective(queue) /\ Range(queue) \cap begun = {}
    BY DEF SessionInv, QueueInv, TypeOK
  <2>2. /\ adapter' \notin Busy
        /\ ready => adapter' \in {"idle", "exited"}
        /\ adapter' \notin {"none", "login"}
        /\ \A i \in 1 .. Len(stdout') : stdout'[i].of = NoRequest
    BY <1>1, <1>4, <1>5 DEF Phases
  <2> QED BY <1>1, <1>4, <1>5, <2>1, <2>2, PumpPipes
<1>7. ResultIsOwn'
  <2>1. ASSUME NEW s \in Request
        PROVE  ResultIsOwn!(s)'
    <3>1. ResultIsOwn!(s)
      BY DEF PipeInv, ResultIsOwn
    <3>2. \/ outcome'[s] = outcome[s]
          \/ s = r /\ outcome'[s] = IF status = "OK" THEN Promise("resolved", received)
                                    ELSE Promise(status, <<>>)
      BY <1>2, <1>3 DEF Settle
    <3>3. CASE outcome'[s] = outcome[s]
      BY <1>1, <3>1, <3>3
    <3>4. CASE s = r /\ status = "OK" /\ outcome'[s] = Promise("resolved", received)
      BY <1>1, <1>5, <3>4 DEF Promise
    <3>5. CASE s = r /\ status # "OK" /\ outcome'[s] = Promise(status, <<>>)
      BY <1>1, <1>5, <3>5 DEF Promise, Statuses
    <3> QED BY <3>2, <3>3, <3>4, <3>5
  <2> QED BY <2>1 DEF ResultIsOwn
<1> QED BY <1>6, <1>7 DEF PipeInv

LEMMA StdoutPipes ==
    ASSUME TypeOK, TypeOK', SessionInv, PipeInv, StdoutStep
    PROVE  PipeInv'
<1>1. "runner" \in OtherReasons /\ "result_too_large" \in OtherReasons
  BY DEF OtherReasons
<1>2. CASE StdoutReady
  <2>1. /\ ~dead /\ ~ready /\ ready' /\ stdout # <<>> /\ stdout' = Tail(stdout)
        /\ Head(stdout).kind = "ready"
        /\ UNCHANGED <<adapter, serving, printed, reported, current, dead, begun, outcome>>
        /\ \/ UNCHANGED <<parser, received, stdin>>
           \/ current # NoRequest /\ SendCurrent(current)
    BY <1>2 DEF StdoutReady, Deliver, itemVars, historyVars
  <2>2. parser = "none"
    BY <2>1 DEF PipeInv, LiveInv
  <2> QED BY <2>1, <2>2, UnaskedPipes
<1>3. CASE StdoutBeforeReady
  <2>1. /\ ~dead /\ ~ready /\ stdout # <<>> /\ stdout' = Tail(stdout)
        /\ UNCHANGED <<adapter, serving, stdin, printed, reported, begun>>
        /\ UNCHANGED <<sessionVars, itemVars>> \/ Fail("runner")
    BY <1>3 DEF StdoutBeforeReady, Deliver, historyVars
  <2>2. parser = "none"
    BY <2>1 DEF PipeInv, LiveInv
  <2>3. CASE UNCHANGED <<sessionVars, itemVars>>
    <3>1. UNCHANGED <<current, dead, outcome, ready, parser, received>>
      BY <2>3 DEF sessionVars, itemVars
    <3> QED BY <2>1, <2>2, <3>1, UnaskedPipes
  <2> QED BY <1>1, <2>1, <2>3, FailPlainPipes
<1>4. CASE StdoutUnasked
  <2>1. /\ ~dead /\ parser = "none" /\ stdout # <<>> /\ stdout' = Tail(stdout)
        /\ UNCHANGED <<adapter, serving, stdin, printed, reported, begun>>
        /\ UNCHANGED <<sessionVars, itemVars>> \/ Fail("runner")
    BY <1>4 DEF StdoutUnasked, Deliver, historyVars
  <2>2. CASE UNCHANGED <<sessionVars, itemVars>>
    <3>1. UNCHANGED <<current, dead, outcome, ready, parser, received>>
      BY <2>2 DEF sessionVars, itemVars
    <3> QED BY <2>1, <3>1, UnaskedPipes
  <2> QED BY <1>1, <2>1, <2>2, FailPlainPipes
<1>5. CASE StdoutParsed
  <2>1. /\ ~dead /\ ready
        /\ UNCHANGED <<adapter, serving, stdin, printed, reported, current, ready,
                       dead, begun, outcome>>
    BY <1>5 DEF StdoutParsed, Deliver, itemVars, historyVars
  <2>2. parser # "none" /\ parser' # "none"
    BY <1>5 DEF StdoutParsed, ParserSkips, ParserEnters, ParserBuffers, ParserLeaves
  <2>3. PICK r \in Request : r = current
    BY <2>2 DEF SessionInv, QueueInv, TypeOK
  <2>4. Streamed(current)
    BY <2>1, <2>2 DEF PipeInv, LiveInv
  <2>5. Streamed(r)'
    BY <1>5, <2>2, <2>3, <2>4, ParserStreams
  <2>6. Streamed(current)'
    BY <2>1, <2>3, <2>5
  <2>7. LiveInv'
    BY <2>1, <2>2, <2>6 DEF PipeInv, LiveInv
  <2>8. WorkInv'
    BY <2>1 DEF PipeInv, WorkInv
  <2>9. ResultIsOwn'
    BY <2>1, OutcomeOwn DEF PipeInv
  <2> QED BY <2>7, <2>8, <2>9 DEF PipeInv
<1>6. CASE StdoutTooLarge
  BY <1>1, <1>6, FailPlainPipes DEF StdoutTooLarge
<1>7. CASE StdoutResult
  BY <1>7, ResultPipes
<1> QED BY <1>2, <1>3, <1>4, <1>5, <1>6, <1>7 DEF StdoutStep

LEMMA AdapterPipes ==
    ASSUME TypeOK, TypeOK', SessionInv, PipeInv, AdapterStep
    PROVE  PipeInv'
<1>1. /\ UNCHANGED <<current, parser, received, ready, dead, begun, outcome>>
      /\ stdin \in Seq(Request) /\ stdout \in Seq(Tokens)
      /\ printed \in [Request -> Nat] /\ reported \in [Request -> Statuses \cup {"none"}]
      /\ adapter \in Phases /\ (adapter \in Busy => serving \in Request)
  BY DEF AdapterStep, sessionVars, itemVars, historyVars, TypeOK, AdapterTypeOK
<1>2. /\ adapter \in Busy => stdin = <<>> /\ reported[serving] = "none"
      /\ \/ stdin = <<>>
         \/ \E x \in Request : stdin = <<x>> /\ printed[x] = 0 /\ reported[x] = "none"
  BY DEF PipeInv, WorkInv
\* What is printed and reported for other requests stays.
<1>3. \A r \in Request : adapter \notin Busy \/ r # serving =>
                            printed'[r] = printed[r] /\ reported'[r] = reported[r]
  BY <1>1 DEF AdapterStep, AdapterReady, AdapterLoginFails, AdapterReads, AdapterBegins,
     AdapterPrintsRow, AdapterEnds, AdapterReports, AdapterDrops, AdapterPrintsNoise,
     AdapterKilled, Busy
<1>4. ResultIsOwn'
  <2>1. ASSUME NEW r \in Request
        PROVE  ResultIsOwn!(r)'
    <3>1. ResultIsOwn!(r)
      BY DEF PipeInv, ResultIsOwn
    <3>2. CASE reported[r] = "none"
      BY <1>1, <3>1, <3>2
    <3>3. CASE reported[r] # "none"
      <4>1. printed'[r] = printed[r] /\ reported'[r] = reported[r]
        BY <1>2, <1>3, <3>3
      <4> QED BY <1>1, <3>1, <4>1
    <3> QED BY <3>2, <3>3
  <2> QED BY <2>1 DEF ResultIsOwn
<1>5. WorkInv'
  <2>1. CASE AdapterReads
    <3>1. PICK x \in Request : stdin = <<x>> /\ printed[x] = 0 /\ reported[x] = "none"
      BY <1>2, <2>1 DEF AdapterReads
    <3>2. stdin' = <<>> /\ serving' = x /\ reported' = reported
      BY <2>1, <3>1 DEF AdapterReads
    <3> QED BY <3>1, <3>2 DEF WorkInv
  <2>2. CASE adapter \in Busy /\ ~AdapterReads
    <3>1. stdin' = <<>> /\ (adapter' \in Busy => serving' = serving /\ reported' = reported)
      BY <1>2, <2>2 DEF AdapterStep, AdapterReady, AdapterLoginFails, AdapterBegins,
         AdapterPrintsRow, AdapterEnds, AdapterReports, AdapterDrops, AdapterPrintsNoise,
         AdapterKilled, Busy
    <3> QED BY <1>2, <2>2, <3>1 DEF WorkInv
  <2>3. CASE adapter \notin Busy /\ ~AdapterReads
    <3>1. stdin' = stdin /\ adapter' \notin Busy
      BY <2>3 DEF AdapterStep, AdapterReady, AdapterLoginFails, AdapterBegins,
         AdapterPrintsRow, AdapterEnds, AdapterReports, AdapterDrops, AdapterPrintsNoise,
         AdapterKilled, Busy
    <3> QED BY <1>2, <1>3, <2>3, <3>1 DEF WorkInv
  <2> QED BY <2>1, <2>2, <2>3
<1>6. ASSUME ~dead, parser = "none"
      PROVE  LiveInv'
  <2>1. /\ stdin = <<>> /\ adapter \notin Busy
        /\ \A i \in 1 .. Len(stdout) : stdout[i].of = NoRequest
        /\ \A r \in Request : r \notin begun \/ r = current =>
                                 printed[r] = 0 /\ reported[r] = "none"
        /\ adapter \in {"none", "login"} =>
              ~ready /\ \A i \in 1 .. Len(stdout) : stdout[i].kind # "ready"
    BY <1>6 DEF PipeInv, LiveInv
  <2>2. stdin' = <<>> /\ adapter' \notin Busy
    BY <2>1 DEF AdapterStep, AdapterReady, AdapterLoginFails, AdapterReads, AdapterBegins,
       AdapterPrintsRow, AdapterEnds, AdapterReports, AdapterDrops, AdapterPrintsNoise,
       AdapterKilled, Busy
  <2>3. \/ stdout' = stdout
        \/ stdout' = Append(stdout, Token("ready", NoRequest)) /\ adapter' = "idle"
        \/ stdout' = Append(stdout, Token("noise", NoRequest))
    BY <2>1 DEF AdapterStep, AdapterReady, AdapterLoginFails, AdapterReads, AdapterBegins,
       AdapterPrintsRow, AdapterEnds, AdapterReports, AdapterDrops, AdapterPrintsNoise,
       AdapterKilled, Busy, Puts
  <2>4. ASSUME NEW kind, stdout' = Append(stdout, Token(kind, NoRequest))
        PROVE  \A i \in 1 .. Len(stdout') :
                  \/ i \in 1 .. Len(stdout) /\ stdout'[i] = stdout[i]
                  \/ stdout'[i] = Token(kind, NoRequest)
    BY <1>1, <2>4
  <2>5. \A i \in 1 .. Len(stdout') : stdout'[i].of = NoRequest
    BY <2>1, <2>3, <2>4 DEF Token
  <2>6. adapter' \in {"none", "login"} => adapter \in {"none", "login"}
    BY <2>1 DEF AdapterStep, AdapterReady, AdapterLoginFails, AdapterReads, AdapterBegins,
       AdapterPrintsRow, AdapterEnds, AdapterReports, AdapterDrops, AdapterPrintsNoise,
       AdapterKilled, Busy
  <2>7. adapter' \in {"none", "login"} =>
           ~ready /\ \A i \in 1 .. Len(stdout') : stdout'[i].kind # "ready"
    BY <2>1, <2>3, <2>4, <2>6 DEF Token
  <2> QED BY <1>1, <1>3, <1>6, <2>1, <2>2, <2>5, <2>7 DEF LiveInv
<1>7. ASSUME ~dead, parser # "none"
      PROVE  LiveInv'
  <2>1. PICK r \in Request : r = current
    BY <1>7 DEF SessionInv, QueueInv, TypeOK
  <2>2. /\ ready /\ adapter \notin {"none", "login"}
        /\ \A s \in Request : s \notin begun => printed[s] = 0 /\ reported[s] = "none"
    BY <1>7 DEF PipeInv, LiveInv
  <2>3. Streamed(current)
    BY <1>7 DEF PipeInv, LiveInv
  <2>4. Streamed(r)
    BY <2>1, <2>3
  <2>5. Streamed(r)'
    BY <1>7, <2>2, <2>4, AdapterStreams
  <2>6. Streamed(current)'
    BY <1>1, <2>1, <2>5
  <2>7. adapter \in Busy => serving \in begun
    <3>1. adapter \in Busy => serving = r
      BY <2>4 DEF Streamed, Written
    <3>2. r \in begun
      BY <2>1, RequestAssumption DEF SessionInv, QueueInv
    <3> QED BY <3>1, <3>2
  <2>8. \A s \in Request : s \notin begun => printed'[s] = 0 /\ reported'[s] = "none"
    BY <1>3, <2>2, <2>7
  <2>9. adapter' \notin {"none", "login"}
    BY <2>2 DEF AdapterStep, AdapterReady, AdapterLoginFails, AdapterReads, AdapterBegins,
       AdapterPrintsRow, AdapterEnds, AdapterReports, AdapterDrops, AdapterPrintsNoise,
       AdapterKilled
  <2> QED BY <1>1, <1>7, <2>2, <2>6, <2>8, <2>9 DEF LiveInv
<1>8. dead => LiveInv'
  BY <1>1 DEF LiveInv
<1> QED BY <1>4, <1>5, <1>6, <1>7, <1>8 DEF PipeInv

LEMMA PipeInvInductive ==
    ASSUME TypeOK, TypeOK', SessionInv, PipeInv, [Next]_vars
    PROVE  PipeInv'
<1>1. ASSUME NEW r \in Request, Execute(r) \/ Abort(r) \/ Timeout(r)
      PROVE  PipeInv'
  BY <1>1, ExecutePipes, AbortPipes, TimeoutPipes
<1>2. CASE StdoutStep
  BY <1>2, StdoutPipes
<1>3. CASE ChildError
  BY <1>3, FailPlainPipes DEF ChildError, OtherReasons
<1>4. CASE ChildClose
  <2>1. ExitCategory(exitCode) \in OtherReasons
    <3>1. exitCode = 0 \/ exitCode = 10 \/ exitCode = 11 \/ exitCode = 14
      BY DEF TypeOK, AdapterTypeOK, ExitCodes
    <3>2. ExitCategory(exitCode) \in {"runner", "relay_login", "ssh", "timeout"}
      BY <3>1 DEF ExitCategory
    <3> QED BY <3>2 DEF OtherReasons
  <2>2. Fail(ExitCategory(exitCode)) /\ adapter' = adapter
        /\ UNCHANGED <<serving, stdin, printed, reported>>
    BY <1>4 DEF ChildClose, adapterVars
  <2> QED BY <2>1, <2>2, FailPlainPipes
<1>5. CASE CleanupIdle \/ ManagerClose
  <2>1. Fail("runner") /\ adapter' = adapter
        /\ UNCHANGED <<serving, stdin, printed, reported>> /\ "runner" \in OtherReasons
    BY <1>5 DEF CleanupIdle, ManagerClose, adapterVars, OtherReasons
  <2> QED BY <2>1, FailPlainPipes
<1>6. CASE Elapse \/ UNCHANGED vars
  <2>1. UNCHANGED <<adapter, serving, stdin, stdout, printed, reported, current,
                    parser, received, ready, dead, begun, outcome>>
    BY <1>6 DEF Elapse, vars, adapterVars, sessionVars, itemVars, historyVars
  <2>2. ResultIsOwn'
    BY <2>1, OutcomeOwn DEF PipeInv
  <2> QED BY <2>1, <2>2, QuietPipes DEF PipeInv
<1>7. CASE AdapterStep
  BY <1>7, AdapterPipes
<1> QED BY <1>1, <1>2, <1>3, <1>4, <1>5, <1>6, <1>7 DEF Next

\* A query is resolved with every piece of XML that MySQL printed for it and
\* with nothing else, whatever was run before it on the same session and
\* whoever was cancelled (persistent-session.js:131-145).
THEOREM ResultsAreOwn == Spec => []ResultIsOwn
<1>1. Init => PipeInv
  <2> SUFFICES ASSUME Init PROVE PipeInv
    OBVIOUS
  <2>1. /\ stdin = <<>> /\ stdout = <<>> /\ adapter = "none" /\ parser = "none" /\ ~ready
        /\ \A r \in Request : printed[r] = 0 /\ reported[r] = "none"
        /\ \A r \in Request : outcome[r] = Pending
    BY DEF Init, AdapterInit
  <2>2. LiveInv
    BY <2>1 DEF LiveInv, Busy
  <2>3. WorkInv
    BY <2>1 DEF WorkInv, Busy
  <2>4. ResultIsOwn
    <3>1. Pending.state = "pending"
      BY DEF Pending, Promise
    <3>2. \A r \in Request : outcome[r].state = "pending"
      BY <2>1, <3>1
    <3> QED BY <3>2 DEF ResultIsOwn
  <2> QED BY <2>2, <2>3, <2>4 DEF PipeInv
<1>2. TypeOK /\ TypeOK' /\ SessionInv /\ PipeInv /\ [Next]_vars => PipeInv'
  BY PipeInvInductive
<1>3. PipeInv => ResultIsOwn
  BY DEF PipeInv
<1> QED BY <1>1, <1>2, <1>3, TypeCorrect, SessionCorrect, PTL DEF Spec
=============================================================================
