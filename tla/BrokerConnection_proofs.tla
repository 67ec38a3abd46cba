---------------------- MODULE BrokerConnection_proofs ----------------------
(***************************************************************************)
(* What the runs of BrokerConnection check on three clients and two        *)
(* sessions, proved for any finite set of clients, any set of sessions and *)
(* any deadline and grace.                                                 *)
(***************************************************************************)
EXTENDS BrokerConnection, FiniteSetTheorems, SequenceTheorems, TLAPS

Results == {"ok", "sql_error", "runner", "timeout"}

\* What the broker keeps for its sessions, and what it and its clients keep
\* for the connections.
SessionsOK ==
    /\ sessionOf \in [Client -> Session]
    /\ open \subseteq Session
    /\ running \in [Session -> Client \cup {NoClient}]
    /\ waiting \in [Session -> Seq(Client)]
    /\ queued \subseteq Client
    /\ runAge \in [Client -> Nat]

WireOK ==
    /\ client \in [Client -> {"idle", "waiting", "settled"}]
    /\ answer \in [Client -> Results \cup {"none", "lost", "cancelled", "watchdog"}]
    /\ unread \subseteq Client /\ gone \subseteq Client
    /\ reply \in [Client -> Results \cup {"none"}]
    /\ conn \in [Client -> Connections]
    /\ active \in Int
    /\ broker \in {"up", "closing", "down"}
    /\ clientAge \in [Client -> Nat]

TypeOK == SessionsOK /\ WireOK

\* A session in service is open and serves queries of its own profile; one
\* that serves none has none waiting; a query is in one place of its queue and
\* has found the session busy.
QueueOK(s) ==
    /\ running[s] # NoClient => s \in open /\ sessionOf[running[s]] = s
    /\ running[s] = NoClient => waiting[s] = <<>>
    /\ \A i \in 1 .. Len(waiting[s]) :
          /\ sessionOf[waiting[s][i]] = s
          /\ waiting[s][i] # running[s]
          /\ waiting[s][i] \in queued
    /\ \A i, j \in 1 .. Len(waiting[s]) : waiting[s][i] = waiting[s][j] => i = j

QueueInv == \A s \in Session : QueueOK(s)

\* A client that has not begun has no connection; the backlog exists while the
\* broker listens.
ConnInv ==
    \A c \in Client :
       /\ client[c] = "idle" <=> conn[c] = "none"
       /\ conn[c] = "backlog" => broker = "up"

ServiceInv == TypeOK /\ QueueInv /\ ConnInv /\ HeldForSomeone

\* A client that waits has not left, and time passes for it only while its
\* query is in a session: as the current one from its start on, or behind
\* another one.
WaitsFairly(c) ==
    /\ c \notin gone
    /\ conn[c] \in {"backlog", "reading"} => c \in unread /\ clientAge[c] = 0
    /\ conn[c] = "responding" => reply[c] # "none"
    /\ conn[c] = "executing" /\ c \notin queued =>
          running[sessionOf[c]] = c /\ clientAge[c] <= runAge[c]
    /\ c \notin queued => clientAge[c] <= Deadline

WatchdogOK(c) ==
    /\ client[c] = "waiting" => WaitsFairly(c)
    /\ client[c] = "idle" => c \notin gone /\ clientAge[c] = 0
    /\ answer[c] = "watchdog" => c \in queued

WatchdogInv == \A c \in Client : WatchdogOK(c)
-----------------------------------------------------------------------------
(***************************************************************************)
(* The operators on queues.                                                *)
(***************************************************************************)
LEMMA AppendFacts ==
    ASSUME NEW S, NEW q \in Seq(S), NEW e \in S
    PROVE  /\ Append(q, e) \in Seq(S)
           /\ Append(q, e) # <<>>
           /\ Len(Append(q, e)) = Len(q) + 1
           /\ \A i \in 1 .. Len(q) : Append(q, e)[i] = q[i]
           /\ Append(q, e)[Len(q) + 1] = e
OBVIOUS

LEMMA TailFacts ==
    ASSUME NEW S, NEW q \in Seq(S), q # <<>>
    PROVE  /\ Head(q) \in S
           /\ Tail(q) \in Seq(S)
           /\ 1 \in 1 .. Len(q)
           /\ Head(q) = q[1]
           /\ Len(Tail(q)) = Len(q) - 1
           /\ \A i \in 1 .. Len(Tail(q)) : i + 1 \in 1 .. Len(q) /\ Tail(q)[i] = q[i + 1]
OBVIOUS

LEMMA WithoutFacts ==
    ASSUME NEW S, NEW q \in Seq(S), NEW i \in 1 .. Len(q)
    PROVE  /\ Without(q, i) \in Seq(S)
           /\ Len(Without(q, i)) = Len(q) - 1
           /\ \A j \in 1 .. Len(q) - 1 :
                 Without(q, i)[j] = IF j < i THEN q[j] ELSE q[j + 1]
<1>1. Len(q) \in Nat /\ Len(q) - 1 \in Nat
  BY LenProperties
<1>2. Without(q, i) \in [1 .. Len(q) - 1 -> S]
  BY <1>1 DEF Without
<1>3. Without(q, i) \in Seq(S)
  BY <1>1, <1>2, SeqDef
<1>4. Len(Without(q, i)) = Len(q) - 1
  BY <1>1, <1>2, <1>3
<1> QED BY <1>3, <1>4 DEF Without

\* A session holds its current query and those in its queue.
LEMMA HeldFacts ==
    ASSUME TypeOK, NEW s \in Session, NEW c \in Client
    PROVE  c \in Held(s) <=>
              \/ running[s] = c
              \/ \E i \in 1 .. Len(waiting[s]) : waiting[s][i] = c
<1>1. waiting[s] \in Seq(Client)
  BY DEF TypeOK, SessionsOK
<1>2. DOMAIN waiting[s] = 1 .. Len(waiting[s])
  BY <1>1
<1> QED BY <1>2, ConnectionAssumption DEF Held, Range

\* The same after a step.
LEMMA HeldFactsAfter ==
    ASSUME TypeOK', NEW s \in Session, NEW c \in Client
    PROVE  (c \in Held(s))' <=>
              \/ running'[s] = c
              \/ \E i \in 1 .. Len(waiting'[s]) : waiting'[s][i] = c
<1>1. waiting'[s] \in Seq(Client)
  BY DEF TypeOK, SessionsOK
<1>2. DOMAIN waiting'[s] = 1 .. Len(waiting'[s])
  BY <1>1
<1> QED BY <1>2, ConnectionAssumption DEF Held, Range

(***************************************************************************)
(* Types.                                                                  *)
(***************************************************************************)
LEMMA RespondType ==
    ASSUME NEW out, NEW result \in Results, NEW ends \in [Client -> Connections],
           reply \in [Client -> Results \cup {"none"}], Respond(out, result, ends)
    PROVE  /\ conn' \in [Client -> Connections]
           /\ reply' \in [Client -> Results \cup {"none"}]
<1>1. "responding" \in Connections
  BY DEF Connections
<1> QED BY <1>1 DEF Respond

LEMMA PumpType ==
    ASSUME SessionsOK, NEW s \in Session, NEW q \in Seq(Client), Pump(s, q),
           sessionOf' = sessionOf, open' \subseteq Session, queued' \subseteq Client
    PROVE  SessionsOK'
<1>1. CASE q = <<>>
  <2>1. running' = [running EXCEPT ![s] = NoClient] /\ waiting' = [waiting EXCEPT ![s] = q]
        /\ runAge' = runAge
    BY <1>1 DEF Pump
  <2> QED BY <2>1 DEF SessionsOK
<1>2. CASE q # <<>>
  <2>1. Head(q) \in Client /\ Tail(q) \in Seq(Client)
    BY <1>2, TailFacts
  <2>2. running' = [running EXCEPT ![s] = Head(q)] /\ waiting' = [waiting EXCEPT ![s] = Tail(q)]
        /\ runAge' = [runAge EXCEPT ![Head(q)] = 0]
    BY <1>2 DEF Pump
  <2> QED BY <2>1, <2>2 DEF SessionsOK
<1> QED BY <1>1, <1>2

LEMMA EndSessionsType ==
    ASSUME SessionsOK, NEW S, EndSessions(S)
    PROVE  SessionsOK'
<1>1. <<>> \in Seq(Client)
  OBVIOUS
<1> QED BY <1>1 DEF SessionsOK, EndSessions

LEMMA ExecuteType ==
    ASSUME TypeOK, NEW c \in Client, Execute(c)
    PROVE  TypeOK'
<1> DEFINE s == sessionOf[c]
<1>1. s \in Session /\ waiting[s] \in Seq(Client)
  BY DEF TypeOK, SessionsOK
<1>2. Append(waiting[s], c) \in Seq(Client)
  BY <1>1, AppendFacts
<1>3. open' \subseteq Session /\ sessionOf' = sessionOf
  BY <1>1 DEF Execute, TypeOK, SessionsOK
<1>4. SessionsOK'
  <2>1. CASE running[s] = NoClient
    <3>1. Pump(s, Append(waiting[s], c)) /\ queued' = queued
      BY <2>1 DEF Execute
    <3> HIDE DEF s
    <3> QED BY <3>1, <1>1, <1>2, <1>3, PumpType DEF TypeOK, SessionsOK
  <2>2. CASE running[s] # NoClient
    <3>1. /\ waiting' = [waiting EXCEPT ![s] = Append(waiting[s], c)]
          /\ queued' = queued \cup {c} /\ running' = running /\ runAge' = runAge
      BY <2>2 DEF Execute
    <3> HIDE DEF s
    <3> QED BY <3>1, <1>1, <1>2, <1>3 DEF TypeOK, SessionsOK
  <2> QED BY <2>1, <2>2
<1>5. WireOK'
  BY DEF Execute, ReadPacket, TypeOK, WireOK, Connections
<1> QED BY <1>4, <1>5 DEF TypeOK

LEMMA AbortType ==
    ASSUME TypeOK, NEW c \in Client, NEW ends \in [Client -> Connections],
           AbortQuery(c, ends)
    PROVE  /\ SessionsOK'
           /\ conn' \in [Client -> Connections]
           /\ reply' \in [Client -> Results \cup {"none"}]
<1> DEFINE s == sessionOf[c]
<1>1. s \in Session /\ waiting[s] \in Seq(Client)
  BY DEF TypeOK, SessionsOK
<1>2. CASE conn' = ends /\ UNCHANGED <<sessionVars, reply>>
  BY <1>2 DEF sessionVars, TypeOK, SessionsOK, WireOK
<1>3. CASE Respond(Held(s), "runner", ends) /\ EndSessions({s})
  BY <1>3, EndSessionsType, RespondType DEF TypeOK, WireOK, Results
<1>4. ASSUME NEW i \in DOMAIN waiting[s],
             waiting' = [waiting EXCEPT ![s] = Without(waiting[s], i)],
             conn' = ends, UNCHANGED <<sessionOf, open, running, runAge, queued, reply>>
      PROVE  SessionsOK' /\ conn' \in [Client -> Connections]
             /\ reply' \in [Client -> Results \cup {"none"}]
  <2>1. i \in 1 .. Len(waiting[s])
    BY <1>1
  <2>2. Without(waiting[s], i) \in Seq(Client)
    BY <1>1, <2>1, WithoutFacts
  <2> HIDE DEF s
  <2> QED BY <1>1, <1>4, <2>2 DEF TypeOK, SessionsOK, WireOK
<1> QED BY <1>2, <1>3, <1>4 DEF AbortQuery

\* The variables keep their types.
THEOREM ConnectionTypeCorrect == Spec => []TypeOK
<1>1. Init => TypeOK
  BY DEF Init, TypeOK, SessionsOK, WireOK, Results, Connections
<1>2. TypeOK /\ [Next]_vars => TypeOK'
  <2> SUFFICES ASSUME TypeOK, [Next]_vars PROVE TypeOK'
    OBVIOUS
  <2>1. ASSUME NEW c \in Client,
               \/ Run(c) \/ RunCancelled(c) \/ ClientReceives(c) \/ ClientLoses(c)
               \/ Cancel(c) \/ Watchdog(c)
        PROVE  TypeOK'
    <3>1. SessionsOK'
      BY <2>1 DEF TypeOK, SessionsOK, sessionVars, Run, RunCancelled, ClientReceives,
                  ClientLoses, Cancel, Watchdog
    <3>2. WireOK'
      <4> USE DEF TypeOK, WireOK, Settle
      <4>1. CASE Run(c) BY <4>1 DEF Run, Connections
      <4>2. CASE RunCancelled(c) BY <4>2 DEF RunCancelled, Connections
      <4>3. CASE ClientReceives(c) BY <4>3 DEF ClientReceives
      <4>4. CASE ClientLoses(c) BY <4>4 DEF ClientLoses
      <4>5. CASE Cancel(c) BY <4>5 DEF Cancel
      <4>6. CASE Watchdog(c) BY <4>6 DEF Watchdog
      <4> QED BY <2>1, <4>1, <4>2, <4>3, <4>4, <4>5, <4>6
    <3> QED BY <3>1, <3>2 DEF TypeOK
  <2>2. ASSUME NEW c \in Client, Accept(c) PROVE TypeOK'
    BY <2>2 DEF Accept, TypeOK, SessionsOK, WireOK, Connections, sessionVars, wireVars
  <2>3. ASSUME NEW c \in Client, Refuse(c) PROVE TypeOK'
    BY <2>3 DEF Refuse, ReadPacket, TypeOK, SessionsOK, WireOK, Connections, sessionVars,
                Results
  <2>4. ASSUME NEW c \in Client, Execute(c) PROVE TypeOK'
    BY <2>4, ExecuteType
  <2>5. ASSUME NEW c \in Client, SeeClose(c) PROVE TypeOK'
    <3>1. [conn EXCEPT ![c] = "closed"] \in [Client -> Connections]
      BY DEF TypeOK, WireOK, Connections
    <3>2. AbortQuery(c, [conn EXCEPT ![c] = "closed"])
      BY <2>5 DEF SeeClose
    <3>3. /\ SessionsOK'
          /\ conn' \in [Client -> Connections]
          /\ reply' \in [Client -> Results \cup {"none"}]
      BY <3>1, <3>2, AbortType
    <3>4. active' \in Int /\ unread' \subseteq Client
      BY <2>5 DEF SeeClose, TypeOK, WireOK
    <3>5. WireOK'
      BY <2>5, <3>3, <3>4 DEF SeeClose, TypeOK, WireOK
    <3> QED BY <3>3, <3>5 DEF TypeOK
  <2>6. ASSUME NEW c \in Client, WriteFails(c) PROVE TypeOK'
    <3>1. SessionsOK'
      BY <2>6, EndSessionsType DEF WriteFails, TypeOK
    <3>2. /\ conn' \in [Client -> Connections]
          /\ reply' \in [Client -> Results \cup {"none"}]
      BY <2>6 DEF WriteFails, TypeOK, WireOK, Connections
    <3> QED BY <2>6, <3>1, <3>2 DEF WriteFails, TypeOK, WireOK
  <2>7. ASSUME NEW s \in Session, QueryFinishes(s) PROVE TypeOK'
    <3>1. waiting[s] \in Seq(Client)
      BY DEF TypeOK, SessionsOK
    <3>2. SessionsOK'
      BY <2>7, <3>1, PumpType DEF QueryFinishes, TypeOK, SessionsOK
    <3>3. PICK result \in {"ok", "sql_error"} : Respond({running[s]}, result, conn)
      BY <2>7 DEF QueryFinishes
    <3>4. result \in Results
      BY DEF Results
    <3>5. conn' \in [Client -> Connections] /\ reply' \in [Client -> Results \cup {"none"}]
      BY <3>3, <3>4, RespondType DEF TypeOK, WireOK
    <3> QED BY <2>7, <3>2, <3>5 DEF QueryFinishes, TypeOK, WireOK
  <2>8. ASSUME NEW s \in Session, SessionFails(s) \/ SessionTimesOut(s) PROVE TypeOK'
    <3>1. SessionsOK'
      BY <2>8, EndSessionsType DEF SessionFails, SessionTimesOut, TypeOK
    <3>2. PICK result \in Results : Respond(Held(s), result, conn)
      BY <2>8 DEF SessionFails, SessionTimesOut, Results
    <3>3. conn' \in [Client -> Connections] /\ reply' \in [Client -> Results \cup {"none"}]
      BY <3>2, RespondType DEF TypeOK, WireOK
    <3> QED BY <2>8, <3>1, <3>3 DEF SessionFails, SessionTimesOut, TypeOK, WireOK
  <2>9. CASE Shutdown
    <3>1. SessionsOK'
      BY <2>9, EndSessionsType DEF Shutdown, TypeOK
    <3>2. [c \in Client |-> IF c \in Backlog THEN "closed" ELSE conn[c]]
             \in [Client -> Connections]
      BY DEF TypeOK, WireOK, Connections
    <3>3. conn' \in [Client -> Connections] /\ reply' \in [Client -> Results \cup {"none"}]
      BY <2>9, <3>2, RespondType DEF Shutdown, TypeOK, WireOK, Results
    <3> QED BY <2>9, <3>1, <3>3 DEF Shutdown, TypeOK, WireOK
  <2>10. CASE Exit
    BY <2>10, EndSessionsType DEF Exit, TypeOK, WireOK, wireVars
  <2>11. CASE Tick
    <3>1. clientAge' \in [Client -> Nat] /\ runAge' \in [Client -> Nat]
      BY <2>11 DEF Tick, TypeOK, SessionsOK, WireOK
    <3> QED BY <2>11, <3>1 DEF Tick, TypeOK, SessionsOK, WireOK, wireVars
  <2>12. CASE UNCHANGED vars
    BY <2>12 DEF vars, sessionVars, wireVars, TypeOK, SessionsOK, WireOK
  <2> QED BY <2>1, <2>2, <2>3, <2>4, <2>5, <2>6, <2>7, <2>8, <2>9, <2>10, <2>11, <2>12
          DEF Next, Sigterm, IdleShutdown
<1> QED BY <1>1, <1>2, PTL DEF Spec
-----------------------------------------------------------------------------
(***************************************************************************)
(* The order of service.                                                   *)
(***************************************************************************)
\* When sessions end, nothing is left of them and the others go on.
LEMMA EndSessionsFacts ==
    ASSUME TypeOK, QueueInv, NEW S, EndSessions(S)
    PROVE  /\ QueueInv'
           /\ \A s \in Session \ S : running'[s] = running[s] /\ waiting'[s] = waiting[s]
           /\ \A s \in Session \cap S : running'[s] = NoClient /\ waiting'[s] = <<>>
<1>1. \A s \in Session \ S : running'[s] = running[s] /\ waiting'[s] = waiting[s]
  BY DEF EndSessions
<1>2. \A s \in Session \cap S : running'[s] = NoClient /\ waiting'[s] = <<>>
  BY DEF EndSessions
<1>3. ASSUME NEW s \in Session PROVE QueueOK(s)'
  <2>1. CASE s \in S
    BY <1>2, <2>1 DEF QueueOK
  <2>2. CASE s \notin S
    <3>1. QueueOK(s) /\ running'[s] = running[s] /\ waiting'[s] = waiting[s]
      BY <1>1, <2>2 DEF QueueInv
    <3>2. sessionOf' = sessionOf /\ queued' = queued /\ (s \in open => s \in open')
      BY <2>2 DEF EndSessions
    <3> QED BY <3>1, <3>2 DEF QueueOK
  <2> QED BY <2>1, <2>2
<1> QED BY <1>1, <1>2, <1>3 DEF QueueInv

\* The first of the queue becomes the current query.
LEMMA PumpFacts ==
    ASSUME TypeOK, QueueInv, NEW s \in Session, Pump(s, waiting[s]),
           UNCHANGED <<sessionOf, open, queued>>
    PROVE  /\ QueueInv'
           /\ \A t \in Session \ {s} : running'[t] = running[t] /\ waiting'[t] = waiting[t]
           /\ waiting[s] = <<>> => running'[s] = NoClient /\ waiting'[s] = <<>>
           /\ waiting[s] # <<>> => /\ running'[s] = waiting[s][1]
                                   /\ waiting'[s] = Tail(waiting[s])
<1>1. waiting[s] \in Seq(Client) /\ running \in [Session -> Client \cup {NoClient}]
      /\ waiting \in [Session -> Seq(Client)]
  BY DEF TypeOK, SessionsOK
<1>2. \A t \in Session \ {s} : running'[t] = running[t] /\ waiting'[t] = waiting[t]
  BY <1>1 DEF Pump
<1>3. waiting[s] = <<>> => running'[s] = NoClient /\ waiting'[s] = <<>>
  BY <1>1 DEF Pump
<1>4. waiting[s] # <<>> => running'[s] = waiting[s][1] /\ waiting'[s] = Tail(waiting[s])
  BY <1>1, TailFacts DEF Pump
<1>5. ASSUME NEW t \in Session, t # s PROVE QueueOK(t)'
  <2>1. QueueOK(t) /\ running'[t] = running[t] /\ waiting'[t] = waiting[t]
    BY <1>2, <1>5 DEF QueueInv
  <2> QED BY <2>1 DEF QueueOK
<1>6. CASE waiting[s] = <<>>
  <2>1. running'[s] = NoClient /\ waiting'[s] = <<>>
    BY <1>3, <1>6
  <2>2. QueueOK(s)'
    BY <2>1 DEF QueueOK
  <2> QED BY <1>2, <1>3, <1>4, <1>5, <2>2 DEF QueueInv
<1>7. CASE waiting[s] # <<>>
  <2> DEFINE q == waiting[s]
  <2>1. running'[s] = q[1] /\ waiting'[s] = Tail(q)
    BY <1>4, <1>7
  <2>2. /\ 1 \in 1 .. Len(q)
        /\ \A i \in 1 .. Len(Tail(q)) : i + 1 \in 1 .. Len(q) /\ Tail(q)[i] = q[i + 1]
    BY <1>1, <1>7, TailFacts
  <2>3. QueueOK(s)
    BY DEF QueueInv
  <2>4. q[1] # NoClient /\ running[s] # NoClient
    BY <1>1, <1>7, <2>2, <2>3, ConnectionAssumption DEF QueueOK
  <2> HIDE DEF q
  <2>5. /\ s \in open /\ sessionOf[q[1]] = s
        /\ \A i \in 1 .. Len(Tail(q)) : /\ sessionOf[Tail(q)[i]] = s
                                        /\ Tail(q)[i] # q[1]
                                        /\ Tail(q)[i] \in queued
        /\ \A i, j \in 1 .. Len(Tail(q)) : Tail(q)[i] = Tail(q)[j] => i = j
    <3>1. /\ s \in open /\ sessionOf[q[1]] = s
          /\ \A i \in 1 .. Len(q) : sessionOf[q[i]] = s /\ q[i] \in queued
          /\ \A i, j \in 1 .. Len(q) : q[i] = q[j] => i = j
      BY <2>2, <2>3, <2>4 DEF QueueOK, q
    <3>2. \A i \in 1 .. Len(Tail(q)) : i \in Nat \ {0}
      OBVIOUS
    <3> QED BY <3>1, <3>2, <2>2
  <2>6. QueueOK(s)'
    BY <2>1, <2>4, <2>5 DEF QueueOK
  <2> QED BY <1>2, <1>3, <1>4, <1>5, <2>6 DEF QueueInv
<1> QED BY <1>6, <1>7

\* A query that was read joins the queue of its session, or becomes the
\* current one at once.
LEMMA ExecuteFacts ==
    ASSUME ServiceInv, NEW c \in Client, Execute(c)
    PROVE  LET s == sessionOf[c]
           IN  /\ QueueInv'
               /\ \A t \in Session \ {s} : running'[t] = running[t] /\ waiting'[t] = waiting[t]
               /\ \/ /\ running[s] = NoClient /\ waiting[s] = <<>>
                     /\ running'[s] = c /\ waiting'[s] = <<>>
                     /\ queued' = queued /\ runAge' = [runAge EXCEPT ![c] = 0]
                  \/ /\ running[s] # NoClient
                     /\ running'[s] = running[s] /\ waiting'[s] = Append(waiting[s], c)
                     /\ queued' = queued \cup {c} /\ runAge' = runAge
<1> DEFINE s == sessionOf[c]
<1>1. /\ s \in Session /\ c # NoClient /\ waiting[s] \in Seq(Client)
      /\ running \in [Session -> Client \cup {NoClient}]
      /\ waiting \in [Session -> Seq(Client)]
  BY ConnectionAssumption DEF ServiceInv, TypeOK, SessionsOK
<1>2. QueueOK(s) /\ TypeOK /\ QueueInv
  BY <1>1 DEF ServiceInv, QueueInv
<1>3. open' = open \cup {s} /\ sessionOf' = sessionOf
  BY DEF Execute
<1>4. c \notin Held(s)
  BY DEF Execute, ReadPacket, ServiceInv, HeldForSomeone
<1>5. running[s] # c /\ \A i \in 1 .. Len(waiting[s]) : waiting[s][i] # c
  BY <1>1, <1>2, <1>4, HeldFacts
<1>6. CASE running[s] = NoClient
  <2>1. waiting[s] = <<>>
    BY <1>2, <1>6 DEF QueueOK
  <2>2. Pump(s, Append(waiting[s], c)) /\ queued' = queued
    BY <1>6 DEF Execute
  <2>3. Append(waiting[s], c) = <<c>> /\ <<c>> # <<>> /\ Head(<<c>>) = c /\ Tail(<<c>>) = <<>>
    BY <2>1
  <2>4. /\ running' = [running EXCEPT ![s] = c]
        /\ waiting' = [waiting EXCEPT ![s] = <<>>]
        /\ runAge' = [runAge EXCEPT ![c] = 0]
    BY <2>2, <2>3 DEF Pump
  <2>5. ASSUME NEW t \in Session PROVE QueueOK(t)'
    <3>1. CASE t = s
      <4> HIDE DEF s
      <4>1. running'[s] = c /\ waiting'[s] = <<>>
        BY <2>4, <1>1
      <4>2. sessionOf'[c] = s
        BY <1>3 DEF s
      <4> QED BY <3>1, <4>1, <4>2, <1>3 DEF QueueOK
    <3>2. CASE t # s
      <4>1. QueueOK(t) /\ running'[t] = running[t] /\ waiting'[t] = waiting[t]
        BY <2>4, <3>2, <1>1, <1>2 DEF QueueInv
      <4> QED BY <4>1, <1>3, <2>2 DEF QueueOK
    <3> QED BY <3>1, <3>2
  <2> QED BY <1>1, <1>6, <2>1, <2>2, <2>4, <2>5 DEF QueueInv
<1>7. CASE running[s] # NoClient
  <2>1. /\ waiting' = [waiting EXCEPT ![s] = Append(waiting[s], c)]
        /\ queued' = queued \cup {c} /\ running' = running /\ runAge' = runAge
    BY <1>7 DEF Execute
  <2>2. ASSUME NEW t \in Session PROVE QueueOK(t)'
    <3>1. CASE t = s
      <4> DEFINE q == waiting[s]
      <4>1. /\ Len(Append(q, c)) = Len(q) + 1 /\ Len(q) \in Nat
            /\ \A i \in 1 .. Len(q) : Append(q, c)[i] = q[i]
            /\ Append(q, c)[Len(q) + 1] = c
        BY <1>1, AppendFacts
      <4>2. waiting'[s] = Append(q, c) /\ running'[s] = running[s]
        BY <1>1, <2>1
      <4>3. /\ s \in open /\ sessionOf[running[s]] = s
            /\ \A i \in 1 .. Len(q) : sessionOf[q[i]] = s /\ q[i] # running[s] /\ q[i] \in queued
            /\ \A i, j \in 1 .. Len(q) : q[i] = q[j] => i = j
        BY <1>2, <1>7 DEF QueueOK
      <4>4. sessionOf[c] = s /\ running[s] # c /\ \A i \in 1 .. Len(q) : q[i] # c
        BY <1>5
      <4> HIDE DEF q, s
      <4>5. /\ \A i \in 1 .. Len(Append(q, c)) : /\ sessionOf[Append(q, c)[i]] = s
                                                 /\ Append(q, c)[i] # running[s]
                                                 /\ Append(q, c)[i] \in queued'
            /\ \A i, j \in 1 .. Len(Append(q, c)) : Append(q, c)[i] = Append(q, c)[j] => i = j
        <5>1. \A i \in 1 .. Len(Append(q, c)) : i \in 1 .. Len(q) \/ i = Len(q) + 1
          BY <4>1
        <5>2. c \in queued' /\ queued \subseteq queued'
          BY <2>1
        <5> QED BY <4>1, <4>3, <4>4, <5>1, <5>2
      <4> QED BY <3>1, <4>2, <4>3, <4>5, <1>3, <1>7 DEF QueueOK
    <3>2. CASE t # s
      <4>1. QueueOK(t) /\ running'[t] = running[t] /\ waiting'[t] = waiting[t]
        BY <2>1, <3>2, <1>1, <1>2 DEF QueueInv
      <4> QED BY <4>1, <1>3, <2>1 DEF QueueOK
    <3> QED BY <3>1, <3>2
  <2> QED BY <1>1, <1>7, <2>1, <2>2 DEF QueueInv
<1> QED BY <1>6, <1>7

\* A query that waits leaves the queue.
LEMMA DropFacts ==
    ASSUME TypeOK, QueueInv, NEW s \in Session, NEW i \in 1 .. Len(waiting[s]),
           waiting' = [waiting EXCEPT ![s] = Without(waiting[s], i)],
           UNCHANGED <<sessionOf, open, running, queued>>
    PROVE  /\ QueueInv'
           /\ \A k \in 1 .. Len(waiting'[s]) : waiting'[s][k] # waiting[s][i]
           /\ \A k \in 1 .. Len(waiting[s]) : k # i =>
                 \E j \in 1 .. Len(waiting'[s]) : waiting'[s][j] = waiting[s][k]
           /\ \A j \in 1 .. Len(waiting'[s]) :
                 \E k \in 1 .. Len(waiting[s]) : waiting'[s][j] = waiting[s][k]
           /\ \A t \in Session \ {s} : waiting'[t] = waiting[t]
<1> DEFINE q == waiting[s]
           r == Without(q, i)
<1>1. q \in Seq(Client) /\ waiting \in [Session -> Seq(Client)] /\ Len(q) \in Nat
  BY DEF TypeOK, SessionsOK
<1>2. /\ Len(r) = Len(q) - 1
      /\ \A j \in 1 .. Len(q) - 1 : r[j] = IF j < i THEN q[j] ELSE q[j + 1]
  BY <1>1, WithoutFacts
<1>3. waiting'[s] = r /\ \A t \in Session \ {s} : waiting'[t] = waiting[t]
  BY <1>1
<1>4. QueueOK(s)
  BY DEF QueueInv
<1>5. i \in 1 .. Len(q)
  OBVIOUS
<1>6. \A j, k \in 1 .. Len(q) : q[j] = q[k] => j = k
  BY <1>4 DEF QueueOK
<1> HIDE DEF q, r
<1>7. \A k \in 1 .. Len(r) : r[k] # q[i]
  BY <1>1, <1>2, <1>5, <1>6
<1>8. ASSUME NEW k \in 1 .. Len(q), k # i
      PROVE  \E j \in 1 .. Len(r) : r[j] = q[k]
  <2>1. CASE k < i
    <3>1. k \in 1 .. Len(r) /\ r[k] = q[k]
      BY <1>1, <1>2, <1>5, <2>1
    <3> QED BY <3>1
  <2>2. CASE k > i
    <3>1. k - 1 \in 1 .. Len(r) /\ ~(k - 1 < i) /\ (k - 1) + 1 = k
      BY <1>1, <1>2, <1>5, <2>2
    <3>2. r[k - 1] = q[k]
      BY <1>1, <1>2, <3>1
    <3> QED BY <3>1, <3>2
  <2> QED BY <1>1, <1>5, <1>8, <2>1, <2>2
<1>9. ASSUME NEW j \in 1 .. Len(r)
      PROVE  \E k \in 1 .. Len(q) : r[j] = q[k]
  <2>1. j \in 1 .. Len(q) /\ j + 1 \in 1 .. Len(q)
    BY <1>1, <1>2
  <2> QED BY <1>1, <1>2, <2>1
<1>10. \A j, k \in 1 .. Len(r) : r[j] = r[k] => j = k
  <2> SUFFICES ASSUME NEW j \in 1 .. Len(r), NEW k \in 1 .. Len(r), r[j] = r[k], j < k
               PROVE  FALSE
    BY <1>1, <1>2
  <2>1. /\ j \in 1 .. Len(q) /\ j + 1 \in 1 .. Len(q)
        /\ k \in 1 .. Len(q) /\ k + 1 \in 1 .. Len(q)
    BY <1>1, <1>2
  <2>2. r[j] = q[j] \/ (r[j] = q[j + 1] /\ ~(j < i))
    BY <1>1, <1>2
  <2>3. (r[k] = q[k] /\ k < i) \/ r[k] = q[k + 1]
    BY <1>1, <1>2
  <2> QED BY <1>5, <1>6, <2>1, <2>2, <2>3
<1>11. QueueOK(s)'
  <2>1. /\ \A j \in 1 .. Len(q) : sessionOf[q[j]] = s /\ q[j] # running[s] /\ q[j] \in queued
        /\ running[s] # NoClient => s \in open /\ sessionOf[running[s]] = s
        /\ running[s] # NoClient
    <3>1. q # <<>>
      BY <1>1, <1>5
    <3> QED BY <1>4, <3>1 DEF QueueOK, q
  <2>2. \A j \in 1 .. Len(r) : sessionOf[r[j]] = s /\ r[j] # running[s] /\ r[j] \in queued
    BY <1>9, <2>1
  <2> QED BY <1>3, <1>10, <2>1, <2>2 DEF QueueOK
<1>12. ASSUME NEW t \in Session, t # s PROVE QueueOK(t)'
  <2>1. QueueOK(t) /\ waiting'[t] = waiting[t]
    BY <1>3, <1>12 DEF QueueInv
  <2> QED BY <2>1 DEF QueueOK
<1>13. QueueInv'
  BY <1>11, <1>12 DEF QueueInv
<1> QED BY <1>3, <1>7, <1>8, <1>9, <1>13 DEF q
-----------------------------------------------------------------------------
(***************************************************************************)
(* The connections and their count.                                        *)
(***************************************************************************)
LEMMA RespondFacts ==
    ASSUME NEW out, NEW result, NEW ends \in [Client -> Connections],
           Respond(out, result, ends), NEW c \in Client
    PROVE  /\ c \in out /\ ends[c] = "executing" =>
                 conn'[c] = "responding" /\ reply'[c] = result
           /\ ~(c \in out /\ ends[c] = "executing") =>
                 conn'[c] = ends[c] /\ reply'[c] = reply[c]
BY DEF Respond

\* A query that is aborted may take others with it, which are answered.
LEMMA AbortFacts ==
    ASSUME NEW c \in Client, NEW ends \in [Client -> Connections], AbortQuery(c, ends)
    PROVE  \A d \in Client : \/ conn'[d] = ends[d]
                             \/ ends[d] = "executing" /\ conn'[d] = "responding"
BY RespondFacts DEF AbortQuery

LEMMA ConnStep ==
    ASSUME TypeOK, ConnInv, Next
    PROVE  ConnInv'
<1> USE DEF ConnInv
<1> SUFFICES ASSUME NEW d \in Client
             PROVE  /\ client'[d] = "idle" <=> conn'[d] = "none"
                    /\ conn'[d] = "backlog" => broker' = "up"
  OBVIOUS
<1>0. conn \in [Client -> Connections] /\ client[d] \in {"idle", "waiting", "settled"}
      /\ client \in [Client -> {"idle", "waiting", "settled"}]
  BY DEF TypeOK, WireOK
<1>1. ASSUME NEW c \in Client, Run(c) \/ RunCancelled(c) PROVE ConnInv'
  BY <1>0, <1>1 DEF Run, RunCancelled
<1>2. ASSUME NEW c \in Client,
             ClientReceives(c) \/ ClientLoses(c) \/ Cancel(c) \/ Watchdog(c)
      PROVE  ConnInv'
  BY <1>0, <1>2 DEF ClientReceives, ClientLoses, Cancel, Watchdog, Settle
<1>3. ASSUME NEW c \in Client, Accept(c) \/ Refuse(c) \/ Execute(c) PROVE ConnInv'
  BY <1>0, <1>3 DEF Accept, Refuse, Execute, ReadPacket
<1>4. ASSUME NEW c \in Client, SeeClose(c) PROVE ConnInv'
  <2>1. [conn EXCEPT ![c] = "closed"] \in [Client -> Connections]
    BY <1>0 DEF Connections
  <2>2. conn[c] # "none" /\ AbortQuery(c, [conn EXCEPT ![c] = "closed"])
        /\ UNCHANGED <<client, broker>>
    BY <1>4 DEF SeeClose, Counted
  <2>3. \A e \in Client :
           \/ conn'[e] = [conn EXCEPT ![c] = "closed"][e]
           \/ [conn EXCEPT ![c] = "closed"][e] = "executing" /\ conn'[e] = "responding"
    BY <2>1, <2>2, AbortFacts
  <2>4. \A e \in Client : \/ e = c /\ conn'[e] \in {"closed"}
                          \/ conn'[e] = conn[e]
                          \/ conn[e] = "executing" /\ conn'[e] = "responding"
    BY <1>0, <2>3
  <2> QED BY <2>2, <2>4
<1>5. ASSUME NEW c \in Client, WriteFails(c) PROVE ConnInv'
  BY <1>5 DEF WriteFails
<1>6. ASSUME NEW s \in Session, QueryFinishes(s) \/ SessionFails(s) \/ SessionTimesOut(s)
      PROVE  ConnInv'
  <2>1. PICK out, result : Respond(out, result, conn)
    BY <1>6 DEF QueryFinishes, SessionFails, SessionTimesOut
  <2>2. \A e \in Client : conn'[e] = conn[e] \/ (conn[e] = "executing" /\ conn'[e] = "responding")
    BY <1>0, <2>1, RespondFacts
  <2>3. UNCHANGED <<client, broker>>
    BY <1>6 DEF QueryFinishes, SessionFails, SessionTimesOut
  <2> QED BY <2>2, <2>3
<1>7. CASE Shutdown
  <2> DEFINE ends == [c \in Client |-> IF c \in Backlog THEN "closed" ELSE conn[c]]
  <2>1. ends \in [Client -> Connections]
    BY <1>0 DEF Connections
  <2>2. PICK out, result : Respond(out, result, ends)
    BY <1>7 DEF Shutdown
  <2>3. \A e \in Client : conn'[e] = ends[e] \/ (ends[e] = "executing" /\ conn'[e] = "responding")
    BY <2>1, <2>2, RespondFacts
  <2>4. \A e \in Client : conn'[e] # "backlog" /\ (conn'[e] = "none" <=> conn[e] = "none")
    BY <2>3 DEF Backlog
  <2>5. client' = client
    BY <1>7 DEF Shutdown
  <2> QED BY <2>4, <2>5
<1>8. CASE Exit
  BY <1>8 DEF Exit
<1>9. CASE Tick
  BY <1>9 DEF Tick
<1> QED BY <1>1, <1>2, <1>3, <1>4, <1>5, <1>6, <1>7, <1>8, <1>9
        DEF Next, Sigterm, IdleShutdown

OpenConnections == {c \in Client : Counted(c)}

LEMMA CountKept ==
    ASSUME CountIsExact, active' = active,
           \A c \in Client : Counted(c)' <=> Counted(c)
    PROVE  CountIsExact'
<1>1. OpenConnections' = OpenConnections
  BY DEF OpenConnections
<1> QED BY <1>1 DEF CountIsExact, OpenConnections

LEMMA CountStep ==
    ASSUME TypeOK, ConnInv, CountIsExact, Next
    PROVE  CountIsExact'
<1>0. conn \in [Client -> Connections]
  BY DEF TypeOK, WireOK
<1>a. IsFiniteSet(OpenConnections) /\ active = Cardinality(OpenConnections)
  BY ConnectionAssumption, FS_Subset DEF OpenConnections, CountIsExact
<1>b. active' = Cardinality(OpenConnections') => CountIsExact'
  BY DEF OpenConnections, CountIsExact
<1>1. ASSUME NEW c \in Client, Run(c) \/ RunCancelled(c) PROVE CountIsExact'
  <2>1. conn[c] = "none" /\ conn' = [conn EXCEPT ![c] = "backlog"] /\ active' = active
    BY <1>1 DEF Run, RunCancelled, ConnInv
  <2>2. \A d \in Client : Counted(d)' <=> Counted(d)
    BY <1>0, <2>1 DEF Counted
  <2> QED BY <2>1, <2>2, CountKept
<1>2. ASSUME NEW c \in Client,
             ClientReceives(c) \/ ClientLoses(c) \/ Cancel(c) \/ Watchdog(c)
      PROVE  CountIsExact'
  BY <1>2, CountKept DEF ClientReceives, ClientLoses, Cancel, Watchdog, Counted
<1>3. ASSUME NEW c \in Client, Accept(c) PROVE CountIsExact'
  <2>1. conn[c] = "backlog" /\ conn' = [conn EXCEPT ![c] = "reading"] /\ active' = active + 1
    BY <1>3 DEF Accept
  <2>2. c \notin OpenConnections /\ OpenConnections' = OpenConnections \cup {c}
    BY <1>0, <2>1 DEF OpenConnections, Counted
  <2> QED BY <1>a, <1>b, <2>1, <2>2, FS_AddElement
<1>4. ASSUME NEW c \in Client, Refuse(c) \/ Execute(c) PROVE CountIsExact'
  <2>1. PICK next \in {"responding", "executing"} : conn' = [conn EXCEPT ![c] = next]
    BY <1>4 DEF Refuse, Execute
  <2>2. conn[c] = "reading" /\ active' = active
    BY <1>4 DEF Refuse, Execute, ReadPacket
  <2>3. \A d \in Client : Counted(d)' <=> Counted(d)
    BY <1>0, <2>1, <2>2 DEF Counted
  <2> QED BY <2>2, <2>3, CountKept
<1>5. ASSUME NEW c \in Client, SeeClose(c) PROVE CountIsExact'
  <2>1. [conn EXCEPT ![c] = "closed"] \in [Client -> Connections]
    BY <1>0 DEF Connections
  <2>2. Counted(c) /\ AbortQuery(c, [conn EXCEPT ![c] = "closed"]) /\ active' = active - 1
    BY <1>5 DEF SeeClose
  <2>3. \A d \in Client :
           \/ conn'[d] = [conn EXCEPT ![c] = "closed"][d]
           \/ [conn EXCEPT ![c] = "closed"][d] = "executing" /\ conn'[d] = "responding"
    BY <2>1, <2>2, AbortFacts
  <2>4. conn'[c] = "closed" /\ \A d \in Client \ {c} : Counted(d)' <=> Counted(d)
    BY <1>0, <2>3 DEF Counted
  <2>5. c \in OpenConnections /\ OpenConnections' = OpenConnections \ {c}
    BY <2>2, <2>4 DEF OpenConnections, Counted
  <2> QED BY <1>a, <1>b, <2>2, <2>5, FS_RemoveElement
<1>6. ASSUME NEW c \in Client, WriteFails(c) PROVE CountIsExact'
  <2>1. active' = 0 /\ \A d \in Client : conn'[d] \in {"none", "closed"}
    BY <1>6 DEF WriteFails
  <2>2. OpenConnections' = {}
    BY <2>1 DEF OpenConnections, Counted
  <2> QED BY <1>b, <2>1, <2>2, FS_EmptySet
<1>7. ASSUME NEW s \in Session, QueryFinishes(s) \/ SessionFails(s) \/ SessionTimesOut(s)
      PROVE  CountIsExact'
  <2>1. PICK out, result : Respond(out, result, conn)
    BY <1>7 DEF QueryFinishes, SessionFails, SessionTimesOut
  <2>2. \A d \in Client : conn'[d] = conn[d] \/ (conn[d] = "executing" /\ conn'[d] = "responding")
    BY <1>0, <2>1, RespondFacts
  <2>3. active' = active
    BY <1>7 DEF QueryFinishes, SessionFails, SessionTimesOut
  <2> QED BY <2>2, <2>3, CountKept DEF Counted
<1>8. CASE Shutdown
  <2> DEFINE ends == [c \in Client |-> IF c \in Backlog THEN "closed" ELSE conn[c]]
  <2>1. ends \in [Client -> Connections]
    BY <1>0 DEF Connections
  <2>2. PICK out, result : Respond(out, result, ends)
    BY <1>8 DEF Shutdown
  <2>3. \A d \in Client : conn'[d] = ends[d] \/ (ends[d] = "executing" /\ conn'[d] = "responding")
    BY <2>1, <2>2, RespondFacts
  <2>4. \A d \in Client : Counted(d)' <=> Counted(d)
    BY <2>3 DEF Backlog, Counted
  <2>5. active' = active
    BY <1>8 DEF Shutdown
  <2> QED BY <2>4, <2>5, CountKept
<1>9. CASE Exit
  BY <1>9, CountKept DEF Exit, Counted
<1>10. CASE Tick
  BY <1>10, CountKept DEF Tick, Counted
<1> QED BY <1>1, <1>2, <1>3, <1>4, <1>5, <1>6, <1>7, <1>8, <1>9, <1>10
        DEF Next, Sigterm, IdleShutdown

\* The broker counts exactly the connections that are open at its end, for any
\* finite set of clients, so neither its idle check nor its exit stops it while
\* one is being served.
THEOREM ConnectionsAreCounted == Spec => []CountIsExact
<1>1. Init => ConnInv /\ CountIsExact
  <2>1. Init => ConnInv
    BY DEF Init, ConnInv
  <2>2. Init => OpenConnections = {} /\ active = 0
    BY DEF Init, OpenConnections, Counted
  <2> QED BY <2>1, <2>2, FS_EmptySet DEF CountIsExact, OpenConnections
<1>2. TypeOK /\ ConnInv /\ CountIsExact /\ [Next]_vars => ConnInv' /\ CountIsExact'
  <2> SUFFICES ASSUME TypeOK, ConnInv, CountIsExact, [Next]_vars
               PROVE  ConnInv' /\ CountIsExact'
    OBVIOUS
  <2>1. CASE Next
    BY <2>1, ConnStep, CountStep
  <2>2. CASE UNCHANGED vars
    <3>1. UNCHANGED <<client, conn, active, broker>>
      BY <2>2 DEF vars
    <3> QED BY <3>1, CountKept DEF ConnInv, Counted
  <2> QED BY <2>1, <2>2
<1> QED BY <1>1, <1>2, ConnectionTypeCorrect, PTL DEF Spec
-----------------------------------------------------------------------------
(***************************************************************************)
(* Who is held.                                                            *)
(***************************************************************************)
\* A query is held by the session of its profile or by none.
LEMMA HeldByOwn ==
    ASSUME TypeOK, QueueInv, NEW s \in Session, NEW c \in Client, c \in Held(s)
    PROVE  sessionOf[c] = s /\ s \in open
<1>1. QueueOK(s) /\ c # NoClient
  BY ConnectionAssumption DEF QueueInv
<1>2. CASE running[s] = c
  BY <1>1, <1>2 DEF QueueOK
<1>3. CASE \E i \in 1 .. Len(waiting[s]) : waiting[s][i] = c
  <2>1. waiting[s] # <<>>
    BY <1>3 DEF TypeOK, SessionsOK
  <2> QED BY <1>1, <1>3, <2>1 DEF QueueOK
<1> QED BY <1>2, <1>3, HeldFacts

LEMMA HeldKept ==
    ASSUME HeldForSomeone, UNCHANGED <<sessionOf, running, waiting>>,
           \A c \in Client : conn'[c] = "executing" <=> conn[c] = "executing"
    PROVE  HeldForSomeone'
BY DEF HeldForSomeone, Held

LEMMA HeldWhenSessionsEnd ==
    ASSUME TypeOK, TypeOK', QueueInv, HeldForSomeone, NEW S, EndSessions(S),
           \A c \in Client : conn'[c] = "executing" <=>
                                conn[c] = "executing" /\ sessionOf[c] \notin S
    PROVE  HeldForSomeone'
<1> SUFFICES ASSUME NEW c \in Client
             PROVE  conn'[c] = "executing" <=> (c \in Held(sessionOf[c]))'
  BY DEF HeldForSomeone
<1>1. sessionOf' = sessionOf /\ sessionOf[c] \in Session
  BY DEF EndSessions, TypeOK, SessionsOK
<1>2. (c \in Held(sessionOf[c]))' <=>
         \/ running'[sessionOf[c]] = c
         \/ \E i \in 1 .. Len(waiting'[sessionOf[c]]) : waiting'[sessionOf[c]][i] = c
  <2>1. \A s \in Session : (c \in Held(s))' <=>
           \/ running'[s] = c
           \/ \E i \in 1 .. Len(waiting'[s]) : waiting'[s][i] = c
    BY HeldFactsAfter
  <2> QED BY <1>1, <2>1
<1>3. c \in Held(sessionOf[c]) <=> conn[c] = "executing"
  BY DEF HeldForSomeone
<1>4. c # NoClient
  BY ConnectionAssumption
<1>5. CASE sessionOf[c] \in S
  <2>1. running'[sessionOf[c]] = NoClient /\ waiting'[sessionOf[c]] = <<>>
    BY <1>1, <1>5, EndSessionsFacts
  <2> QED BY <1>2, <1>4, <1>5, <2>1
<1>6. CASE sessionOf[c] \notin S
  <2>1. /\ running'[sessionOf[c]] = running[sessionOf[c]]
        /\ waiting'[sessionOf[c]] = waiting[sessionOf[c]]
    BY <1>1, <1>6, EndSessionsFacts
  <2> QED BY <1>1, <1>2, <1>3, <1>6, <2>1, HeldFacts
<1> QED BY <1>5, <1>6

\* The answers of all queries of a set of sessions.
LEMMA HeldWhenAnswered ==
    ASSUME TypeOK, QueueInv, HeldForSomeone, NEW S \in SUBSET Session, NEW result,
           NEW ends \in [Client -> Connections],
           \A c \in Client : ends[c] = "executing" => conn[c] = "executing",
           Respond(UNION {Held(s) : s \in S}, result, ends), NEW c \in Client
    PROVE  conn'[c] = "executing" <=> ends[c] = "executing" /\ sessionOf[c] \notin S
<1>1. ends[c] = "executing" => c \in Held(sessionOf[c]) /\ sessionOf[c] \in Session
  BY DEF HeldForSomeone, TypeOK, SessionsOK
<1>2. c \in UNION {Held(s) : s \in S} => sessionOf[c] \in S
  BY HeldByOwn
<1>3. ends[c] = "executing" /\ sessionOf[c] \in S => c \in UNION {Held(s) : s \in S}
  BY <1>1
<1> QED BY <1>1, <1>2, <1>3, RespondFacts

LEMMA ServiceStep ==
    ASSUME ServiceInv, CountIsExact, TypeOK', Next
    PROVE  QueueInv' /\ HeldForSomeone'
<1>0. /\ TypeOK /\ QueueInv /\ ConnInv /\ HeldForSomeone
      /\ conn \in [Client -> Connections]
  BY DEF ServiceInv, TypeOK, WireOK
<1>a. UNCHANGED <<sessionOf, open, running, waiting, queued>> => QueueInv'
  BY <1>0 DEF QueueInv, QueueOK
<1>1. ASSUME NEW c \in Client, Run(c) \/ RunCancelled(c) PROVE QueueInv' /\ HeldForSomeone'
  <2>1. conn[c] = "none" /\ conn' = [conn EXCEPT ![c] = "backlog"]
        /\ UNCHANGED <<sessionOf, open, running, waiting, queued>>
    BY <1>0, <1>1 DEF Run, RunCancelled, ConnInv, sessionVars
  <2>2. \A d \in Client : conn'[d] = "executing" <=> conn[d] = "executing"
    BY <1>0, <2>1
  <2> QED BY <1>0, <1>a, <2>1, <2>2, HeldKept
<1>2. ASSUME NEW c \in Client,
             ClientReceives(c) \/ ClientLoses(c) \/ Cancel(c) \/ Watchdog(c)
      PROVE  QueueInv' /\ HeldForSomeone'
  <2>1. UNCHANGED <<conn, sessionOf, open, running, waiting, queued>>
    BY <1>2 DEF ClientReceives, ClientLoses, Cancel, Watchdog, sessionVars
  <2> QED BY <1>0, <1>a, <2>1, HeldKept
<1>3. ASSUME NEW c \in Client, Accept(c) \/ Refuse(c) PROVE QueueInv' /\ HeldForSomeone'
  <2>1. PICK next \in {"reading", "responding"} : conn' = [conn EXCEPT ![c] = next]
    BY <1>3 DEF Accept, Refuse
  <2>2. conn[c] # "executing" /\ UNCHANGED <<sessionOf, open, running, waiting, queued>>
    BY <1>3 DEF Accept, Refuse, ReadPacket, sessionVars
  <2>3. \A d \in Client : conn'[d] = "executing" <=> conn[d] = "executing"
    BY <1>0, <2>1, <2>2
  <2> QED BY <1>0, <1>a, <2>2, <2>3, HeldKept
<1>4. ASSUME NEW c \in Client, Execute(c) PROVE QueueInv' /\ HeldForSomeone'
  <2> DEFINE s == sessionOf[c]
  <2>1. /\ QueueInv'
        /\ \A t \in Session \ {s} : running'[t] = running[t] /\ waiting'[t] = waiting[t]
        /\ \/ /\ running[s] = NoClient /\ waiting[s] = <<>>
              /\ running'[s] = c /\ waiting'[s] = <<>>
           \/ /\ running[s] # NoClient
              /\ running'[s] = running[s] /\ waiting'[s] = Append(waiting[s], c)
    BY <1>4, ExecuteFacts
  <2>2. sessionOf' = sessionOf /\ conn' = [conn EXCEPT ![c] = "executing"]
    BY <1>4 DEF Execute
  <2>3. ASSUME NEW d \in Client
        PROVE  conn'[d] = "executing" <=> (d \in Held(sessionOf[d]))'
    <3>1. sessionOf[d] \in Session /\ s \in Session /\ waiting[s] \in Seq(Client)
          /\ d # NoClient
      BY <1>0, ConnectionAssumption DEF TypeOK, SessionsOK
    <3>2. (d \in Held(sessionOf[d]))' <=>
             \/ running'[sessionOf[d]] = d
             \/ \E i \in 1 .. Len(waiting'[sessionOf[d]]) : waiting'[sessionOf[d]][i] = d
      BY <2>2, <3>1, HeldFactsAfter
    <3>3. conn[d] = "executing" <=>
             \/ running[sessionOf[d]] = d
             \/ \E i \in 1 .. Len(waiting[sessionOf[d]]) : waiting[sessionOf[d]][i] = d
      BY <1>0, <3>1, HeldFacts DEF HeldForSomeone
    <3>4. CASE sessionOf[d] # s
      <4>1. d # c /\ conn'[d] = conn[d]
        BY <2>2, <3>4, <1>0
      <4>2. /\ running'[sessionOf[d]] = running[sessionOf[d]]
            /\ waiting'[sessionOf[d]] = waiting[sessionOf[d]]
        BY <2>1, <3>1, <3>4
      <4> QED BY <3>2, <3>3, <4>1, <4>2
    <3>5. CASE sessionOf[d] = s
      <4> DEFINE q == waiting[s]
      <4>1. /\ Len(Append(q, c)) = Len(q) + 1 /\ Len(q) \in Nat
            /\ \A i \in 1 .. Len(q) : Append(q, c)[i] = q[i]
            /\ Append(q, c)[Len(q) + 1] = c
        BY <3>1, AppendFacts
      <4>2. conn'[d] = "executing" <=> d = c \/ conn[d] = "executing"
        BY <1>0, <2>2
      <4> HIDE DEF q
      <4>3. (\E i \in 1 .. Len(Append(q, c)) : Append(q, c)[i] = d) <=>
               d = c \/ \E i \in 1 .. Len(q) : q[i] = d
        <5>1. \A i \in 1 .. Len(Append(q, c)) : i \in 1 .. Len(q) \/ i = Len(q) + 1
          BY <4>1
        <5>2. Len(q) + 1 \in 1 .. Len(Append(q, c))
              /\ \A i \in 1 .. Len(q) : i \in 1 .. Len(Append(q, c))
          BY <4>1
        <5> QED BY <4>1, <5>1, <5>2
      <4>4. CASE running[s] = NoClient /\ waiting[s] = <<>> /\ running'[s] = c
                 /\ waiting'[s] = <<>>
        BY <3>1, <3>2, <3>3, <3>5, <4>2, <4>4
      <4>5. CASE running'[s] = running[s] /\ waiting'[s] = Append(waiting[s], c)
        BY <3>2, <3>3, <3>5, <4>2, <4>3, <4>5 DEF q
      <4> QED BY <2>1, <4>4, <4>5
    <3> QED BY <3>4, <3>5
  <2> QED BY <2>1, <2>3 DEF HeldForSomeone
<1>5. ASSUME NEW c \in Client, SeeClose(c) PROVE QueueInv' /\ HeldForSomeone'
  <2> DEFINE ends == [conn EXCEPT ![c] = "closed"]
             s == sessionOf[c]
  <2>1. ends \in [Client -> Connections] /\ AbortQuery(c, ends)
    BY <1>0, <1>5 DEF SeeClose, Connections
  <2>2. s \in Session
    BY <1>0 DEF TypeOK, SessionsOK
  <2>3. \A d \in Client : ends[d] = "executing" <=> conn[d] = "executing" /\ d # c
    BY <1>0
  <2> HIDE DEF ends
  <2>4. CASE c \notin Held(s) /\ conn' = ends /\ UNCHANGED <<sessionVars, reply>>
    <3>1. \A d \in Client : conn'[d] = "executing" <=> conn[d] = "executing"
      BY <1>0, <2>3, <2>4 DEF HeldForSomeone
    <3>2. UNCHANGED <<sessionOf, open, running, waiting, queued>>
      BY <2>4 DEF sessionVars
    <3> QED BY <1>0, <1>a, <3>1, <3>2, HeldKept
  <2>5. CASE running[s] = c /\ Respond(Held(s), "runner", ends) /\ EndSessions({s})
    <3>1. Respond(UNION {Held(t) : t \in {s}}, "runner", ends)
      <4>1. UNION {Held(t) : t \in {s}} = Held(s)
        OBVIOUS
      <4> QED BY <2>5, <4>1
    <3>2. \A d \in Client : conn'[d] = "executing" <=>
             conn[d] = "executing" /\ sessionOf[d] \notin {s}
      <4>0. {s} \in SUBSET Session /\ \A d \in Client : ends[d] = "executing" => conn[d] = "executing"
        BY <2>2, <2>3
      <4> HIDE DEF s
      <4>1. ASSUME NEW d \in Client
            PROVE  conn'[d] = "executing" <=> ends[d] = "executing" /\ sessionOf[d] \notin {s}
        BY <1>0, <2>1, <3>1, <4>0, HeldWhenAnswered
      <4>2. \A d \in Client : sessionOf[d] \notin {s} => d # c
        BY DEF s
      <4> QED BY <2>3, <4>1, <4>2
    <3> QED BY <1>0, <2>5, <3>2, HeldWhenSessionsEnd, EndSessionsFacts
  <2>6. ASSUME NEW i \in DOMAIN waiting[s], waiting[s][i] = c,
               waiting' = [waiting EXCEPT ![s] = Without(waiting[s], i)],
               conn' = ends, UNCHANGED <<sessionOf, open, running, runAge, queued, reply>>
        PROVE  QueueInv' /\ HeldForSomeone'
    <3> HIDE DEF s
    <3>0. waiting[s] \in Seq(Client)
      BY <1>0, <2>2 DEF TypeOK, SessionsOK
    <3>1. i \in 1 .. Len(waiting[s])
      BY <2>6, <3>0
    <3>2. /\ QueueInv'
          /\ \A k \in 1 .. Len(waiting'[s]) : waiting'[s][k] # waiting[s][i]
          /\ \A k \in 1 .. Len(waiting[s]) : k # i =>
                \E j \in 1 .. Len(waiting'[s]) : waiting'[s][j] = waiting[s][k]
          /\ \A j \in 1 .. Len(waiting'[s]) :
                \E k \in 1 .. Len(waiting[s]) : waiting'[s][j] = waiting[s][k]
          /\ \A t \in Session \ {s} : waiting'[t] = waiting[t]
      BY <1>0, <2>2, <2>6, <3>1, DropFacts
    <3>3. ASSUME NEW d \in Client
          PROVE  conn'[d] = "executing" <=> (d \in Held(sessionOf[d]))'
      <4>1. sessionOf[d] \in Session /\ QueueOK(s)
        BY <1>0, <2>2 DEF TypeOK, SessionsOK, QueueInv
      <4>2. (d \in Held(sessionOf[d]))' <=>
               \/ running[sessionOf[d]] = d
               \/ \E j \in 1 .. Len(waiting'[sessionOf[d]]) : waiting'[sessionOf[d]][j] = d
        BY <2>6, <4>1, HeldFactsAfter
      <4>3. conn[d] = "executing" <=>
               \/ running[sessionOf[d]] = d
               \/ \E j \in 1 .. Len(waiting[sessionOf[d]]) : waiting[sessionOf[d]][j] = d
        BY <1>0, <4>1, HeldFacts DEF HeldForSomeone
      <4>4. conn'[d] = "executing" <=> conn[d] = "executing" /\ d # c
        BY <2>3, <2>6
      <4>5. CASE sessionOf[d] # s
        <5>1. waiting'[sessionOf[d]] = waiting[sessionOf[d]] /\ d # c
          BY <3>2, <4>1, <4>5 DEF s
        <5> QED BY <4>2, <4>3, <4>4, <5>1
      <4>6. CASE sessionOf[d] = s /\ d = c
        <5>1. running[s] # c
          BY <2>6, <3>1, <4>1 DEF QueueOK
        <5> QED BY <2>6, <3>2, <4>2, <4>4, <4>6, <5>1
      <4>7. CASE sessionOf[d] = s /\ d # c
        <5>1. (\E j \in 1 .. Len(waiting'[s]) : waiting'[s][j] = d) <=>
                 \E j \in 1 .. Len(waiting[s]) : waiting[s][j] = d
          <6>1. ASSUME NEW j \in 1 .. Len(waiting'[s]), waiting'[s][j] = d
                PROVE  \E k \in 1 .. Len(waiting[s]) : waiting[s][k] = d
            BY <3>2, <6>1
          <6>2. ASSUME NEW k \in 1 .. Len(waiting[s]), waiting[s][k] = d
                PROVE  \E j \in 1 .. Len(waiting'[s]) : waiting'[s][j] = d
            <7>1. k # i
              BY <2>6, <4>7, <6>2
            <7> QED BY <3>2, <6>2, <7>1
          <6> QED BY <6>1, <6>2
        <5> QED BY <4>2, <4>3, <4>4, <4>7, <5>1
      <4> QED BY <4>5, <4>6, <4>7
    <3> QED BY <3>2, <3>3 DEF HeldForSomeone
  <2> QED BY <2>1, <2>4, <2>5, <2>6 DEF AbortQuery
<1>6. ASSUME NEW c \in Client, WriteFails(c) PROVE QueueInv' /\ HeldForSomeone'
  <2>1. EndSessions(open) /\ \A d \in Client : conn'[d] # "executing"
    BY <1>6 DEF WriteFails
  <2>2. \A d \in Client : conn[d] = "executing" => sessionOf[d] \in open
    BY <1>0, HeldByOwn DEF HeldForSomeone, TypeOK, SessionsOK
  <2> QED BY <1>0, <2>1, <2>2, HeldWhenSessionsEnd, EndSessionsFacts
<1>7. ASSUME NEW s \in Session, QueryFinishes(s) PROVE QueueInv' /\ HeldForSomeone'
  <2>1. PICK result : Respond({running[s]}, result, conn)
    BY <1>7 DEF QueryFinishes
  <2>2. Pump(s, waiting[s]) /\ running[s] # NoClient /\ UNCHANGED <<sessionOf, open, queued>>
    BY <1>7 DEF QueryFinishes
  <2>3. /\ QueueInv'
        /\ \A t \in Session \ {s} : running'[t] = running[t] /\ waiting'[t] = waiting[t]
        /\ waiting[s] = <<>> => running'[s] = NoClient /\ waiting'[s] = <<>>
        /\ waiting[s] # <<>> => /\ running'[s] = waiting[s][1]
                                /\ waiting'[s] = Tail(waiting[s])
    BY <1>0, <2>2, PumpFacts
  <2>4. ASSUME NEW d \in Client
        PROVE  conn'[d] = "executing" <=> (d \in Held(sessionOf[d]))'
    <3>1. sessionOf[d] \in Session /\ waiting[s] \in Seq(Client) /\ QueueOK(s)
          /\ d # NoClient
      BY <1>0, ConnectionAssumption DEF TypeOK, SessionsOK, QueueInv
    <3>2. (d \in Held(sessionOf[d]))' <=>
             \/ running'[sessionOf[d]] = d
             \/ \E j \in 1 .. Len(waiting'[sessionOf[d]]) : waiting'[sessionOf[d]][j] = d
      BY <2>2, <3>1, HeldFactsAfter
    <3>3. conn[d] = "executing" <=>
             \/ running[sessionOf[d]] = d
             \/ \E j \in 1 .. Len(waiting[sessionOf[d]]) : waiting[sessionOf[d]][j] = d
      BY <1>0, <3>1, HeldFacts DEF HeldForSomeone
    <3>4. conn'[d] = "executing" <=> conn[d] = "executing" /\ d # running[s]
      BY <1>0, <2>1, RespondFacts
    <3>5. sessionOf[running[s]] = s
      BY <2>2, <3>1 DEF QueueOK
    <3>6. CASE sessionOf[d] # s
      <4>1. running'[sessionOf[d]] = running[sessionOf[d]]
            /\ waiting'[sessionOf[d]] = waiting[sessionOf[d]] /\ d # running[s]
        BY <2>3, <3>1, <3>5, <3>6
      <4> QED BY <3>2, <3>3, <3>4, <4>1
    <3>7. CASE sessionOf[d] = s /\ waiting[s] = <<>>
      BY <2>3, <3>1, <3>2, <3>3, <3>4, <3>7
    <3>8. CASE sessionOf[d] = s /\ waiting[s] # <<>>
      <4> DEFINE q == waiting[s]
      <4>1. /\ 1 \in 1 .. Len(q) /\ Len(Tail(q)) = Len(q) - 1 /\ Len(q) \in Nat
            /\ \A i \in 1 .. Len(Tail(q)) : i + 1 \in 1 .. Len(q) /\ Tail(q)[i] = q[i + 1]
        BY <3>1, <3>8, TailFacts
      <4>2. \A i \in 1 .. Len(q) : q[i] # running[s]
        BY <3>1 DEF QueueOK
      <4> HIDE DEF q
      <4>3. (\E i \in 1 .. Len(q) : q[i] = d) <=>
               q[1] = d \/ \E i \in 1 .. Len(Tail(q)) : Tail(q)[i] = d
        <5>1. ASSUME NEW i \in 1 .. Len(q), q[i] = d, i # 1
              PROVE  \E j \in 1 .. Len(Tail(q)) : Tail(q)[j] = d
          <6>1. i - 1 \in 1 .. Len(Tail(q)) /\ (i - 1) + 1 = i
            BY <4>1, <5>1
          <6> QED BY <4>1, <5>1, <6>1
        <5> QED BY <4>1, <5>1
      <4> QED BY <2>3, <3>2, <3>3, <3>4, <3>8, <4>1, <4>2, <4>3 DEF q
    <3> QED BY <3>6, <3>7, <3>8
  <2> QED BY <2>3, <2>4 DEF HeldForSomeone
<1>8. ASSUME NEW s \in Session, SessionFails(s) \/ SessionTimesOut(s)
      PROVE  QueueInv' /\ HeldForSomeone'
  <2>1. PICK result : Respond(UNION {Held(t) : t \in {s}}, result, conn)
    <3>1. UNION {Held(t) : t \in {s}} = Held(s)
      OBVIOUS
    <3> QED BY <1>8, <3>1 DEF SessionFails, SessionTimesOut
  <2>2. EndSessions({s})
    BY <1>8 DEF SessionFails, SessionTimesOut
  <2>3. ASSUME NEW d \in Client
        PROVE  conn'[d] = "executing" <=> conn[d] = "executing" /\ sessionOf[d] \notin {s}
    BY <1>0, <2>1, HeldWhenAnswered
  <2> QED BY <1>0, <2>2, <2>3, HeldWhenSessionsEnd, EndSessionsFacts
<1>9. CASE Shutdown
  <2> DEFINE ends == [c \in Client |-> IF c \in Backlog THEN "closed" ELSE conn[c]]
  <2>1. ends \in [Client -> Connections]
        /\ \A d \in Client : ends[d] = "executing" <=> conn[d] = "executing"
    BY <1>0 DEF Connections, Backlog
  <2>2. Respond(UNION {Held(s) : s \in Session}, "runner", ends) /\ EndSessions(open)
    BY <1>9 DEF Shutdown
  <2> HIDE DEF ends
  <2>3. ASSUME NEW d \in Client
        PROVE  conn'[d] # "executing"
    <3>1. conn'[d] = "executing" <=> ends[d] = "executing" /\ sessionOf[d] \notin Session
      BY <1>0, <2>1, <2>2, HeldWhenAnswered
    <3> QED BY <1>0, <3>1 DEF TypeOK, SessionsOK
  <2>4. \A d \in Client : conn[d] = "executing" => sessionOf[d] \in open
    BY <1>0, HeldByOwn DEF HeldForSomeone, TypeOK, SessionsOK
  <2> QED BY <1>0, <2>2, <2>3, <2>4, HeldWhenSessionsEnd, EndSessionsFacts
<1>10. CASE Exit
  <2>1. EndSessions(open) /\ conn' = conn /\ active = 0
    BY <1>10 DEF Exit
  <2>2. OpenConnections = {}
    <3>1. IsFiniteSet(OpenConnections) /\ Cardinality(OpenConnections) = 0
      BY <2>1, ConnectionAssumption, FS_Subset DEF OpenConnections, CountIsExact
    <3> QED BY <3>1, FS_EmptySet
  <2>3. \A d \in Client : conn[d] # "executing"
    BY <2>2 DEF OpenConnections, Counted
  <2> QED BY <1>0, <2>1, <2>3, HeldWhenSessionsEnd, EndSessionsFacts
<1>11. CASE Tick
  BY <1>0, <1>a, <1>11, HeldKept DEF Tick
<1> QED BY <1>1, <1>2, <1>3, <1>4, <1>5, <1>6, <1>7, <1>8, <1>9, <1>10, <1>11
        DEF Next, Sigterm, IdleShutdown

\* The invariant of the broker: queues, connections and who is held.
THEOREM ServiceCorrect == Spec => [](QueueInv /\ ConnInv /\ HeldForSomeone)
<1>1. Init => QueueInv /\ ConnInv /\ HeldForSomeone
  <2> SUFFICES ASSUME Init PROVE QueueInv /\ ConnInv /\ HeldForSomeone
    OBVIOUS
  <2>1. QueueInv
    BY DEF Init, QueueInv, QueueOK
  <2>2. ConnInv
    BY DEF Init, ConnInv
  <2>3. HeldForSomeone
    BY ConnectionAssumption DEF Init, HeldForSomeone, Held, Range
  <2> QED BY <2>1, <2>2, <2>3
<1>2. /\ QueueInv /\ ConnInv /\ HeldForSomeone
      /\ TypeOK /\ TypeOK' /\ CountIsExact /\ [Next]_vars
      => QueueInv' /\ ConnInv' /\ HeldForSomeone'
  <2> SUFFICES ASSUME QueueInv, ConnInv, HeldForSomeone, TypeOK, TypeOK', CountIsExact,
                      [Next]_vars
               PROVE  QueueInv' /\ ConnInv' /\ HeldForSomeone'
    OBVIOUS
  <2>1. CASE Next
    BY <2>1, ConnStep, ServiceStep DEF ServiceInv
  <2>2. CASE UNCHANGED vars
    <3>1. UNCHANGED <<client, conn, broker, sessionOf, open, running, waiting, queued>>
      BY <2>2 DEF vars, sessionVars
    <3> QED BY <3>1, HeldKept DEF QueueInv, QueueOK, ConnInv
  <2> QED BY <2>1, <2>2
<1> QED BY <1>1, <1>2, ConnectionTypeCorrect, ConnectionsAreCounted, PTL DEF Spec

\* A session holds exactly the queries whose connection waits for an answer:
\* none is forgotten and none is left to run for a client that is gone, for any
\* number of clients and sessions.
THEOREM SessionsServeConnections == Spec => []HeldForSomeone
BY ServiceCorrect, PTL
-----------------------------------------------------------------------------
(***************************************************************************)
(* The watchdog.                                                           *)
(***************************************************************************)
\* The steps of the broker: what they owe a client that waits.
LEMMA BrokerStepIsFair ==
    ASSUME TypeOK, NEW d \in Client, WatchdogOK(d),
           UNCHANGED <<client, answer, gone, clientAge, sessionOf>>,
           queued \subseteq queued',
           client[d] = "waiting" =>
              /\ conn'[d] \in {"backlog", "reading"} =>
                    conn[d] \in {"backlog", "reading"} /\ (d \in unread => d \in unread')
              /\ conn'[d] = "responding" => reply'[d] # "none"
              /\ conn'[d] = "executing" /\ d \notin queued' =>
                    running'[sessionOf[d]] = d /\ clientAge[d] <= runAge'[d]
    PROVE  WatchdogOK(d)'
<1>1. CASE client[d] = "waiting"
  <2>1. WaitsFairly(d) /\ client[d] # "idle"
    BY <1>1 DEF WatchdogOK
  <2>2. WaitsFairly(d)'
    BY <1>1, <2>1 DEF WaitsFairly
  <2>3. client'[d] = "waiting" /\ (answer'[d] = "watchdog" => d \in queued')
    BY <1>1 DEF WatchdogOK
  <2> QED BY <2>2, <2>3 DEF WatchdogOK
<1>2. CASE client[d] # "waiting"
  BY <1>2 DEF WatchdogOK
<1> QED BY <1>1, <1>2

\* Sessions that end answer the queries they held.
LEMMA EndingIsFair ==
    ASSUME ServiceInv, NEW S \in SUBSET Session, NEW result, result # "none",
           NEW ends \in [Client -> Connections],
           Respond(UNION {Held(s) : s \in S}, result, ends), EndSessions(S),
           UNCHANGED <<client, answer, gone, clientAge>>,
           NEW d \in Client, WatchdogOK(d), d \in unread => d \in unread',
           \A c \in Client : ends[c] = "executing" => conn[c] = "executing",
           ends[d] \in {conn[d], "closed"}
    PROVE  WatchdogOK(d)'
<1>1. \/ conn'[d] = "responding" /\ reply'[d] = result
      \/ conn'[d] = ends[d] /\ reply'[d] = reply[d]
  BY RespondFacts
<1>2. TypeOK /\ QueueInv /\ HeldForSomeone /\ sessionOf[d] \in Session
  BY DEF ServiceInv, TypeOK, SessionsOK
<1>3. conn'[d] = "executing" <=> ends[d] = "executing" /\ sessionOf[d] \notin S
  BY <1>2, HeldWhenAnswered
<1>4. sessionOf' = sessionOf /\ runAge' = runAge /\ queued' = queued
  BY DEF EndSessions
<1>5. sessionOf[d] \notin S => running'[sessionOf[d]] = running[sessionOf[d]]
  BY <1>2, EndSessionsFacts
<1>6. ASSUME client[d] = "waiting"
      PROVE  /\ conn'[d] \in {"backlog", "reading"} =>
                   conn[d] \in {"backlog", "reading"} /\ (d \in unread => d \in unread')
             /\ conn'[d] = "responding" => reply'[d] # "none"
             /\ conn'[d] = "executing" /\ d \notin queued' =>
                   running'[sessionOf[d]] = d /\ clientAge[d] <= runAge'[d]
  <2>1. WaitsFairly(d)
    BY <1>6 DEF WatchdogOK
  <2>2. conn'[d] \in {"backlog", "reading"} => conn[d] \in {"backlog", "reading"}
    BY <1>1
  <2>3. conn'[d] = "responding" => reply'[d] # "none"
    BY <1>1, <2>1 DEF WaitsFairly
  <2>4. conn'[d] = "executing" /\ d \notin queued' =>
           running'[sessionOf[d]] = d /\ clientAge[d] <= runAge'[d]
    BY <1>3, <1>4, <1>5, <2>1 DEF WaitsFairly
  <2> QED BY <2>2, <2>3, <2>4
<1> QED BY <1>2, <1>4, <1>6, BrokerStepIsFair

\* Time passes only for a query in its session, and not beyond its deadline.
LEMMA TickIsFair ==
    ASSUME Prompt, ServiceInv, Tick, NEW d \in Client, WatchdogOK(d)
    PROVE  WatchdogOK(d)'
<1>1. /\ ~Pending
      /\ clientAge' = [c \in Client |-> IF client[c] = "waiting" /\ clientAge[c] < MaxAge
                                        THEN clientAge[c] + 1 ELSE clientAge[c]]
      /\ runAge' = [c \in Client |-> IF c \in Range(running) /\ runAge[c] < MaxAge
                                     THEN runAge[c] + 1 ELSE runAge[c]]
      /\ UNCHANGED <<client, answer, unread, reply, gone, conn, broker, sessionOf, running,
                     queued>>
  BY DEF Tick, wireVars
<1>2. /\ clientAge[d] \in Nat /\ runAge[d] \in Nat /\ conn[d] \in Connections
      /\ sessionOf[d] \in Session /\ running \in [Session -> Client \cup {NoClient}]
      /\ Deadline \in Nat /\ MaxAge \in Nat /\ Deadline < MaxAge
  BY ConnectionAssumption DEF ServiceInv, TypeOK, SessionsOK, WireOK, MaxAge
<1>3. answer'[d] = "watchdog" => d \in queued'
  BY <1>1 DEF WatchdogOK
<1>4. CASE client[d] # "waiting"
  <2>1. clientAge'[d] = clientAge[d] /\ client'[d] = client[d] /\ gone' = gone
    BY <1>1, <1>4
  <2> QED BY <1>3, <1>4, <2>1 DEF WatchdogOK
<1>5. CASE client[d] = "waiting"
  <2>1. WaitsFairly(d)
    BY <1>5 DEF WatchdogOK
  <2>2. conn[d] = "executing"
    <3>1. ~(broker = "up" /\ conn[d] = "backlog") /\ ~(conn[d] = "reading" /\ d \in unread)
          /\ ~(reply[d] # "none" \/ conn[d] = "closed")
      BY <1>1, <1>5 DEF Pending
    <3>2. conn[d] # "none" /\ (conn[d] = "backlog" => broker = "up")
      BY <1>5 DEF ServiceInv, ConnInv
    <3> QED BY <1>2, <2>1, <3>1, <3>2 DEF WaitsFairly, Connections
  <2>3. CASE d \in queued
    BY <1>1, <1>3, <1>5, <2>1, <2>2, <2>3 DEF WatchdogOK, WaitsFairly
  <2>4. CASE d \notin queued
    <3>1. running[sessionOf[d]] = d /\ clientAge[d] <= runAge[d]
      BY <2>1, <2>2, <2>4 DEF WaitsFairly
    <3>2. d \in Range(running)
      BY <1>2, <3>1 DEF Range
    <3>3. ~DeadlineDue(sessionOf[d]) /\ d # NoClient
      BY <1>1, <1>2, ConnectionAssumption DEF Pending
    <3>4. runAge[d] < Deadline
      BY <1>2, <3>1, <3>3 DEF DeadlineDue
    <3>5. runAge'[d] = runAge[d] + 1 /\ clientAge'[d] = clientAge[d] + 1
      <4>1. runAge[d] < MaxAge /\ clientAge[d] < MaxAge
        BY <1>2, <3>1, <3>4
      <4> QED BY <1>1, <1>5, <3>2, <4>1
    <3>6. clientAge'[d] <= runAge'[d] /\ clientAge'[d] <= Deadline
      BY <1>2, <3>1, <3>4, <3>5
    <3>7. WaitsFairly(d)'
      BY <1>1, <2>1, <2>2, <3>1, <3>6 DEF WaitsFairly
    <3> QED BY <1>1, <1>3, <1>5, <3>7 DEF WatchdogOK
  <2> QED BY <2>3, <2>4
<1> QED BY <1>4, <1>5

LEMMA WatchdogStep ==
    ASSUME Prompt, ServiceInv, CountIsExact, WatchdogInv, Next, NEW d \in Client
    PROVE  WatchdogOK(d)'
<1>0. /\ TypeOK /\ QueueInv /\ ConnInv /\ HeldForSomeone /\ WatchdogOK(d)
      /\ conn \in [Client -> Connections] /\ sessionOf \in [Client -> Session]
      /\ reply \in [Client -> Results \cup {"none"}]
      /\ client \in [Client -> {"idle", "waiting", "settled"}]
  BY DEF ServiceInv, TypeOK, SessionsOK, WireOK, WatchdogInv
<1>a. Deadline \in Nat /\ 0 <= Deadline
  BY ConnectionAssumption
<1>1. ASSUME NEW c \in Client, c # d,
             \/ Run(c) \/ RunCancelled(c) \/ ClientReceives(c) \/ ClientLoses(c)
             \/ Cancel(c) \/ Watchdog(c)
      PROVE  WatchdogOK(d)'
  <2>1. /\ client'[d] = client[d] /\ answer'[d] = answer[d] /\ conn'[d] = conn[d]
        /\ reply'[d] = reply[d] /\ (d \in gone' <=> d \in gone)
        /\ (d \in unread' <=> d \in unread)
    BY <1>0, <1>1 DEF Run, RunCancelled, ClientReceives, ClientLoses, Cancel, Watchdog, Settle,
                      TypeOK, WireOK
  <2>2. UNCHANGED <<sessionOf, running, queued, clientAge, runAge>>
    BY <1>1 DEF Run, RunCancelled, ClientReceives, ClientLoses, Cancel, Watchdog, sessionVars
  <2> QED BY <1>0, <2>1, <2>2 DEF WatchdogOK, WaitsFairly
<1>2. CASE Run(d)
  <2>1. /\ client[d] = "idle" /\ client'[d] = "waiting" /\ conn'[d] = "backlog" /\ d \in unread'
        /\ UNCHANGED <<answer, gone, queued, clientAge>>
    BY <1>0, <1>2 DEF Run, sessionVars
  <2>2. d \notin gone /\ clientAge[d] = 0
    BY <1>0, <2>1 DEF WatchdogOK
  <2> QED BY <1>0, <1>a, <2>1, <2>2 DEF WatchdogOK, WaitsFairly
<1>3. CASE RunCancelled(d) \/ ClientReceives(d) \/ ClientLoses(d) \/ Cancel(d)
  <2>1. client'[d] = "settled" /\ answer'[d] # "watchdog"
    BY <1>0, <1>3 DEF RunCancelled, ClientReceives, ClientLoses, Cancel, Settle, TypeOK, WireOK,
                      Results
  <2> QED BY <2>1 DEF WatchdogOK
<1>4. CASE Watchdog(d)
  <2>1. client[d] = "waiting" /\ clientAge[d] >= Deadline + Grace /\ client'[d] = "settled"
        /\ queued' = queued
    BY <1>0, <1>4 DEF Watchdog, WatchdogDue, Settle, sessionVars
  <2>2. d \in queued
    <3>1. d \notin queued => clientAge[d] <= Deadline
      BY <1>0, <2>1 DEF WatchdogOK, WaitsFairly
    <3>2. clientAge[d] \in Nat /\ Grace \in Nat \ {0}
      BY ConnectionAssumption DEF ServiceInv, TypeOK, WireOK
    <3> QED BY <1>a, <2>1, <3>1, <3>2
  <2> QED BY <2>1, <2>2 DEF WatchdogOK
<1>5. ASSUME NEW c \in Client, Accept(c) PROVE WatchdogOK(d)'
  <2>1. conn[c] = "backlog" /\ conn' = [conn EXCEPT ![c] = "reading"]
        /\ UNCHANGED <<client, answer, unread, reply, gone, clientAge, sessionOf, running,
                       runAge, queued>>
    BY <1>5 DEF Accept, wireVars, sessionVars
  <2>2. client[d] = "waiting" => WaitsFairly(d)
    BY <1>0 DEF WatchdogOK
  <2> QED BY <1>0, <2>1, <2>2, BrokerStepIsFair DEF WaitsFairly
<1>6. ASSUME NEW c \in Client, Refuse(c) PROVE WatchdogOK(d)'
  <2>1. /\ conn' = [conn EXCEPT ![c] = "responding"] /\ reply' = [reply EXCEPT ![c] = "runner"]
        /\ unread' = unread \ {c}
        /\ UNCHANGED <<client, answer, gone, clientAge, sessionOf, running, runAge, queued>>
    BY <1>6 DEF Refuse, ReadPacket, sessionVars
  <2>2. client[d] = "waiting" => WaitsFairly(d)
    BY <1>0 DEF WatchdogOK
  <2> QED BY <1>0, <2>1, <2>2, BrokerStepIsFair DEF WaitsFairly
<1>7. ASSUME NEW c \in Client, Execute(c) PROVE WatchdogOK(d)'
  <2>1. /\ conn' = [conn EXCEPT ![c] = "executing"] /\ unread' = unread \ {c}
        /\ conn[c] = "reading" /\ c \in unread
        /\ UNCHANGED <<client, answer, reply, gone, clientAge, sessionOf>>
    BY <1>7 DEF Execute, ReadPacket
  <2>2. client[d] = "waiting" => WaitsFairly(d)
    BY <1>0 DEF WatchdogOK
  <2> DEFINE s == sessionOf[c]
  <2>3. /\ \A t \in Session \ {s} : running'[t] = running[t]
        /\ \/ /\ running[s] = NoClient /\ running'[s] = c
              /\ queued' = queued /\ runAge' = [runAge EXCEPT ![c] = 0]
           \/ /\ running[s] # NoClient /\ running'[s] = running[s]
              /\ queued' = queued \cup {c} /\ runAge' = runAge
    BY <1>7, ExecuteFacts
  <2>4. sessionOf[d] \in Session /\ d # NoClient /\ runAge \in [Client -> Nat]
        /\ clientAge[d] \in Nat
    BY <1>0, ConnectionAssumption DEF TypeOK, SessionsOK, WireOK
  <2>5. ASSUME client[d] = "waiting", d \notin queued', conn'[d] = "executing"
        PROVE  running'[sessionOf[d]] = d /\ clientAge[d] <= runAge'[d]
    <3>1. CASE d = c
      <4>1. queued' = queued /\ running'[sessionOf[d]] = d /\ runAge'[d] = 0
        BY <2>3, <2>4, <2>5, <3>1
      <4>2. clientAge[d] = 0
        BY <2>1, <2>2, <2>5, <3>1 DEF WaitsFairly
      <4> QED BY <4>1, <4>2
    <3>2. CASE d # c
      <4>1. running[sessionOf[d]] = d /\ clientAge[d] <= runAge[d]
        BY <1>0, <2>1, <2>2, <2>3, <2>5, <3>2 DEF WaitsFairly
      <4>2. running'[sessionOf[d]] = running[sessionOf[d]] /\ runAge'[d] = runAge[d]
        BY <2>3, <2>4, <3>2, <4>1
      <4> QED BY <4>1, <4>2
    <3> QED BY <3>1, <3>2
  <2>6. conn'[d] \in {"backlog", "reading"} => conn[d] = conn'[d] /\ d # c
    BY <1>0, <2>1
  <2>7. conn'[d] = "responding" => conn[d] = "responding"
    BY <1>0, <2>1
  <2>8. queued \subseteq queued' /\ (d # c /\ d \in unread => d \in unread')
    BY <2>1, <2>3
  <2> HIDE DEF s
  <2>9. client[d] = "waiting" =>
              /\ conn'[d] \in {"backlog", "reading"} =>
                    conn[d] \in {"backlog", "reading"} /\ (d \in unread => d \in unread')
              /\ conn'[d] = "responding" => reply'[d] # "none"
              /\ conn'[d] = "executing" /\ d \notin queued' =>
                    running'[sessionOf[d]] = d /\ clientAge[d] <= runAge'[d]
    BY <2>1, <2>2, <2>5, <2>6, <2>7, <2>8 DEF WaitsFairly
  <2> QED BY <1>0, <2>1, <2>8, <2>9, BrokerStepIsFair
<1>8. ASSUME NEW c \in Client, SeeClose(c) PROVE WatchdogOK(d)'
  <2> DEFINE ends == [conn EXCEPT ![c] = "closed"]
             s == sessionOf[c]
  <2>1. /\ ends \in [Client -> Connections] /\ AbortQuery(c, ends)
        /\ c \in gone /\ unread' = unread \ {c} /\ UNCHANGED <<client, answer, gone, clientAge>>
    BY <1>0, <1>8 DEF SeeClose, Connections
  <2>2. s \in Session /\ (\A e \in Client : ends[e] = "executing" => conn[e] = "executing")
        /\ (d # c => ends[d] = conn[d])
    BY <1>0
  <2>3. client[d] = "waiting" => WaitsFairly(d) /\ d # c
    BY <1>0, <2>1 DEF WatchdogOK, WaitsFairly
  <2>4. CASE client[d] # "waiting"
    <3>1. queued' = queued
      BY <2>1 DEF AbortQuery, EndSessions, sessionVars
    <3> QED BY <1>0, <2>1, <2>4, <3>1 DEF WatchdogOK
  <2>5. CASE client[d] = "waiting"
    <3>1. ends[d] = conn[d] /\ (d \in unread => d \in unread')
      BY <2>1, <2>2, <2>3, <2>5
    <3> HIDE DEF ends, s
    <3>2. CASE conn' = ends /\ UNCHANGED <<sessionOf, running, runAge, queued, reply>>
      BY <1>0, <2>1, <2>3, <3>1, <3>2, BrokerStepIsFair DEF WaitsFairly
    <3>3. CASE Respond(Held(s), "runner", ends) /\ EndSessions({s})
      <4>1. UNION {Held(t) : t \in {s}} = Held(s) /\ {s} \in SUBSET Session
        BY <2>2
      <4>2. Respond(UNION {Held(t) : t \in {s}}, "runner", ends)
        BY <3>3, <4>1
      <4> QED BY <1>0, <2>1, <2>2, <3>1, <3>3, <4>1, <4>2, EndingIsFair
    <3> QED BY <2>1, <3>2, <3>3 DEF AbortQuery, sessionVars, s
  <2> QED BY <2>4, <2>5
<1>9. ASSUME NEW c \in Client, WriteFails(c) PROVE WatchdogOK(d)'
  <2>1. UNCHANGED <<client, answer, gone, clientAge, sessionOf, queued>>
        /\ conn'[d] \in {"none", "closed"}
    BY <1>9 DEF WriteFails, EndSessions
  <2> QED BY <1>0, <2>1, BrokerStepIsFair
<1>10. ASSUME NEW s \in Session, QueryFinishes(s) PROVE WatchdogOK(d)'
  <2>1. PICK result \in {"ok", "sql_error"} : Respond({running[s]}, result, conn)
    BY <1>10 DEF QueryFinishes
  <2>2. Pump(s, waiting[s])
        /\ UNCHANGED <<client, answer, unread, gone, clientAge, sessionOf, open, queued>>
    BY <1>10 DEF QueryFinishes
  <2>3. \A t \in Session \ {s} : running'[t] = running[t]
    BY <1>0, <2>2, PumpFacts
  <2>4. \/ d = running[s] /\ conn[d] = "executing" /\ conn'[d] = "responding"
           /\ reply'[d] = result
        \/ ~(d = running[s] /\ conn[d] = "executing") /\ conn'[d] = conn[d]
           /\ reply'[d] = reply[d]
    BY <1>0, <2>1, RespondFacts
  <2>5. d \notin queued => runAge'[d] = runAge[d]
    <3>1. waiting[s] \in Seq(Client) /\ runAge \in [Client -> Nat] /\ QueueOK(s)
      BY <1>0 DEF TypeOK, SessionsOK, QueueInv
    <3>2. CASE waiting[s] = <<>>
      BY <2>2, <3>2 DEF Pump
    <3>3. CASE waiting[s] # <<>>
      <4>1. Head(waiting[s]) = waiting[s][1] /\ 1 \in 1 .. Len(waiting[s])
        BY <3>1, <3>3, TailFacts
      <4>2. Head(waiting[s]) \in queued
        BY <3>1, <4>1 DEF QueueOK
      <4> QED BY <2>2, <3>1, <3>3, <4>2 DEF Pump
    <3> QED BY <3>2, <3>3
  <2>6. client[d] = "waiting" => WaitsFairly(d)
    BY <1>0 DEF WatchdogOK
  <2>7. sessionOf[d] \in Session
    BY <1>0
  <2>8. client[d] = "waiting" =>
              /\ conn'[d] \in {"backlog", "reading"} =>
                    conn[d] \in {"backlog", "reading"} /\ (d \in unread => d \in unread')
              /\ conn'[d] = "responding" => reply'[d] # "none"
              /\ conn'[d] = "executing" /\ d \notin queued' =>
                    running'[sessionOf[d]] = d /\ clientAge[d] <= runAge'[d]
    BY <2>2, <2>3, <2>4, <2>5, <2>6, <2>7 DEF WaitsFairly
  <2> QED BY <1>0, <2>2, <2>8, BrokerStepIsFair
<1>11. ASSUME NEW s \in Session, SessionFails(s) \/ SessionTimesOut(s) PROVE WatchdogOK(d)'
  <2>1. PICK result \in {"runner", "timeout"} :
           Respond(UNION {Held(t) : t \in {s}}, result, conn)
    <3>1. UNION {Held(t) : t \in {s}} = Held(s)
      OBVIOUS
    <3> QED BY <1>11, <3>1 DEF SessionFails, SessionTimesOut
  <2>2. EndSessions({s}) /\ UNCHANGED <<client, answer, unread, gone, clientAge>>
    BY <1>11 DEF SessionFails, SessionTimesOut
  <2> QED BY <1>0, <2>1, <2>2, EndingIsFair
<1>12. CASE Shutdown
  <2> DEFINE ends == [c \in Client |-> IF c \in Backlog THEN "closed" ELSE conn[c]]
  <2>1. /\ ends \in [Client -> Connections]
        /\ \A c \in Client : ends[c] = "executing" => conn[c] = "executing"
        /\ ends[d] \in {conn[d], "closed"}
    BY <1>0 DEF Connections
  <2>2. Respond(UNION {Held(s) : s \in Session}, "runner", ends) /\ EndSessions(open)
        /\ UNCHANGED <<client, answer, unread, gone, clientAge>>
    BY <1>12 DEF Shutdown
  <2>3. sessionOf' = sessionOf /\ queued' = queued
    BY <2>2 DEF EndSessions
  <2> HIDE DEF ends
  <2>4. conn'[d] # "executing"
    <3>1. conn'[d] = "executing" <=> ends[d] = "executing" /\ sessionOf[d] \notin Session
      BY <1>0, <2>1, <2>2, HeldWhenAnswered
    <3> QED BY <1>0, <3>1
  <2>5. \/ conn'[d] = "responding" /\ reply'[d] = "runner"
        \/ conn'[d] = ends[d] /\ reply'[d] = reply[d]
    BY <2>1, <2>2, RespondFacts
  <2>6. client[d] = "waiting" => WaitsFairly(d)
    BY <1>0 DEF WatchdogOK
  <2>7. client[d] = "waiting" =>
              /\ conn'[d] \in {"backlog", "reading"} =>
                    conn[d] \in {"backlog", "reading"} /\ (d \in unread => d \in unread')
              /\ conn'[d] = "responding" => reply'[d] # "none"
    BY <2>1, <2>2, <2>5, <2>6 DEF WaitsFairly
  <2> QED BY <1>0, <2>2, <2>3, <2>4, <2>7, BrokerStepIsFair
<1>13. CASE Exit
  <2>1. /\ EndSessions(open) /\ active = 0
        /\ UNCHANGED <<client, answer, unread, reply, gone, conn, clientAge>>
    BY <1>13 DEF Exit, wireVars
  <2>2. conn[d] # "executing"
    <3>1. IsFiniteSet(OpenConnections) /\ Cardinality(OpenConnections) = 0
      BY <2>1, ConnectionAssumption, FS_Subset DEF OpenConnections, CountIsExact
    <3>2. OpenConnections = {}
      BY <3>1, FS_EmptySet
    <3> QED BY <3>2 DEF OpenConnections, Counted
  <2>3. sessionOf' = sessionOf /\ queued' = queued
    BY <2>1 DEF EndSessions
  <2>4. client[d] = "waiting" => WaitsFairly(d)
    BY <1>0 DEF WatchdogOK
  <2> QED BY <1>0, <2>1, <2>2, <2>3, <2>4, BrokerStepIsFair DEF WaitsFairly
<1>14. CASE Tick
  BY <1>0, <1>14, TickIsFair
<1> QED BY <1>1, <1>2, <1>3, <1>4, <1>5, <1>6, <1>7, <1>8, <1>9, <1>10, <1>11, <1>12, <1>13,
           <1>14 DEF Next, Sigterm, IdleShutdown

\* The local watchdog is a backstop: if bytes and timers are handled within a
\* tick, it fires only for a query that had to wait for another one, for any
\* deadline and grace and any number of clients and sessions.  Without Prompt
\* it is false: a broker that is late lets the watchdog fire first.
THEOREM WatchdogComesLast ==
    ASSUME Prompt
    PROVE  Spec => []WatchdogIsBackstop
<1>1. Init => WatchdogInv
  BY ConnectionAssumption DEF Init, WatchdogInv, WatchdogOK
<1>2. QueueInv /\ ConnInv /\ HeldForSomeone /\ TypeOK /\ CountIsExact /\ WatchdogInv
         /\ [Next]_vars => WatchdogInv'
  <2> SUFFICES ASSUME QueueInv, ConnInv, HeldForSomeone, TypeOK, CountIsExact, WatchdogInv,
                      [Next]_vars
               PROVE  WatchdogInv'
    OBVIOUS
  <2>1. CASE Next
    <3>1. ServiceInv
      BY DEF ServiceInv
    <3> QED BY <2>1, <3>1, WatchdogStep DEF WatchdogInv
  <2>2. CASE UNCHANGED vars
    BY <2>2 DEF vars, sessionVars, wireVars, WatchdogInv, WatchdogOK, WaitsFairly
  <2> QED BY <2>1, <2>2
<1>3. WatchdogInv => WatchdogIsBackstop
  BY DEF WatchdogInv, WatchdogOK, WatchdogIsBackstop
<1> QED BY <1>1, <1>2, <1>3, ServiceCorrect, ConnectionTypeCorrect, ConnectionsAreCounted, PTL
        DEF Spec
-----------------------------------------------------------------------------
\* A step ends one session at most, whatever fails or is cancelled, unless it
\* is the broker that ends: what CancelSparesOthers asks of every step is
\* missed by the end of the process alone (server.js:80-81).
THEOREM OneSessionEnds ==
    Spec => [][broker' = broker => Cardinality(open \ open') <= 1]_vars
<1>1. ASSUME [Next]_vars, broker' = broker
      PROVE  Cardinality(open \ open') <= 1
  <2>1. ASSUME open \subseteq open' PROVE Cardinality(open \ open') <= 1
    <3>1. open \ open' = {}
      BY <2>1
    <3> QED BY <3>1, FS_EmptySet
  <2>2. ASSUME NEW s, EndSessions({s}) PROVE Cardinality(open \ open') <= 1
    <3>1. open \ open' \subseteq {s}
      BY <2>2 DEF EndSessions
    <3>2. Cardinality(open \ open') <= Cardinality({s})
      BY <3>1, FS_Singleton, FS_Subset
    <3>3. IsFiniteSet(open \ open')
      BY <3>1, FS_Singleton, FS_Subset
    <3> QED BY <3>2, <3>3, FS_Singleton, FS_CardinalityType
  <2>3. ASSUME NEW c \in Client,
               \/ Run(c) \/ RunCancelled(c) \/ ClientReceives(c) \/ ClientLoses(c)
               \/ Cancel(c) \/ Watchdog(c) \/ Accept(c) \/ Refuse(c) \/ Execute(c)
        PROVE  open \subseteq open'
    BY <2>3 DEF Run, RunCancelled, ClientReceives, ClientLoses, Cancel, Watchdog, Accept,
                Refuse, Execute, sessionVars
  <2>4. ASSUME NEW c \in Client, SeeClose(c)
        PROVE  open \subseteq open' \/ \E s : EndSessions({s})
    BY <2>4 DEF SeeClose, AbortQuery, sessionVars
  <2>5. ASSUME NEW c \in Client, WriteFails(c) PROVE FALSE
    BY <1>1, <2>5 DEF WriteFails
  <2>6. ASSUME NEW s \in Session, QueryFinishes(s) \/ SessionFails(s) \/ SessionTimesOut(s)
        PROVE  open \subseteq open' \/ EndSessions({s})
    BY <2>6 DEF QueryFinishes, SessionFails, SessionTimesOut
  <2>7. ~Shutdown /\ ~Exit
    BY <1>1 DEF Shutdown, Exit
  <2>8. CASE Tick \/ UNCHANGED vars
    BY <2>1, <2>8 DEF Tick, vars, sessionVars
  <2> QED BY <1>1, <2>1, <2>2, <2>3, <2>4, <2>5, <2>6, <2>7, <2>8
          DEF Next, Sigterm, IdleShutdown
<1> QED BY <1>1, PTL DEF Spec
=============================================================================
