------------------------- MODULE BrokerConnection -------------------------
(***************************************************************************)
(* One query of each client over a connection of its own to the broker:    *)
(* BrokerClient.run of src/backend/broker-client.js at one end, the        *)
(* connection handler and the shutdown of src/broker/server.js at the      *)
(* other, and behind it the sessions, of which only the order of service   *)
(* matters here (PersistentSession and SessionManager have the rest).      *)
(*                                                                         *)
(* A client's steps and the broker's steps interleave; bytes that one has  *)
(* written, and the close of its end, are seen by the other in a later     *)
(* step.  Time is counted in ticks; Deadline is timeoutMs and Grace is     *)
(* LOCAL_WATCHDOG_GRACE_MS.                                                *)
(***************************************************************************)
EXTENDS Integers, Sequences, FiniteSets, Functions

CONSTANTS
    Client,
    Session,      \* the profiles in use: one session each
    NoClient,
    Deadline,
    Grace,
    Prompt        \* bytes and timers are handled within a tick

ASSUME ConnectionAssumption ==
    /\ IsFiniteSet(Client)
    /\ NoClient \notin Client
    /\ Deadline \in Nat \ {0} /\ Grace \in Nat \ {0}
    /\ Prompt \in BOOLEAN

VARIABLES
    client,       \* of a run: idle, waiting, or settled
    answer,       \* what it is settled with
    unread,       \* connections whose request the broker has not read yet
    reply,        \* the response on its way to the client
    gone,         \* clients that have destroyed their socket
    conn,         \* the connection at the broker's end
    active,       \* activeConnections
    broker,       \* up, closing (shutdown was called) or down
    sessionOf,    \* the profile of a client's query
    open,         \* sessions in the manager's map
    running,      \* the query a session is serving
    waiting,      \* the queue of a session
    queued,       \* history: queries that found their session busy
    clientAge,    \* ticks since the client armed its watchdog
    runAge        \* ticks since the query became the current one

sessionVars == <<sessionOf, open, running, waiting, runAge, queued>>
wireVars == <<unread, reply, gone>>
vars == <<client, answer, wireVars, conn, active, broker, sessionVars, clientAge>>

Connections == {"none", "backlog", "reading", "executing", "responding", "closed"}
Counted(c) == conn[c] \in {"reading", "executing", "responding"}
Held(s) == ({running[s]} \cup Range(waiting[s])) \ {NoClient}
MaxAge == Deadline + Grace

(***************************************************************************)
(* The client.                                                             *)
(***************************************************************************)
Run(c) ==
    /\ client[c] = "idle"
    /\ broker = "up"
    /\ client' = [client EXCEPT ![c] = "waiting"]
    /\ conn' = [conn EXCEPT ![c] = "backlog"]
    /\ unread' = unread \cup {c}
    /\ UNCHANGED <<answer, reply, gone, active, broker, sessionVars, clientAge>>

\* fail, and the end of a good response: settled once, the socket destroyed.
Settle(c, a) ==
    /\ client[c] = "waiting"
    /\ client' = [client EXCEPT ![c] = "settled"]
    /\ answer' = [answer EXCEPT ![c] = a]
    /\ gone' = gone \cup {c}

\* The signal had fired before run: nothing is written on the connection.
RunCancelled(c) ==
    /\ client[c] = "idle"
    /\ broker = "up"
    /\ client' = [client EXCEPT ![c] = "settled"]
    /\ answer' = [answer EXCEPT ![c] = "cancelled"]
    /\ gone' = gone \cup {c}
    /\ conn' = [conn EXCEPT ![c] = "backlog"]
    /\ UNCHANGED <<unread, reply, active, broker, sessionVars, clientAge>>

ClientReceives(c) ==
    /\ reply[c] # "none"
    /\ Settle(c, reply[c])
    /\ reply' = [reply EXCEPT ![c] = "none"]
    /\ UNCHANGED <<unread, conn, active, broker, sessionVars, clientAge>>

\* The connection ends before a complete packet.
ClientLoses(c) ==
    /\ conn[c] = "closed"
    /\ reply[c] = "none"
    /\ Settle(c, "lost")
    /\ UNCHANGED <<unread, reply, conn, active, broker, sessionVars, clientAge>>

Cancel(c) ==
    /\ Settle(c, "cancelled")
    /\ UNCHANGED <<unread, reply, conn, active, broker, sessionVars, clientAge>>

\* Mutants: the watchdog is armed without its grace, or for connecting only.
WatchdogDueEarly(c) == client[c] = "waiting" /\ clientAge[c] >= Deadline
WatchdogDueConnecting(c) == conn[c] = "backlog" /\ clientAge[c] >= Deadline + Grace
WatchdogDue(c) == client[c] = "waiting" /\ clientAge[c] >= Deadline + Grace

Watchdog(c) ==
    /\ WatchdogDue(c)
    /\ Settle(c, "watchdog")
    /\ UNCHANGED <<unread, reply, conn, active, broker, sessionVars, clientAge>>

(***************************************************************************)
(* Sessions.  The answers of the queries in out are written on those of    *)
(* the connections, given as ends, that have not closed.                   *)
(***************************************************************************)
Respond(out, result, ends) ==
    LET told == {c \in out : ends[c] = "executing"}
    IN  /\ conn' = [c \in Client |-> IF c \in told THEN "responding" ELSE ends[c]]
        /\ reply' = [c \in Client |-> IF c \in told THEN result ELSE reply[c]]

\* pump of session s with the queue q.
Pump(s, q) ==
    /\ running' = [running EXCEPT ![s] = IF q = <<>> THEN NoClient ELSE Head(q)]
    /\ waiting' = [waiting EXCEPT ![s] = IF q = <<>> THEN q ELSE Tail(q)]
    /\ runAge' = IF q = <<>> THEN runAge ELSE [runAge EXCEPT ![Head(q)] = 0]

\* failAll of each session of S.
EndSessions(S) ==
    /\ open' = open \ S
    /\ running' = [s \in Session |-> IF s \in S THEN NoClient ELSE running[s]]
    /\ waiting' = [s \in Session |-> IF s \in S THEN <<>> ELSE waiting[s]]
    /\ UNCHANGED <<sessionOf, runAge, queued>>

QueryFinishes(s) ==
    /\ running[s] # NoClient
    /\ \E result \in {"ok", "sql_error"} : Respond({running[s]}, result, conn)
    /\ Pump(s, waiting[s])
    /\ UNCHANGED <<client, answer, unread, gone, active, broker, sessionOf, open,
                   queued, clientAge>>

\* The relay, SSH or the adapter fails, or an idle session is cleaned up.
SessionFails(s) ==
    /\ s \in open
    /\ Respond(Held(s), "runner", conn)
    /\ EndSessions({s})
    /\ UNCHANGED <<client, answer, unread, gone, active, broker, clientAge>>

DeadlineDue(s) == running[s] # NoClient /\ runAge[running[s]] >= Deadline

SessionTimesOut(s) ==
    /\ DeadlineDue(s)
    /\ Respond(Held(s), "timeout", conn)
    /\ EndSessions({s})
    /\ UNCHANGED <<client, answer, unread, gone, active, broker, clientAge>>

(***************************************************************************)
(* The connection handler.                                                 *)
(***************************************************************************)
Accept(c) ==
    /\ broker = "up"
    /\ conn[c] = "backlog"
    /\ conn' = [conn EXCEPT ![c] = "reading"]
    /\ active' = active + 1
    /\ UNCHANGED <<client, answer, wireVars, broker, sessionVars, clientAge>>

ReadPacket(c) ==
    /\ broker # "down"
    /\ conn[c] = "reading"
    /\ c \in unread
    /\ unread' = unread \ {c}

\* validateRequest or loadProfile throws.
Refuse(c) ==
    /\ ReadPacket(c)
    /\ conn' = [conn EXCEPT ![c] = "responding"]
    /\ reply' = [reply EXCEPT ![c] = "runner"]
    /\ UNCHANGED <<client, answer, gone, active, broker, sessionVars, clientAge>>

\* manager.execute: also while the broker is closing.
Execute(c) ==
    /\ ReadPacket(c)
    /\ conn' = [conn EXCEPT ![c] = "executing"]
    /\ LET s == sessionOf[c]
       IN  /\ open' = open \cup {s}
           /\ IF running[s] = NoClient
              THEN Pump(s, Append(waiting[s], c)) /\ UNCHANGED queued
              ELSE /\ waiting' = [waiting EXCEPT ![s] = Append(@, c)]
                   /\ queued' = queued \cup {c}
                   /\ UNCHANGED <<running, runAge>>
    /\ UNCHANGED <<client, answer, reply, gone, active, broker, sessionOf, clientAge>>

\* The queue q without its i-th query.
Without(q, i) == [j \in 1 .. Len(q) - 1 |-> IF j < i THEN q[j] ELSE q[j + 1]]

\* Mutant: the listener that aborts the query is removed too early.
AbortNever(c, ends) == conn' = ends /\ UNCHANGED <<sessionVars, reply>>

\* The AbortSignal of a connection that closed: a current query takes its
\* session with it, a waiting one is dropped.
AbortQuery(c, ends) ==
    LET s == sessionOf[c]
    IN  \/ /\ c \notin Held(s)
           /\ conn' = ends
           /\ UNCHANGED <<sessionVars, reply>>
        \/ /\ running[s] = c
           /\ Respond(Held(s), "runner", ends)
           /\ EndSessions({s})
        \/ /\ \E i \in DOMAIN waiting[s] :
                 /\ waiting[s][i] = c
                 /\ waiting' = [waiting EXCEPT ![s] = Without(@, i)]
           /\ conn' = ends
           /\ UNCHANGED <<sessionOf, open, running, runAge, queued, reply>>

\* Mutant: a connection that closes in its query aborts that and is not
\* counted down.
SeeCloseAbortOnly(c) ==
    /\ broker # "down"
    /\ c \in gone
    /\ Counted(c)
    /\ active' = IF conn[c] = "executing" THEN active ELSE active - 1
    /\ unread' = unread \ {c}
    /\ AbortQuery(c, [conn EXCEPT ![c] = "closed"])
    /\ UNCHANGED <<client, answer, gone, broker, clientAge>>

\* 'close' of the socket.
SeeClose(c) ==
    /\ broker # "down"
    /\ c \in gone
    /\ Counted(c)
    /\ active' = active - 1
    /\ unread' = unread \ {c}
    /\ AbortQuery(c, [conn EXCEPT ![c] = "closed"])
    /\ UNCHANGED <<client, answer, gone, broker, clientAge>>

(***************************************************************************)
(* The end of the broker.                                                  *)
(***************************************************************************)
Backlog == {c \in Client : conn[c] = "backlog"}

\* shutdown: the manager closes, and the connections in the backlog are
\* dropped; those that were accepted run to their end.
Shutdown ==
    /\ broker = "up"
    /\ broker' = "closing"
    /\ Respond(UNION {Held(s) : s \in Session}, "runner",
               [c \in Client |-> IF c \in Backlog THEN "closed" ELSE conn[c]])
    /\ EndSessions(open)
    /\ UNCHANGED <<client, answer, unread, gone, active, clientAge>>

Sigterm == Shutdown

\* The idle check of main, 60 s after the last activity.
IdleShutdown ==
    /\ open = {}
    /\ active = 0
    /\ Shutdown

\* The callback of server.close: process.exit.
Exit ==
    /\ broker = "closing"
    /\ active = 0
    /\ broker' = "down"
    /\ EndSessions(open)
    /\ UNCHANGED <<client, answer, wireVars, conn, active, clientAge>>

(***************************************************************************)
(* The response meets a socket the client has destroyed.  readPacket has   *)
(* removed its 'error' listener, and an 'error' event without a listener   *)
(* ends the process; what it had written elsewhere may be cut short.       *)
(***************************************************************************)
WriteFails(c) ==
    /\ broker # "down"
    /\ conn[c] = "responding"
    /\ c \in gone
    /\ reply[c] # "none"
    /\ broker' = "down"
    /\ conn' = [d \in Client |-> IF conn[d] = "none" THEN "none" ELSE "closed"]
    /\ \E cut \in SUBSET Client :
          reply' = [d \in Client |-> IF d \in cut THEN "none" ELSE reply[d]]
    /\ active' = 0
    /\ EndSessions(open)
    /\ UNCHANGED <<client, answer, unread, gone, clientAge>>

(***************************************************************************)
(* Time.  Bound: ages are not counted beyond the watchdog's.               *)
(***************************************************************************)
Pending ==
    \/ \E c \in Client :
          \/ WatchdogDue(c)
          \/ broker = "up" /\ conn[c] = "backlog"
          \/ conn[c] = "reading" /\ c \in unread
          \/ Counted(c) /\ c \in gone
          \/ client[c] = "waiting" /\ (reply[c] # "none" \/ conn[c] = "closed")
    \/ \E s \in Session : DeadlineDue(s)

Tick ==
    /\ Prompt => ~Pending
    /\ clientAge' = [c \in Client |-> IF client[c] = "waiting" /\ clientAge[c] < MaxAge
                                      THEN clientAge[c] + 1 ELSE clientAge[c]]
    /\ runAge' = [c \in Client |-> IF c \in Range(running) /\ runAge[c] < MaxAge
                                   THEN runAge[c] + 1 ELSE runAge[c]]
    /\ <<clientAge, runAge>>' # <<clientAge, runAge>>
    /\ UNCHANGED <<client, answer, wireVars, conn, active, broker, sessionOf, open,
                   running, waiting, queued>>

Init ==
    /\ client = [c \in Client |-> "idle"]
    /\ answer = [c \in Client |-> "none"]
    /\ unread = {} /\ gone = {} /\ open = {} /\ queued = {}
    /\ reply = [c \in Client |-> "none"]
    /\ conn = [c \in Client |-> "none"]
    /\ active = 0
    /\ broker = "up"
    /\ sessionOf \in [Client -> Session]
    /\ running = [s \in Session |-> NoClient]
    /\ waiting = [s \in Session |-> <<>>]
    /\ clientAge = [c \in Client |-> 0]
    /\ runAge = [c \in Client |-> 0]

Next ==
    \/ \E c \in Client :
          \/ Run(c) \/ RunCancelled(c) \/ ClientReceives(c) \/ ClientLoses(c)
          \/ Cancel(c) \/ Watchdog(c)
          \/ Accept(c) \/ Refuse(c) \/ Execute(c) \/ SeeClose(c) \/ WriteFails(c)
    \/ \E s \in Session : QueryFinishes(s) \/ SessionFails(s) \/ SessionTimesOut(s)
    \/ Sigterm \/ IdleShutdown \/ Exit
    \/ Tick

\* Timers fire and time passes; the broker's event loop takes the events it
\* has.  Nothing is assumed of the sessions, which may hang.
Fairness ==
    /\ WF_vars(Tick)
    /\ \A c \in Client : WF_vars(Watchdog(c)) /\ WF_vars(SeeClose(c))
    /\ WF_vars(Exit)

Spec == Init /\ [][Next]_vars
FairSpec == Spec /\ Fairness
-----------------------------------------------------------------------------
\* A session holds exactly the queries whose connection waits for an answer:
\* none is forgotten, and none runs, or is left to run, for a client that the
\* broker knows to be gone (server.js:68-91).
HeldForSomeone ==
    \A c \in Client : conn[c] = "executing" <=> c \in Held(sessionOf[c])

\* activeConnections is the number of connections that are open at the
\* broker, so the idle check never stops a broker that is serving one
\* (server.js:66, 95, 128).
CountIsExact == active = Cardinality({c \in Client : Counted(c)})

\* The local watchdog is a backstop: with bytes and timers handled within its
\* grace, it fires only for a query that had to wait for another one; any
\* other is answered by the broker first (broker-client.js:14, 164).
WatchdogIsBackstop == \A c \in Client : answer[c] = "watchdog" => c \in queued

\* A cancelled query destroys its session and no other: unless the broker is
\* shut down, no step ends two sessions (README.md:138, server.js:80-81).
CancelSparesOthers ==
    [][broker' # "closing" => Cardinality(open \ open') <= 1]_vars

\* Every query is settled, even if the broker or its session hangs
\* (broker-client.js:164-180).
EveryRunSettles == \A c \in Client : client[c] = "waiting" ~> client[c] = "settled"

\* A client that goes away, by cancellation, by its watchdog or with its
\* process, takes its query out of the session, however long that would run
\* (server.js:68-70).
DisconnectReachesSession ==
    \A c \in Client : c \in gone ~> c \notin Held(sessionOf[c])

\* A broker that was told to stop stops: no client and no session can keep it
\* (server.js:105-111).
ShutdownEnds == broker = "closing" ~> broker = "down"
=============================================================================
