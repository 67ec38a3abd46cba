------------------------- MODULE PersistentSession -------------------------
(***************************************************************************)
(* One persistent session of the broker, src/broker/persistent-session.js, *)
(* with the Expect child it drives.  Every action is one turn of Node's    *)
(* event loop: a call of execute, an abort signal, a timer, an event of    *)
(* the child.  The handlers run to completion, so a step does everything   *)
(* its handler does, the calls it makes to pump, sendCurrent and failAll   *)
(* included.                                                               *)
(*                                                                         *)
(* An item of the queue is its request; the fields of the item are the     *)
(* sets cancelled, timers and listeners and the promise is outcome.        *)
(***************************************************************************)
EXTENDS ExpectAdapter, Functions

CONSTANT
    RowLimit      \* maxResultBytes, in pieces of XML

ASSUME RowLimitAssumption == RowLimit \in Nat

VARIABLES
    queue,        \* requests accepted and not yet taken, in order
    current,      \* the request being served
    parser,       \* the state of the current item's SessionResultParser
    received,     \* what that parser has buffered
    ready,        \* the READY marker was seen
    dead,         \* the session has ended
    stale,        \* ttlMs have passed since lastUsedAt
    signalled,    \* failAll has sent SIGTERM to the child's process group
    cancelled,    \* item.cancelled
    timers,       \* requests whose timer is armed
    listeners,    \* requests whose abort listener is registered
    aborted,      \* requests whose AbortSignal has fired
    outcome,      \* what each promise is settled with
    accepted,     \* history: the requests pushed on the queue, in order
    begun         \* history: the requests that have become current

itemVars == <<cancelled, timers, listeners, outcome>>
historyVars == <<accepted, begun>>
sessionVars == <<queue, current, parser, received, ready, dead, stale, signalled>>
vars == <<adapterVars, sessionVars, itemVars, historyVars, aborted>>

Categories == {"relay_login", "ssh", "timeout", "result_too_large", "runner",
               "mysql_connection", "sql_error"}
\* A promise: pending, resolved with output, or rejected with a category;
\* "local" is the runner error of a query that was cancelled locally.
Promise(state, output) == [state |-> state, output |-> output]
Pending == Promise("pending", <<>>)
Outcomes == [state : {"pending", "local", "resolved"} \cup Categories,
             output : Seq(Tokens)]
Settled(r) == outcome[r] # Pending

ExitCategory(code) ==
    CASE code = 10 -> "relay_login"
      [] code = 11 -> "ssh"
      [] code = 12 -> "mysql_connection"
      [] code = 13 -> "sql_error"
      [] code = 14 -> "timeout"
      [] OTHER -> "runner"

Accepted == Range(accepted)
Before(a, b) == \E i, j \in DOMAIN accepted :
                   i < j /\ accepted[i] = a /\ accepted[j] = b

\* Mutant: failAll of the current item only.
HeldCurrentOnly(cur, q) == {cur} \ {NoRequest}

\* The items a failing session holds.
Held(cur, q) == ({cur} \cup Range(q)) \ {NoRequest}

\* Settle the promises of S that no one has settled.
Settle(S, promise, out) ==
    [r \in Request |-> IF r \in S /\ out[r] = Pending THEN promise ELSE out[r]]

\* Mutant: only a session that has logged in terminates its child.
TerminateReady == signalled' = ready

\* terminateProcessGroup: SIGTERM, then SIGKILL, to the child if there is one.
Terminate == signalled' = (adapter # "none")

(***************************************************************************)
(* failAll: the session ends, every item it holds that is not cancelled    *)
(* is rejected with the category, and the child is terminated.             *)
(***************************************************************************)
FailAll(category, items, canc, out) ==
    /\ dead' = TRUE
    /\ queue' = <<>>
    /\ current' = NoRequest
    /\ parser' = "none"
    /\ received' = <<>>
    /\ timers' = timers \ items
    /\ listeners' = listeners \ items
    /\ outcome' = Settle(items \ canc, Promise(category, <<>>), out)
    /\ cancelled' = canc \cup items
    /\ Terminate
    /\ UNCHANGED <<ready, stale>>

Fail(category) == FailAll(category, Held(current, queue), cancelled, outcome)

\* Mutant: one parser for all requests, its buffer never emptied.
SendCurrentSameParser(r) ==
    /\ parser' = "start"
    /\ stdin' = Append(stdin, r)
    /\ UNCHANGED received

\* sendCurrent for a request that has no parser yet.
SendCurrent(r) ==
    /\ parser' = "start"
    /\ received' = <<>>
    /\ stdin' = Append(stdin, r)

(***************************************************************************)
(* pump with the queue q and no current request: cancelled items are       *)
(* dropped from the head, the next one becomes current, its timer is armed *)
(* and, when the session is ready, it is sent.  armed are the timers the   *)
(* caller has left.                                                        *)
(***************************************************************************)
\* Mutant: the timer of the finished request is left armed.
PumpNothingTimerLeft(q, armed) ==
    /\ \A i \in DOMAIN q : q[i] \in cancelled
    /\ queue' = <<>> /\ current' = NoRequest
    /\ parser' = "none" /\ received' = <<>>
    /\ UNCHANGED <<stdin, begun, timers>>

PumpNothing(q, armed) ==
    /\ \A i \in DOMAIN q : q[i] \in cancelled
    /\ queue' = <<>>
    /\ current' = NoRequest
    /\ parser' = "none"
    /\ received' = <<>>
    /\ timers' = armed
    /\ UNCHANGED <<stdin, begun>>

PumpNext(q, armed) ==
    \E i \in DOMAIN q :
       /\ q[i] \notin cancelled
       /\ \A j \in 1 .. i - 1 : q[j] \in cancelled
       /\ queue' = SubSeq(q, i + 1, Len(q))
       /\ current' = q[i]
       /\ begun' = begun \cup {q[i]}
       /\ timers' = armed \cup {q[i]}
       /\ IF ready THEN SendCurrent(q[i])
                   ELSE parser' = "none" /\ received' = <<>> /\ UNCHANGED stdin

Pump(q, armed) == PumpNothing(q, armed) \/ PumpNext(q, armed)

(***************************************************************************)
(* execute.  The session manager never calls it on a dead session          *)
(* (session-manager.js:31).                                                *)
(***************************************************************************)
MayExecuteDead(r) == r \notin Accepted /\ r \notin cancelled \* mutant
MayExecute(r) == ~dead /\ r \notin Accepted /\ r \notin cancelled

Submit(r) ==
    /\ MayExecute(r)
    /\ r \notin aborted
    /\ listeners' = listeners \cup {r}
    /\ accepted' = Append(accepted, r)

\* The first request also starts the child: it logs in while the item waits.
ExecuteFirst(r) ==
    /\ Submit(r)
    /\ current = NoRequest
    /\ adapter = "none"
    /\ adapter' = "login"
    /\ Pump(Append(queue, r), timers)
    /\ UNCHANGED <<serving, stdout, exitCode, printed, reported, ready, dead,
                   stale, signalled, cancelled, outcome, aborted>>

\* spawn throws: the catch of pump fails the session.
ExecuteStartFails(r) ==
    /\ MayExecute(r)
    /\ r \notin aborted
    /\ current = NoRequest
    /\ adapter = "none"
    /\ accepted' = Append(accepted, r)
    /\ begun' = begun \cup {r}
    /\ FailAll("runner", Held(r, queue), cancelled, outcome)
    /\ UNCHANGED <<adapterVars, aborted>>

\* Mutant: unshift for push.
ExecuteQueuedFirst(r) ==
    /\ Submit(r)
    /\ current # NoRequest
    /\ queue' = <<r>> \o queue
    /\ UNCHANGED <<adapterVars, current, parser, received, ready, dead, stale,
                   signalled, cancelled, timers, outcome, begun, aborted>>

\* Another request is being served: pump returns at once.
ExecuteQueued(r) ==
    /\ Submit(r)
    /\ current # NoRequest
    /\ queue' = Append(queue, r)
    /\ UNCHANGED <<adapterVars, current, parser, received, ready, dead, stale,
                   signalled, cancelled, timers, outcome, begun, aborted>>

ExecuteNext(r) ==
    /\ Submit(r)
    /\ adapter # "none"
    /\ current = NoRequest
    /\ Pump(Append(queue, r), timers)
    /\ UNCHANGED <<adapter, serving, stdout, exitCode, printed, reported, ready,
                   dead, stale, signalled, cancelled, outcome, aborted>>

\* The signal had fired before the call: rejected, and never queued.
ExecuteAborted(r) ==
    /\ MayExecute(r)
    /\ r \in aborted
    /\ cancelled' = cancelled \cup {r}
    /\ outcome' = Settle({r}, Promise("local", <<>>), outcome)
    /\ UNCHANGED <<adapterVars, sessionVars, timers, listeners, historyVars,
                   aborted>>

Execute(r) ==
    \/ ExecuteFirst(r) \/ ExecuteStartFails(r) \/ ExecuteQueued(r)
    \/ ExecuteNext(r) \/ ExecuteAborted(r)

(***************************************************************************)
(* item.abort: the caller's AbortSignal fires.  An item that waits in the  *)
(* queue is only marked; the current one takes the session with it.        *)
(***************************************************************************)
AbortUnheard(r) ==
    /\ r \notin listeners \/ r \in cancelled
    /\ listeners' = listeners \ {r}
    /\ UNCHANGED <<adapterVars, sessionVars, cancelled, timers, outcome,
                   historyVars>>

AbortWaiting(r) ==
    /\ r \in listeners \ cancelled
    /\ current # r
    /\ listeners' = listeners \ {r}
    /\ cancelled' = cancelled \cup {r}
    /\ outcome' = Settle({r}, Promise("local", <<>>), outcome)
    /\ UNCHANGED <<adapterVars, sessionVars, timers, historyVars>>

\* Mutant: the session outlives the query that was cancelled.
AbortCurrentStays(r) ==
    /\ r \in listeners \ cancelled
    /\ current = r
    /\ listeners' = listeners \ {r}
    /\ cancelled' = cancelled \cup {r}
    /\ outcome' = Settle({r}, Promise("local", <<>>), outcome)
    /\ UNCHANGED <<adapterVars, sessionVars, timers, historyVars>>

AbortCurrent(r) ==
    /\ r \in listeners \ cancelled
    /\ current = r
    /\ FailAll("runner", Held(current, queue), cancelled \cup {r},
               Settle({r}, Promise("local", <<>>), outcome))
    /\ UNCHANGED <<adapterVars, historyVars>>

Abort(r) ==
    /\ r \notin aborted
    /\ aborted' = aborted \cup {r}
    /\ AbortUnheard(r) \/ AbortWaiting(r) \/ AbortCurrent(r)

\* Mutant: the query is rejected, and the session is left waiting for it.
TimeoutStays(r) ==
    /\ r \in timers
    /\ r \notin cancelled
    /\ timers' = timers \ {r}
    /\ cancelled' = cancelled \cup {r}
    /\ outcome' = Settle({r}, Promise("timeout", <<>>), outcome)
    /\ UNCHANGED <<adapterVars, sessionVars, listeners, historyVars, aborted>>

\* The timer that pump armed fires.
Timeout(r) ==
    /\ r \in timers
    /\ r \notin cancelled
    /\ FailAll("timeout", Held(current, queue), cancelled \cup {r},
               Settle({r}, Promise("timeout", <<>>), outcome))
    /\ UNCHANGED <<adapterVars, historyVars, aborted>>

(***************************************************************************)
(* onStdout, one token at a time.  A chunk is delivered in pieces the      *)
(* markers do not depend on; a chunk that ends the session or completes a  *)
(* request drops nothing the adapter prints for a later one.               *)
(***************************************************************************)
Deliver(kind) ==
    /\ ~dead
    /\ stdout # <<>>
    /\ Head(stdout).kind = kind
    /\ stdout' = Tail(stdout)

StdoutReady ==
    /\ ~ready
    /\ Deliver("ready")
    /\ ready' = TRUE
    /\ IF current # NoRequest /\ parser = "none" /\ current \notin cancelled
       THEN SendCurrent(current)
       ELSE UNCHANGED <<parser, received, stdin>>
    /\ UNCHANGED <<adapter, serving, exitCode, printed, reported, queue,
                   current, dead, stale, signalled, itemVars, historyVars, aborted>>

\* Before READY a little other output is put up with, more fails the session.
StdoutBeforeReady ==
    /\ ~ready
    /\ Deliver("noise")
    /\ \/ UNCHANGED <<sessionVars, itemVars>>
       \/ Fail("runner")
    /\ UNCHANGED <<adapter, serving, stdin, exitCode, printed, reported,
                   historyVars, aborted>>

\* Ready and no request sent: nothing but white space may arrive.
StdoutUnasked ==
    /\ ready
    /\ parser = "none"
    /\ stdout # <<>>
    /\ Deliver(Head(stdout).kind)
    /\ \/ Head(stdout).kind = "noise" /\ UNCHANGED <<sessionVars, itemVars>>
       \/ Fail("runner")
    /\ UNCHANGED <<adapter, serving, stdin, exitCode, printed, reported,
                   historyVars, aborted>>

\* SessionResultParser.push for a token that does not complete the result.
IsMarker(t, kind) == t.kind = kind /\ t.of = current

ParserSkips(t) ==
    /\ \/ parser = "start" /\ ~IsMarker(t, "begin")
       \/ parser = "result" /\ \A status \in Statuses : ~IsMarker(t, status)
    /\ UNCHANGED <<parser, received>>

ParserEnters(t) ==
    /\ parser = "start" /\ IsMarker(t, "begin")
    /\ parser' = "xml"
    /\ UNCHANGED received

ParserBuffers(t) ==
    /\ parser = "xml" /\ ~IsMarker(t, "end")
    /\ Len(received) < RowLimit
    /\ received' = Append(received, t)
    /\ UNCHANGED parser

ParserLeaves(t) ==
    /\ parser = "xml" /\ IsMarker(t, "end")
    /\ parser' = "result"
    /\ UNCHANGED received

StdoutParsed ==
    /\ ready
    /\ stdout # <<>>
    /\ Deliver(Head(stdout).kind)
    /\ LET t == Head(stdout)
       IN  ParserSkips(t) \/ ParserEnters(t) \/ ParserBuffers(t) \/ ParserLeaves(t)
    /\ UNCHANGED <<adapter, serving, stdin, exitCode, printed, reported, queue,
                   current, ready, dead, stale, signalled, itemVars, historyVars,
                   aborted>>

\* BoundedBuffer.push throws.
StdoutTooLarge ==
    /\ ready
    /\ stdout # <<>>
    /\ Deliver(Head(stdout).kind)
    /\ parser = "xml" /\ ~IsMarker(Head(stdout), "end")
    /\ Len(received) >= RowLimit
    /\ Fail("result_too_large")
    /\ UNCHANGED <<adapter, serving, stdin, exitCode, printed, reported,
                   historyVars, aborted>>

\* The RESULT line: the promise is settled and the next item is pumped.
StdoutResult ==
    /\ ready
    /\ \E status \in Statuses :
          /\ Deliver(status)
          /\ parser = "result"
          /\ IsMarker(Head(stdout), status)
          /\ outcome' = IF current \in cancelled THEN outcome
                        ELSE Settle({current},
                                    IF status = "OK" THEN Promise("resolved", received)
                                    ELSE Promise(status, <<>>), outcome)
    /\ stale' = FALSE
    /\ listeners' = listeners \ {current}
    /\ Pump(queue, timers \ {current})
    /\ UNCHANGED <<adapter, serving, exitCode, printed, reported, ready, dead,
                   signalled, cancelled, accepted, aborted>>

(***************************************************************************)
(* The other events: the child could not be spawned, the child has ended   *)
(* and its output is drained, the manager's cleanup or close.              *)
(***************************************************************************)
ChildError ==
    /\ ~dead
    /\ adapter = "login"
    /\ stdout = <<>>
    /\ adapter' = "exited"
    /\ Fail("runner")
    /\ UNCHANGED <<serving, stdin, stdout, exitCode, printed, reported,
                   historyVars, aborted>>

ChildClose ==
    /\ ~dead
    /\ adapter = "exited"
    /\ stdout = <<>>
    /\ Fail(ExitCategory(exitCode))
    /\ UNCHANGED <<adapterVars, historyVars, aborted>>

IsIdle == current = NoRequest /\ queue = <<>> /\ stale

CleanupIdle ==
    /\ ~dead
    /\ IsIdle
    /\ Fail("runner")
    /\ UNCHANGED <<adapterVars, historyVars, aborted>>

ManagerClose ==
    /\ ~dead
    /\ Fail("runner")
    /\ UNCHANGED <<adapterVars, historyVars, aborted>>

\* ttlMs pass since lastUsedAt.
Elapse ==
    /\ ~dead
    /\ ~stale
    /\ stale' = TRUE
    /\ UNCHANGED <<adapterVars, queue, current, parser, received, ready, dead,
                   signalled, itemVars, historyVars, aborted>>

AdapterStep ==
    /\ \/ AdapterReady \/ AdapterLoginFails \/ AdapterReads \/ AdapterBegins
       \/ AdapterPrintsRow \/ AdapterEnds \/ AdapterReports \/ AdapterDrops
       \/ AdapterPrintsNoise \/ AdapterKilled
    /\ UNCHANGED <<sessionVars, itemVars, historyVars, aborted>>

StdoutStep ==
    \/ StdoutReady \/ StdoutBeforeReady \/ StdoutUnasked \/ StdoutParsed
    \/ StdoutTooLarge \/ StdoutResult

Init ==
    /\ AdapterInit
    /\ queue = <<>> /\ current = NoRequest /\ parser = "none" /\ received = <<>>
    /\ ready = FALSE /\ dead = FALSE /\ stale = FALSE /\ signalled = FALSE
    /\ cancelled = {} /\ timers = {} /\ listeners = {} /\ aborted = {}
    /\ outcome = [r \in Request |-> Pending]
    /\ accepted = <<>> /\ begun = {}

Next ==
    \/ \E r \in Request : Execute(r) \/ Abort(r) \/ Timeout(r)
    \/ StdoutStep
    \/ ChildError \/ ChildClose \/ CleanupIdle \/ ManagerClose \/ Elapse
    \/ AdapterStep

(***************************************************************************)
(* An armed timer fires, the signal sent to the process group (SIGTERM,    *)
(* then SIGKILL) ends the child.  Nothing is assumed of the adapter, of    *)
(* MySQL or of the callers.                                                *)
(***************************************************************************)
Fairness ==
    /\ \A r \in Request : WF_vars(Timeout(r))
    /\ WF_vars(signalled /\ AdapterKilled
               /\ UNCHANGED <<sessionVars, itemVars, historyVars, aborted>>)

Spec == Init /\ [][Next]_vars
FairSpec == Spec /\ Fairness

-----------------------------------------------------------------------------
TypeOK ==
    /\ AdapterTypeOK
    /\ queue \in Seq(Request)
    /\ current \in Request \cup {NoRequest}
    /\ parser \in {"none", "start", "xml", "result"}
    /\ received \in Seq(Tokens)
    /\ ready \in BOOLEAN /\ dead \in BOOLEAN
    /\ stale \in BOOLEAN /\ signalled \in BOOLEAN
    /\ cancelled \subseteq Request
    /\ timers \subseteq Request
    /\ listeners \subseteq Request
    /\ aborted \subseteq Request
    /\ outcome \in [Request -> Outcomes]
    /\ accepted \in Seq(Request)
    /\ begun \subseteq Request

\* No query is lost: as long as its promise is pending, the session is alive
\* and holds the item, as the current one or in the queue
\* (persistent-session.js:64-75, 127-146, 160-176).
NothingLost ==
    \A r \in Accepted : ~Settled(r) => ~dead /\ r \in Held(current, queue)

\* A query is resolved with every piece of XML that MySQL printed for it and
\* with nothing else, and is rejected with a MySQL error only if MySQL
\* reported that error for it (persistent-session.js:131-145).
ResultIsOwn ==
    \A r \in Request :
       /\ outcome[r].state = "resolved" =>
             /\ reported[r] = "OK"
             /\ outcome[r].output = [i \in 1 .. printed[r] |-> Token("row", r)]
       /\ outcome[r].state \in {"sql_error", "mysql_connection"} =>
             reported[r] = outcome[r].state

\* Queries are begun in the order they were accepted; one is overtaken only
\* if it was cancelled while it waited (persistent-session.js:72-75).
InOrder ==
    \A a, b \in Accepted : Before(a, b) /\ b \in begun => a \in begun \cup cancelled

\* A query that was begun and then cancelled or timed out takes the session
\* with it: a live session has no remote process that runs an abandoned query
\* (README.md:138, persistent-session.js:58, 80).
AbandonedEndsSession == ~dead => begun \cap cancelled = {}

\* A deadline runs for the current request and for no other: none is left
\* behind that would end the session under a later query
\* (persistent-session.js:76, 139, 167).
OneDeadline == timers = {current} \ {NoRequest}

\* Every accepted query is settled, whatever the adapter does: its deadline
\* starts when it becomes current, and the deadlines of those before it
\* bound the wait (persistent-session.js:76-82).
EveryQuerySettles == \A r \in Request : r \in Accepted ~> Settled(r)

\* A session that ends leaves no adapter behind (persistent-session.js:174).
NoOrphanAdapter == dead ~> ~Running

\* A query is rejected as timed out only after it was begun: until then no
\* deadline of its own runs (persistent-session.js:76).
TimeoutWasBegun ==
    \A r \in Request : outcome[r].state = "timeout" => r \in begun

(***************************************************************************)
(* The session as a service: the refinement mapping.                       *)
(***************************************************************************)
phaseOf == [r \in Request |-> IF Settled(r) THEN "settled"
                              ELSE IF r \in Accepted THEN "pending" ELSE "new"]
answerOf == [r \in Request |-> IF Settled(r) THEN outcome[r].state ELSE "none"]

Service == INSTANCE QueryService
           WITH phase <- phaseOf, answer <- answerOf, open <- ~dead

\* Seen from the broker the session is a query service.
ImplementsService == Service!ServiceSpec
=============================================================================
