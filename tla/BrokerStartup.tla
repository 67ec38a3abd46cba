--------------------------- MODULE BrokerStartup ---------------------------
(***************************************************************************)
(* How clients find or start the broker: BrokerClient.connect of           *)
(* src/backend/broker-client.js, and the end of src/broker/server.js that  *)
(* binds and gives up the socket.  The clients are processes of their own; *)
(* what they share is the lock file and the socket file, and every call    *)
(* on the file system is a step.                                           *)
(*                                                                         *)
(* A client starts at most one broker, so a broker is named by the client  *)
(* that started it.                                                        *)
(***************************************************************************)
EXTENDS FiniteSets, Naturals

CONSTANTS
    Client,
    Nobody,       \* no lock file, no socket file
    Leftover      \* the socket file of a broker that crashed in the past

ASSUME StartupAssumption ==
    Nobody \notin Client /\ Leftover \notin Client /\ Nobody # Leftover

VARIABLES
    pc,           \* of a client: where it is in connect
    descriptors,  \* clients whose lockDescriptor is defined
    lock,         \* the client that created the lock file that is there now
    aged,         \* the lock file is older than BROKER_START_LOCK_STALE_MS
    socketFile,   \* the broker that bound the socket file that is there now
    broker,       \* of a client: the state of the broker it started
    mishaps       \* history: what has gone wrong so far

vars == <<pc, descriptors, lock, aged, socketFile, broker, mishaps>>

\* A start may fail or outlast BROKER_START_TIMEOUT_MS, a client or a broker
\* may crash, a broker may be stopped: SIGTERM, SIGINT, 60 s idle.
Mishaps == {"failure", "crash", "stop"}
Mishap(m) == mishaps' = mishaps \cup {m}

\* Net's createConnection succeeds: someone accepts behind the file.
Reachable == socketFile \in Client /\ broker[socketFile] = "listening"

Goto(c, label) == pc' = [pc EXCEPT ![c] = label]

\* Mutant: the lock file is opened with 'w'.
CreateLockShared(c) ==
    /\ lock' = c
    /\ aged' = FALSE
    /\ descriptors' = descriptors \cup {c}

CreateLock(c) ==
    /\ lock = Nobody
    /\ lock' = c
    /\ aged' = FALSE
    /\ descriptors' = descriptors \cup {c}

\* closeSync and rmSync by the holder: whatever lock file is there goes.
ReleaseLock(c) ==
    /\ descriptors' = descriptors \ {c}
    /\ IF c \in descriptors THEN lock' = Nobody /\ aged' = FALSE
                            ELSE UNCHANGED <<lock, aged>>

(***************************************************************************)
(* connect.                                                                *)
(***************************************************************************)
TryFirst(c) ==
    /\ pc[c] = "start"
    /\ Goto(c, IF Reachable THEN "connected" ELSE "lock")
    /\ UNCHANGED <<descriptors, lock, aged, socketFile, broker, mishaps>>

OpenLock(c) ==
    /\ pc[c] = "lock"
    /\ CreateLock(c)
    /\ Goto(c, "holder")
    /\ UNCHANGED <<socketFile, broker, mishaps>>

LockExists(c) ==
    /\ pc[c] = "lock"
    /\ lock # Nobody
    /\ Goto(c, "stat")
    /\ UNCHANGED <<descriptors, lock, aged, socketFile, broker, mishaps>>

\* Mutant: a lock is never stale.
StatLockTrusting(c) ==
    /\ pc[c] = "stat"
    /\ Goto(c, "poll")
    /\ UNCHANGED <<descriptors, lock, aged, socketFile, broker, mishaps>>

\* Gone or young: wait for the broker someone else is starting.
StatLock(c) ==
    /\ pc[c] = "stat"
    /\ Goto(c, IF lock # Nobody /\ aged THEN "remove" ELSE "poll")
    /\ UNCHANGED <<descriptors, lock, aged, socketFile, broker, mishaps>>

RemoveStaleLock(c) ==
    /\ pc[c] = "remove"
    /\ lock' = Nobody
    /\ aged' = FALSE
    /\ Goto(c, "reopen")
    /\ UNCHANGED <<descriptors, socketFile, broker, mishaps>>

ReopenLock(c) ==
    /\ pc[c] = "reopen"
    /\ \/ CreateLock(c) /\ Goto(c, "holder")
       \/ lock # Nobody /\ Goto(c, "poll") /\ UNCHANGED <<lock, aged, descriptors>>
    /\ UNCHANGED <<socketFile, broker, mishaps>>

\* Mutant: the socket file of a dead broker is left where it is.
RemoveSocketKept(c) ==
    /\ pc[c] = "holder"
    /\ Goto(c, "spawn")
    /\ UNCHANGED <<descriptors, lock, aged, socketFile, broker, mishaps>>

\* The holder removes the socket file, whoever listens behind it.
RemoveSocket(c) ==
    /\ pc[c] = "holder"
    /\ socketFile' = Nobody
    /\ Goto(c, "spawn")
    /\ UNCHANGED <<descriptors, lock, aged, broker, mishaps>>

Spawn(c) ==
    /\ pc[c] = "spawn"
    /\ broker' = [broker EXCEPT ![c] = "starting"]
    /\ Goto(c, "poll")
    /\ UNCHANGED <<descriptors, lock, aged, socketFile, mishaps>>

\* The directory is not private, or the lock file cannot be created.
PrepareThrows(c) ==
    /\ pc[c] = "lock"
    /\ Goto(c, "failed")
    /\ Mishap("failure")
    /\ UNCHANGED <<descriptors, lock, aged, socketFile, broker>>

\* rmSync or spawn throws.
StartThrows(c) ==
    /\ pc[c] \in {"holder", "spawn"}
    /\ ReleaseLock(c)
    /\ Goto(c, "failed")
    /\ Mishap("failure")
    /\ UNCHANGED <<socketFile, broker>>

PollConnects(c) ==
    /\ pc[c] = "poll"
    /\ Reachable
    /\ ReleaseLock(c)
    /\ Goto(c, "connected")
    /\ UNCHANGED <<socketFile, broker, mishaps>>

\* Mutant: the lock is released on the way out of a success only.
PollGivesUpHolding(c) ==
    /\ pc[c] = "poll"
    /\ descriptors' = descriptors \ {c}
    /\ Goto(c, "failed")
    /\ Mishap("failure")
    /\ UNCHANGED <<lock, aged, socketFile, broker>>

PollGivesUp(c) ==
    /\ pc[c] = "poll"
    /\ ReleaseLock(c)
    /\ Goto(c, "failed")
    /\ Mishap("failure")
    /\ UNCHANGED <<socketFile, broker>>

ClientCrashes(c) ==
    /\ pc[c] \notin {"connected", "failed", "crashed"}
    /\ Goto(c, "crashed")
    /\ descriptors' = descriptors \ {c}
    /\ Mishap("crash")
    /\ UNCHANGED <<lock, aged, socketFile, broker>>

(***************************************************************************)
(* Ten seconds pass.  A client that is alive holds the lock for the five   *)
(* seconds of its retry loop, so only the lock of a crashed one gets old.  *)
(***************************************************************************)
LockAges ==
    /\ lock \in Client
    /\ pc[lock] = "crashed"
    /\ ~aged
    /\ aged' = TRUE
    /\ UNCHANGED <<pc, descriptors, lock, socketFile, broker, mishaps>>

(***************************************************************************)
(* The broker.                                                             *)
(***************************************************************************)
\* server.listen: a broker that finds the file there exits (EADDRINUSE).
BrokerListens(b) ==
    /\ broker[b] = "starting"
    /\ broker' = [broker EXCEPT ![b] = IF socketFile = Nobody THEN "listening"
                                       ELSE "exited"]
    /\ socketFile' = IF socketFile = Nobody THEN b ELSE socketFile
    /\ UNCHANGED <<pc, descriptors, lock, aged, mishaps>>

\* shutdown: closing the server unlinks the path ...
BrokerStops(b) ==
    /\ broker[b] = "listening"
    /\ broker' = [broker EXCEPT ![b] = "closing"]
    /\ socketFile' = Nobody
    /\ Mishap("stop")
    /\ UNCHANGED <<pc, descriptors, lock, aged>>

\* ... and when the last connection has ended it is removed once more.
BrokerExits(b) ==
    /\ broker[b] = "closing"
    /\ broker' = [broker EXCEPT ![b] = "exited"]
    /\ socketFile' = Nobody
    /\ UNCHANGED <<pc, descriptors, lock, aged, mishaps>>

BrokerCrashes(b) ==
    /\ broker[b] \in {"starting", "listening", "closing"}
    /\ broker' = [broker EXCEPT ![b] = "exited"]
    /\ Mishap("crash")
    /\ UNCHANGED <<pc, descriptors, lock, aged, socketFile>>

Init ==
    /\ pc = [c \in Client |-> "start"]
    /\ descriptors = {}
    /\ lock = Nobody
    /\ aged = FALSE
    /\ socketFile \in {Nobody, Leftover}
    /\ broker = [c \in Client |-> "none"]
    /\ mishaps = {}

Connect(c) ==
    \/ TryFirst(c) \/ OpenLock(c) \/ LockExists(c) \/ StatLock(c)
    \/ RemoveStaleLock(c) \/ ReopenLock(c) \/ RemoveSocket(c) \/ Spawn(c)
    \/ PollConnects(c)

Fails(c) == PrepareThrows(c) \/ StartThrows(c) \/ PollGivesUp(c)

Next ==
    \/ \E c \in Client : Connect(c) \/ Fails(c) \/ ClientCrashes(c)
    \/ LockAges
    \/ \E b \in Client : BrokerListens(b) \/ BrokerStops(b) \/ BrokerExits(b)
                         \/ BrokerCrashes(b)

\* A process that can run runs: client code has no step that waits for
\* another process but the retry loop, and a broker that was started listens.
Fairness ==
    \A c \in Client : WF_vars(Connect(c)) /\ WF_vars(BrokerListens(c))

Spec == Init /\ [][Next]_vars
FairSpec == Spec /\ Fairness
-----------------------------------------------------------------------------
TypeOK ==
    /\ pc \in [Client -> {"start", "lock", "stat", "remove", "reopen", "holder",
                          "spawn", "poll", "connected", "failed", "crashed"}]
    /\ descriptors \subseteq Client
    /\ lock \in Client \cup {Nobody}
    /\ aged \in BOOLEAN
    /\ socketFile \in Client \cup {Nobody, Leftover}
    /\ broker \in [Client -> {"none", "starting", "listening", "closing", "exited"}]
    /\ mishaps \subseteq Mishaps

\* A lock file that is there belongs to a client that is starting a broker,
\* or to one that crashed: no way out of connect leaves its lock behind, so
\* only a crash makes others wait for ten seconds
\* (broker-client.js:122-127, 135-139, 146-149).
LockHasOwner == lock # Nobody => lock \in descriptors \/ pc[lock] = "crashed"

\* Until something crashes one client at a time starts a broker, whatever
\* fails and whichever broker stops (broker-client.js:89).
OneStarter == "crash" \notin mishaps => \A c, d \in descriptors : c = d

\* As long as nothing goes wrong, every client is connected in the end: also
\* behind the socket file of a dead broker, and whoever removes whose socket
\* (broker-client.js:78-145).
EveryClientConnects ==
    \A c \in Client : pc[c] = "start" ~> pc[c] = "connected" \/ mishaps # {}

\* A lock that a crashed client left goes when a client meets it ten seconds
\* later, unless that one ends as well (broker-client.js:92-97).
StaleLockGoes ==
    \A c, x \in Client :
       lock = x /\ aged /\ pc[c] = "lock"
          ~> lock # x \/ pc[c] \in {"failed", "crashed"}

\* Nothing having gone wrong, there is one broker
\* (README.md:7; packaged-broker.test.js:107).
OneBroker ==
    mishaps = {} =>
       \A b, d \in Client :
          broker[b] = "listening" /\ broker[d] = "listening" => b = d
=============================================================================
