----------------------- MODULE BrokerStartup_proofs -----------------------
(***************************************************************************)
(* What the runs of BrokerStartup check on three clients, proved for any   *)
(* set of clients.                                                         *)
(***************************************************************************)
EXTENDS BrokerStartup, TLAPS

\* The variables keep their types.
THEOREM StartupTypeCorrect == Spec => []TypeOK
<1> USE DEF TypeOK
<1>1. Init => TypeOK
  BY DEF Init
<1>2. TypeOK /\ [Next]_vars => TypeOK'
  <2> SUFFICES ASSUME TypeOK, [Next]_vars PROVE TypeOK'
    OBVIOUS
  <2>1. ASSUME NEW c \in Client, Connect(c) \/ Fails(c) PROVE TypeOK'
    <3> USE DEF Goto, CreateLock, ReleaseLock, Mishap, Mishaps
    <3>1. CASE TryFirst(c) BY <3>1 DEF TryFirst
    <3>2. CASE OpenLock(c) BY <3>2 DEF OpenLock
    <3>3. CASE LockExists(c) BY <3>3 DEF LockExists
    <3>4. CASE StatLock(c) BY <3>4 DEF StatLock
    <3>5. CASE RemoveStaleLock(c) BY <3>5 DEF RemoveStaleLock
    <3>6. CASE ReopenLock(c) BY <3>6 DEF ReopenLock
    <3>7. CASE RemoveSocket(c) BY <3>7 DEF RemoveSocket
    <3>8. CASE Spawn(c) BY <3>8 DEF Spawn
    <3>9. CASE PrepareThrows(c) BY <3>9 DEF PrepareThrows
    <3>10. CASE StartThrows(c) BY <3>10 DEF StartThrows
    <3>11. CASE PollConnects(c) BY <3>11 DEF PollConnects
    <3>12. CASE PollGivesUp(c) BY <3>12 DEF PollGivesUp
    <3> QED BY <2>1, <3>1, <3>2, <3>3, <3>4, <3>5, <3>6, <3>7, <3>8, <3>9,
               <3>10, <3>11, <3>12 DEF Connect, Fails
  <2>2. ASSUME NEW c \in Client, ClientCrashes(c) PROVE TypeOK'
    BY <2>2 DEF ClientCrashes, Goto, Mishap, Mishaps
  <2>3. CASE LockAges BY <2>3 DEF LockAges
  <2>4. ASSUME NEW b \in Client, BrokerListens(b) PROVE TypeOK'
    BY <2>4 DEF BrokerListens
  <2>5. ASSUME NEW b \in Client, BrokerStops(b) PROVE TypeOK'
    BY <2>5 DEF BrokerStops, Mishap, Mishaps
  <2>6. ASSUME NEW b \in Client, BrokerExits(b) PROVE TypeOK'
    BY <2>6 DEF BrokerExits
  <2>7. ASSUME NEW b \in Client, BrokerCrashes(b) PROVE TypeOK'
    BY <2>7 DEF BrokerCrashes, Mishap, Mishaps
  <2>8. CASE UNCHANGED vars BY <2>8 DEF vars
  <2> QED BY <2>1, <2>2, <2>3, <2>4, <2>5, <2>6, <2>7, <2>8 DEF Next
<1> QED BY <1>1, <1>2, PTL DEF Spec

\* The steps of the brokers leave the clients and their lock alone, and what
\* has gone wrong stays on record.
LEMMA BrokerStepsKeepLock ==
    ASSUME NEW b \in Client,
           BrokerListens(b) \/ BrokerStops(b) \/ BrokerExits(b) \/ BrokerCrashes(b)
    PROVE  UNCHANGED <<pc, descriptors, lock, aged>> /\ mishaps \subseteq mishaps'
BY DEF BrokerListens, BrokerStops, BrokerExits, BrokerCrashes, Mishap

\* A client's step leaves the place of every other client alone, and one that
\* has crashed takes none.
LEMMA OwnStep ==
    ASSUME TypeOK, NEW c \in Client, Connect(c) \/ Fails(c)
    PROVE  /\ \A d \in Client \ {c} : pc'[d] = pc[d]
           /\ pc[c] # "crashed"
           /\ mishaps \subseteq mishaps'
BY DEF TypeOK, Connect, Fails, Mishap, TryFirst, OpenLock, LockExists, StatLock, RemoveStaleLock,
       ReopenLock, RemoveSocket, Spawn, PrepareThrows, StartThrows, PollConnects,
       PollGivesUp, Goto

\* What a client's step does to the lock: nothing, create it where there is
\* none, remove a stale one, or release.
LEMMA LockStep ==
    ASSUME TypeOK, NEW c \in Client, Connect(c) \/ Fails(c)
    PROVE  \/ UNCHANGED <<lock, aged, descriptors>>
           \/ CreateLock(c)
           \/ pc[c] = "remove" /\ lock' = Nobody /\ aged' = FALSE
              /\ UNCHANGED descriptors
           \/ ReleaseLock(c)
BY DEF Connect, Fails, TryFirst, OpenLock, LockExists, StatLock, RemoveStaleLock,
       ReopenLock, RemoveSocket, Spawn, PrepareThrows, StartThrows, PollConnects,
       PollGivesUp

\* No way out of connect leaves a lock behind, for any number of clients,
\* crashes, stops and failures: a lock file has a live owner or a crashed one.
THEOREM LockIsOwned == Spec => []LockHasOwner
<1> USE StartupAssumption
<1>1. Init => LockHasOwner
  BY DEF Init, LockHasOwner
<1>2. TypeOK /\ LockHasOwner /\ [Next]_vars => LockHasOwner'
  <2> SUFFICES ASSUME TypeOK, LockHasOwner, [Next]_vars PROVE LockHasOwner'
    OBVIOUS
  <2>1. ASSUME NEW c \in Client, Connect(c) \/ Fails(c) PROVE LockHasOwner'
    <3>1. lock \in Client \cup {Nobody}
      BY DEF TypeOK
    <3>2. CASE UNCHANGED <<lock, aged, descriptors>>
      BY <2>1, <3>1, <3>2, OwnStep DEF LockHasOwner
    <3>3. CASE CreateLock(c)
      BY <3>3 DEF CreateLock, LockHasOwner
    <3>4. CASE lock' = Nobody
      BY <3>4 DEF LockHasOwner
    <3>5. CASE ReleaseLock(c)
      BY <2>1, <3>1, <3>5, OwnStep DEF ReleaseLock, LockHasOwner
    <3> QED BY <2>1, <3>2, <3>3, <3>4, <3>5, LockStep
  <2>2. ASSUME NEW c \in Client, ClientCrashes(c) PROVE LockHasOwner'
    BY <2>2 DEF ClientCrashes, Goto, LockHasOwner, TypeOK
  <2>3. CASE LockAges BY <2>3 DEF LockAges, LockHasOwner
  <2>4. ASSUME NEW b \in Client,
               BrokerListens(b) \/ BrokerStops(b) \/ BrokerExits(b) \/ BrokerCrashes(b)
        PROVE LockHasOwner'
    BY <2>4, BrokerStepsKeepLock DEF LockHasOwner
  <2>5. CASE UNCHANGED vars BY <2>5 DEF vars, LockHasOwner
  <2> QED BY <2>1, <2>2, <2>3, <2>4, <2>5 DEF Next
<1> QED BY <1>1, <1>2, StartupTypeCorrect, PTL DEF Spec

\* Until something crashes no lock gets old, so none is taken over, and the
\* client with a descriptor is the one whose lock is there.
LockInv ==
    "crash" \notin mishaps =>
       /\ ~aged
       /\ \A c \in Client : pc[c] \notin {"crashed", "remove", "reopen"}
       /\ \A c \in descriptors : lock = c

\* Until something crashes, one client at a time starts a broker, however
\* many clients there are and whatever else goes wrong.
THEOREM OneStarterAtATime == Spec => []OneStarter
<1> USE StartupAssumption
<1>1. Init => LockInv
  BY DEF Init, LockInv
<1>2. TypeOK /\ LockInv /\ [Next]_vars => LockInv'
  <2> SUFFICES ASSUME TypeOK, LockInv, [Next]_vars PROVE LockInv'
    OBVIOUS
  <2>1. ASSUME NEW c \in Client, Connect(c) \/ Fails(c) PROVE LockInv'
    <3> SUFFICES ASSUME "crash" \notin mishaps' PROVE LockInv'
      BY DEF LockInv
    <3>0. "crash" \notin mishaps
      BY <2>1, OwnStep
    <3>1. /\ pc'[c] \notin {"crashed", "remove", "reopen"}
          /\ pc[c] # "remove"
      BY <2>1, <3>0 DEF LockInv, TypeOK, Connect, Fails, TryFirst, OpenLock,
         LockExists, StatLock, RemoveStaleLock, ReopenLock, RemoveSocket, Spawn,
         PrepareThrows, StartThrows, PollConnects, PollGivesUp, Goto
    <3>2. \A d \in Client : pc'[d] \notin {"crashed", "remove", "reopen"}
      BY <2>1, <3>0, <3>1, OwnStep DEF LockInv
    <3>3. ~aged' /\ \A d \in descriptors' : lock' = d
      <4>1. CASE UNCHANGED <<lock, aged, descriptors>>
        BY <3>0, <4>1 DEF LockInv
      <4>2. CASE CreateLock(c)
        BY <3>0, <4>2 DEF CreateLock, LockInv, TypeOK
      <4>3. CASE ReleaseLock(c)
        BY <3>0, <4>3 DEF ReleaseLock, LockInv
      <4> QED BY <2>1, <3>1, <4>1, <4>2, <4>3, LockStep
    <3> QED BY <3>2, <3>3 DEF LockInv
  <2>2. ASSUME NEW c \in Client, ClientCrashes(c) PROVE LockInv'
    BY <2>2 DEF ClientCrashes, Mishap, LockInv
  <2>3. CASE LockAges BY <2>3 DEF LockAges, LockInv
  <2>4. ASSUME NEW b \in Client,
               BrokerListens(b) \/ BrokerStops(b) \/ BrokerExits(b) \/ BrokerCrashes(b)
        PROVE LockInv'
    BY <2>4, BrokerStepsKeepLock DEF LockInv
  <2>5. CASE UNCHANGED vars BY <2>5 DEF vars, LockInv
  <2> QED BY <2>1, <2>2, <2>3, <2>4, <2>5 DEF Next
<1>3. LockInv => OneStarter
  BY DEF LockInv, OneStarter
<1> QED BY <1>1, <1>2, <1>3, StartupTypeCorrect, PTL DEF Spec
=============================================================================
