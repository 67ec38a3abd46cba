-------------------------- MODULE SessionManager --------------------------
(***************************************************************************)
(* The session manager of the broker, src/broker/session-manager.js: the   *)
(* map from the fingerprint of a profile to the session that serves it.    *)
(*                                                                         *)
(* A session is known here by what it promises (QueryService): it takes    *)
(* queries, answers each once, and when it dies it answers all it holds    *)
(* and calls onDead in the same step.  All of the manager's methods run to *)
(* completion in one turn of the event loop.                               *)
(***************************************************************************)
EXTENDS Functions

CONSTANTS
    Request,      \* the queries that reach the broker
    Name,         \* profile names the queries use
    Key,          \* fingerprints: a profile as loaded, secrets included
    Session,      \* bound: the session objects that can be created
    NoKey, NoSession

ASSUME ManagerAssumption == NoKey \notin Key /\ NoSession \notin Session

VARIABLES
    profileOf,    \* external: what each name loads as now; NoKey if it fails
    sessions,     \* the map; NoSession where there is no entry
    keyOf,        \* the fingerprint a session was created for
    profile,      \* the profile it was created with, by its true fingerprint
    phase,        \* of a session object: new, live or dead
    held,         \* the unanswered queries of a session
    stale,        \* sessions whose lastUsedAt is ttlMs or more ago
    interval,     \* cleanupTimer is active
    wanted,       \* history: what the profile of a query loaded as
    answered      \* queries whose promise is settled

vars == <<profileOf, sessions, keyOf, profile, phase, held, stale, interval, wanted, answered>>

Live(s) == phase[s] = "live"
Arrived(r) == r \in answered \/ \E s \in Session : r \in held[s]
IsIdleFresh(s) == held[s] = {} /\ s \notin stale \* mutant
IsIdle(s) == held[s] = {} /\ s \in stale

(***************************************************************************)
(* execute: load the profile, look up or create the session, hand over the *)
(* query.                                                                  *)
(***************************************************************************)
\* Mutant: an entry is replaced for every query.
ChooseAlwaysNew(k) == {s \in Session : phase[s] = "new"}

\* The session that execute hands the query to: the entry, or a new one.
Choose(k) ==
    IF sessions[k] # NoSession /\ phase[sessions[k]] # "dead"
    THEN {sessions[k]} ELSE {s \in Session : phase[s] = "new"}

\* Mutant: the fingerprint leaves out what two profiles differ in.
FingerprintBlind(n) ==
    IF profileOf[n] = NoKey THEN NoKey ELSE CHOOSE k \in Key : TRUE

\* loadProfile and profileFingerprint.
Fingerprint(n) == profileOf[n]

\* The key and the profile of a session are fixed when it is created.
AtCreation(f, s, value) ==
    IF phase[s] = "new" THEN [f EXCEPT ![s] = value] ELSE f

Load(r, n) ==
    /\ ~Arrived(r)
    /\ Fingerprint(n) # NoKey
    /\ wanted' = [wanted EXCEPT ![r] = profileOf[n]]

Execute(r, n) ==
    /\ Load(r, n)
    /\ \E s \in Choose(Fingerprint(n)) :
          /\ sessions' = [sessions EXCEPT ![Fingerprint(n)] = s]
          /\ keyOf' = AtCreation(keyOf, s, Fingerprint(n))
          /\ profile' = AtCreation(profile, s, profileOf[n])
          /\ phase' = [phase EXCEPT ![s] = "live"]
          /\ held' = [held EXCEPT ![s] = @ \cup {r}]
    /\ UNCHANGED <<profileOf, stale, interval, answered>>

\* The query's signal has already fired: answered at once, but a session
\* that was created for it stays in the map, without a child.
ExecuteAborted(r, n) ==
    /\ Load(r, n)
    /\ \E s \in Choose(Fingerprint(n)) :
          /\ sessions' = [sessions EXCEPT ![Fingerprint(n)] = s]
          /\ keyOf' = AtCreation(keyOf, s, Fingerprint(n))
          /\ profile' = AtCreation(profile, s, profileOf[n])
          /\ phase' = [phase EXCEPT ![s] = "live"]
    /\ answered' = answered \cup {r}
    /\ UNCHANGED <<profileOf, held, stale, interval>>

\* The child cannot be spawned: the new session dies inside execute.
ExecuteStartFails(r, n) ==
    /\ Load(r, n)
    /\ \E s \in Choose(Fingerprint(n)) :
          /\ phase[s] = "new"
          /\ sessions' = [sessions EXCEPT ![Fingerprint(n)] = NoSession]
          /\ keyOf' = AtCreation(keyOf, s, Fingerprint(n))
          /\ profile' = AtCreation(profile, s, profileOf[n])
          /\ phase' = [phase EXCEPT ![s] = "dead"]
    /\ answered' = answered \cup {r}
    /\ UNCHANGED <<profileOf, held, stale, interval>>

\* The profile does not load: the query is refused and nothing is created.
ExecuteRefused(r, n) ==
    /\ ~Arrived(r)
    /\ profileOf[n] = NoKey
    /\ answered' = answered \cup {r}
    /\ UNCHANGED <<profileOf, sessions, keyOf, profile, phase, held, stale, interval, wanted>>

(***************************************************************************)
(* What the sessions do by themselves.                                     *)
(***************************************************************************)
SessionFinishes(s, r) ==
    /\ r \in held[s]
    /\ held' = [held EXCEPT ![s] = @ \ {r}]
    /\ answered' = answered \cup {r}
    /\ stale' = stale \ {s}
    /\ UNCHANGED <<profileOf, sessions, keyOf, profile, phase, interval, wanted>>

\* A waiting query is cancelled: lastUsedAt stays.
SessionDrops(s, r) ==
    /\ r \in held[s]
    /\ held' = [held EXCEPT ![s] = @ \ {r}]
    /\ answered' = answered \cup {r}
    /\ UNCHANGED <<profileOf, sessions, keyOf, profile, phase, stale, interval, wanted>>

\* onDead of each session of S: its entry goes, if it still is its entry.
OnDead(S) == [k \in Key |-> IF sessions[k] \in S THEN NoSession ELSE sessions[k]]

\* failAll of each session of S, onDead included.
Kill(S) ==
    /\ phase' = [s \in Session |-> IF s \in S THEN "dead" ELSE phase[s]]
    /\ held' = [s \in Session |-> IF s \in S THEN {} ELSE held[s]]
    /\ answered' = answered \cup UNION {held[s] : s \in S}
    /\ sessions' = OnDead(S)
    /\ UNCHANGED <<profileOf, keyOf, profile, stale, wanted>>

SessionDies(s) ==
    /\ Live(s)
    /\ Kill({s})
    /\ UNCHANGED interval

(***************************************************************************)
(* cleanupIdle and close.                                                  *)
(***************************************************************************)
Entries == Range(sessions) \ {NoSession}

CleanupIdle ==
    /\ interval
    /\ \E s \in Entries : IsIdle(s)
    /\ Kill({s \in Entries : IsIdle(s)})
    /\ UNCHANGED interval

\* The sessions die and leave the map; queries that come later find it open.
Close ==
    /\ interval
    /\ interval' = FALSE
    /\ Kill(Entries)

\* External: the profile file is edited, breaks or is repaired.
EditProfile(n) ==
    /\ \E k \in Key \cup {NoKey} : profileOf' = [profileOf EXCEPT ![n] = k]
    /\ UNCHANGED <<sessions, keyOf, profile, phase, held, stale, interval, wanted, answered>>

\* ttlMs pass since lastUsedAt.
Elapse(s) ==
    /\ Live(s)
    /\ s \notin stale
    /\ stale' = stale \cup {s}
    /\ UNCHANGED <<profileOf, sessions, keyOf, profile, phase, held, interval, wanted, answered>>

Init ==
    /\ profileOf \in [Name -> Key]
    /\ sessions = [k \in Key |-> NoSession]
    /\ keyOf = [s \in Session |-> NoKey]
    /\ profile = [s \in Session |-> NoKey]
    /\ phase = [s \in Session |-> "new"]
    /\ held = [s \in Session |-> {}]
    /\ stale = {}
    /\ interval = TRUE
    /\ wanted = [r \in Request |-> NoKey]
    /\ answered = {}

Next ==
    \/ \E r \in Request, n \in Name :
          \/ Execute(r, n) \/ ExecuteAborted(r, n)
          \/ ExecuteStartFails(r, n) \/ ExecuteRefused(r, n)
    \/ \E s \in Session, r \in Request : SessionFinishes(s, r) \/ SessionDrops(s, r)
    \/ \E s \in Session : SessionDies(s) \/ Elapse(s)
    \/ CleanupIdle \/ Close
    \/ \E n \in Name : EditProfile(n)

\* Time passes and the interval runs as long as it is not cleared.
Fairness ==
    /\ \A s \in Session : WF_vars(Elapse(s))
    /\ WF_vars(CleanupIdle)

Spec == Init /\ [][Next]_vars
FairSpec == Spec /\ Fairness
-----------------------------------------------------------------------------
TypeOK ==
    /\ profileOf \in [Name -> Key \cup {NoKey}]
    /\ sessions \in [Key -> Session \cup {NoSession}]
    /\ keyOf \in [Session -> Key \cup {NoKey}]
    /\ profile \in [Session -> Key \cup {NoKey}]
    /\ phase \in [Session -> {"new", "live", "dead"}]
    /\ held \in [Session -> SUBSET Request]
    /\ stale \subseteq Session
    /\ interval \in BOOLEAN
    /\ wanted \in [Request -> Key \cup {NoKey}]
    /\ answered \subseteq Request

\* The map holds the live sessions and no other, each under its fingerprint:
\* cleanup and close reach every login, no profile has two, and no query is
\* handed to a session that has died (session-manager.js:30-38, 44-53).
MapIsLive ==
    /\ \A s \in Session : Live(s) => keyOf[s] \in Key /\ sessions[keyOf[s]] = s
    /\ \A k \in Key : sessions[k] # NoSession =>
          Live(sessions[k]) /\ keyOf[sessions[k]] = k

\* A query runs under the credentials its profile had when it arrived: an
\* edit of the profile never reaches, or reuses, a session of the old one
\* (session-manager.js:25-30, README.md:138).
RunsAsLoaded ==
    \A s \in Session : \A r \in held[s] : profile[s] = wanted[r]

\* When the manager is closed no session is alive (session-manager.js:50-53).
CloseEndsAll == [][interval /\ ~interval' => \A s \in Session : ~Live(s)']_vars

\* A session that is not used again dies, also one that never started a
\* child, as long as the manager is open (session-manager.js:20, 43-48).
IdleSessionEnds ==
    \A s \in Session :
       Live(s) /\ held[s] = {} ~> ~Live(s) \/ held[s] # {} \/ ~interval
=============================================================================
