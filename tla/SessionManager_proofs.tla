----------------------- MODULE SessionManager_proofs -----------------------
(***************************************************************************)
(* MapIsLive and RunsAsLoaded for any number of profiles, sessions and     *)
(* queries.                                                                *)
(***************************************************************************)
EXTENDS SessionManager, TLAPS

\* Only a live session holds queries: without it a new session could come
\* with queries of another profile.  And a live session's key is that of its
\* profile, so that who finds it by the key may use it.
ManagerInv ==
    /\ TypeOK
    /\ MapIsLive
    /\ RunsAsLoaded
    /\ \A s \in Session : held[s] # {} => Live(s)
    /\ \A s \in Session : Live(s) => profile[s] = keyOf[s]

\* execute uses the live entry of the key, or a new session.
LEMMA ChooseProperties ==
    ASSUME ManagerInv, NEW k \in Key, NEW s \in Choose(k)
    PROVE  /\ s \in Session
           /\ \/ sessions[k] = s /\ Live(s) /\ keyOf[s] = k /\ profile[s] = k
              \/ /\ phase[s] = "new" /\ held[s] = {}
                 /\ \A j \in Key : sessions[j] # s
                 /\ \A t \in Session : Live(t) => keyOf[t] # k
<1>1. CASE sessions[k] # NoSession
  BY <1>1 DEF ManagerInv, MapIsLive, Choose, Live, TypeOK
<1>2. CASE sessions[k] = NoSession
  <2>1. s \in Session /\ phase[s] = "new"
    BY <1>2 DEF Choose
  <2>2. held[s] = {} /\ \A j \in Key : sessions[j] # s
    BY <2>1, ManagerAssumption DEF ManagerInv, MapIsLive, Live
  <2>3. \A t \in Session : Live(t) => keyOf[t] # k
    BY <1>2, ManagerAssumption DEF ManagerInv, MapIsLive
  <2> QED BY <2>1, <2>2, <2>3
<1> QED BY <1>1, <1>2

LEMMA ExecuteInv ==
    ASSUME ManagerInv, NEW r \in Request, NEW n \in Name,
           Execute(r, n) \/ ExecuteAborted(r, n) \/ ExecuteStartFails(r, n)
    PROVE  ManagerInv'
<1> DEFINE k == Fingerprint(n)
<1>1. Load(r, n) /\ k \in Key /\ profileOf[n] = k
  BY DEF Execute, ExecuteAborted, ExecuteStartFails, Load, Fingerprint, ManagerInv, TypeOK
<1>2. /\ wanted' = [wanted EXCEPT ![r] = k]
      /\ \A s \in Session : r \notin held[s]
  BY <1>1 DEF Load, Arrived
<1>3. CASE Execute(r, n)
  <2>1. PICK s \in Choose(k) :
           /\ sessions' = [sessions EXCEPT ![k] = s]
           /\ keyOf' = AtCreation(keyOf, s, k)
           /\ profile' = AtCreation(profile, s, profileOf[n])
           /\ phase' = [phase EXCEPT ![s] = "live"]
           /\ held' = [held EXCEPT ![s] = @ \cup {r}]
    BY <1>3 DEF Execute
  <2>2. /\ s \in Session
        /\ \/ sessions[k] = s /\ Live(s) /\ keyOf[s] = k /\ profile[s] = k
           \/ /\ phase[s] = "new" /\ held[s] = {}
              /\ \A j \in Key : sessions[j] # s
              /\ \A t \in Session : Live(t) => keyOf[t] # k
    BY <1>1, ChooseProperties
  <2>8. keyOf' = [keyOf EXCEPT ![s] = k] /\ profile' = [profile EXCEPT ![s] = k]
    BY <1>1, <2>1, <2>2 DEF AtCreation, Live, ManagerInv, TypeOK
  <2> HIDE DEF k
  <2>3. TypeOK'
    BY <1>1, <1>2, <1>3, <2>1, <2>2, <2>8 DEF Execute, ManagerInv, TypeOK
  <2>4. MapIsLive'
    BY <1>1, <2>1, <2>2, <2>8 DEF ManagerInv, TypeOK, MapIsLive, Live
  <2>5. RunsAsLoaded'
    BY <1>1, <1>2, <2>1, <2>2, <2>8 DEF ManagerInv, TypeOK, RunsAsLoaded
  <2>6. \A t \in Session : (held'[t] # {} => Live(t)') /\ (Live(t)' => profile'[t] = keyOf'[t])
    BY <2>1, <2>2, <2>8 DEF ManagerInv, TypeOK, Live
  <2> QED BY <2>3, <2>4, <2>5, <2>6 DEF ManagerInv
<1>4. CASE ExecuteAborted(r, n)
  <2>1. PICK s \in Choose(k) :
           /\ sessions' = [sessions EXCEPT ![k] = s]
           /\ keyOf' = AtCreation(keyOf, s, k)
           /\ profile' = AtCreation(profile, s, profileOf[n])
           /\ phase' = [phase EXCEPT ![s] = "live"]
    BY <1>4 DEF ExecuteAborted
  <2>2. /\ s \in Session
        /\ \/ sessions[k] = s /\ Live(s) /\ keyOf[s] = k /\ profile[s] = k
           \/ /\ phase[s] = "new" /\ held[s] = {}
              /\ \A j \in Key : sessions[j] # s
              /\ \A t \in Session : Live(t) => keyOf[t] # k
    BY <1>1, ChooseProperties
  <2>8. keyOf' = [keyOf EXCEPT ![s] = k] /\ profile' = [profile EXCEPT ![s] = k]
    BY <1>1, <2>1, <2>2 DEF AtCreation, Live, ManagerInv, TypeOK
  <2>3. held' = held
    BY <1>4 DEF ExecuteAborted
  <2> HIDE DEF k
  <2>4. TypeOK'
    BY <1>1, <1>2, <1>4, <2>1, <2>2, <2>8 DEF ExecuteAborted, ManagerInv, TypeOK
  <2>5. MapIsLive'
    BY <1>1, <2>1, <2>2, <2>8 DEF ManagerInv, TypeOK, MapIsLive, Live
  <2>6. RunsAsLoaded'
    BY <1>1, <1>2, <2>1, <2>2, <2>8, <2>3 DEF ManagerInv, TypeOK, RunsAsLoaded
  <2>7. \A t \in Session : (held'[t] # {} => Live(t)') /\ (Live(t)' => profile'[t] = keyOf'[t])
    BY <2>1, <2>2, <2>8, <2>3 DEF ManagerInv, TypeOK, Live
  <2> QED BY <2>4, <2>5, <2>6, <2>7 DEF ManagerInv
<1>5. CASE ExecuteStartFails(r, n)
  <2>1. PICK s \in Choose(k) :
           /\ phase[s] = "new"
           /\ sessions' = [sessions EXCEPT ![k] = NoSession]
           /\ keyOf' = AtCreation(keyOf, s, k)
           /\ profile' = AtCreation(profile, s, profileOf[n])
           /\ phase' = [phase EXCEPT ![s] = "dead"]
    BY <1>5 DEF ExecuteStartFails
  <2>2. /\ s \in Session /\ held[s] = {}
        /\ \A j \in Key : sessions[j] # s
        /\ \A t \in Session : Live(t) => keyOf[t] # k
    BY <1>1, <2>1, ChooseProperties DEF Live
  <2>8. keyOf' = [keyOf EXCEPT ![s] = k] /\ profile' = [profile EXCEPT ![s] = k]
    BY <1>1, <2>1 DEF AtCreation
  <2>3. held' = held
    BY <1>5 DEF ExecuteStartFails
  <2> HIDE DEF k
  <2>4. TypeOK'
    BY <1>1, <1>2, <1>5, <2>1, <2>2, <2>8 DEF ExecuteStartFails, ManagerInv, TypeOK
  <2>5. MapIsLive'
    BY <1>1, <2>1, <2>2, <2>8, ManagerAssumption DEF ManagerInv, TypeOK, MapIsLive, Live
  <2>6. RunsAsLoaded'
    BY <1>1, <1>2, <2>1, <2>2, <2>8, <2>3 DEF ManagerInv, TypeOK, RunsAsLoaded
  <2>7. \A t \in Session : (held'[t] # {} => Live(t)') /\ (Live(t)' => profile'[t] = keyOf'[t])
    BY <2>1, <2>2, <2>8, <2>3 DEF ManagerInv, TypeOK, Live
  <2> QED BY <2>4, <2>5, <2>6, <2>7 DEF ManagerInv
<1> QED BY <1>3, <1>4, <1>5

LEMMA KillInv ==
    ASSUME ManagerInv, NEW S \in SUBSET Session, Kill(S), interval' \in BOOLEAN
    PROVE  ManagerInv'
<1>1. TypeOK'
  BY DEF ManagerInv, TypeOK, Kill, OnDead
<1>2. MapIsLive'
  BY ManagerAssumption DEF ManagerInv, TypeOK, MapIsLive, Live, Kill, OnDead
<1>3. /\ RunsAsLoaded'
      /\ \A s \in Session : (held'[s] # {} => Live(s)') /\ (Live(s)' => profile'[s] = keyOf'[s])
  BY DEF ManagerInv, TypeOK, RunsAsLoaded, Live, Kill
<1> QED BY <1>1, <1>2, <1>3 DEF ManagerInv

LEMMA EntriesType == TypeOK => Entries \subseteq Session
BY DEF TypeOK, Entries, Range

THEOREM ManagerCorrect == Spec => []ManagerInv
<1>1. Init => ManagerInv
  BY DEF Init, ManagerInv, TypeOK, MapIsLive, RunsAsLoaded, Live
<1>2. ManagerInv /\ [Next]_vars => ManagerInv'
  <2> SUFFICES ASSUME ManagerInv, [Next]_vars
               PROVE  ManagerInv'
    OBVIOUS
  <2>1. ASSUME NEW r \in Request, NEW n \in Name,
               Execute(r, n) \/ ExecuteAborted(r, n) \/ ExecuteStartFails(r, n)
        PROVE  ManagerInv'
    BY <2>1, ExecuteInv
  <2>2. ASSUME NEW r \in Request, NEW n \in Name, ExecuteRefused(r, n)
        PROVE  ManagerInv'
    BY <2>2 DEF ExecuteRefused, ManagerInv, TypeOK, MapIsLive, RunsAsLoaded, Live
  <2>3. ASSUME NEW s \in Session, NEW r \in Request,
               SessionFinishes(s, r) \/ SessionDrops(s, r)
        PROVE  ManagerInv'
    BY <2>3 DEF SessionFinishes, SessionDrops, ManagerInv, TypeOK, MapIsLive,
                RunsAsLoaded, Live
  <2>4. ASSUME NEW s \in Session, SessionDies(s)
        PROVE  ManagerInv'
    BY <2>4, KillInv DEF SessionDies, ManagerInv, TypeOK
  <2>5. ASSUME NEW s \in Session, Elapse(s)
        PROVE  ManagerInv'
    BY <2>5 DEF Elapse, ManagerInv, TypeOK, MapIsLive, RunsAsLoaded, Live
  <2>6. CASE CleanupIdle
    <3>1. {s \in Entries : IsIdle(s)} \in SUBSET Session
      BY EntriesType DEF ManagerInv
    <3> QED BY <2>6, <3>1, KillInv DEF CleanupIdle, ManagerInv, TypeOK
  <2>7. CASE Close
    BY <2>7, EntriesType, KillInv DEF Close, ManagerInv
  <2>8. ASSUME NEW n \in Name, EditProfile(n)
        PROVE  ManagerInv'
    BY <2>8 DEF EditProfile, ManagerInv, TypeOK, MapIsLive, RunsAsLoaded, Live
  <2>9. CASE UNCHANGED vars
    BY <2>9 DEF vars, ManagerInv, TypeOK, MapIsLive, RunsAsLoaded, Live
  <2> QED BY <2>1, <2>2, <2>3, <2>4, <2>5, <2>6, <2>7, <2>8, <2>9 DEF Next
<1> QED BY <1>1, <1>2, PTL DEF Spec

\* The map holds exactly the live sessions, each under its own fingerprint.
THEOREM MapHoldsTheLive == Spec => []MapIsLive
<1>1. ManagerInv => MapIsLive
  BY DEF ManagerInv
<1> QED BY <1>1, ManagerCorrect, PTL

\* No query runs in a session that logged in with other credentials.
THEOREM QueriesRunAsLoaded == Spec => []RunsAsLoaded
<1>1. ManagerInv => RunsAsLoaded
  BY DEF ManagerInv
<1> QED BY <1>1, ManagerCorrect, PTL

\* Closing the manager ends every live session: the map reaches them all.
THEOREM CloseEndsEverySession == Spec => CloseEndsAll
<1>1. ManagerInv /\ [Next]_vars =>
         [interval /\ ~interval' => \A s \in Session : ~Live(s)']_vars
  <2> SUFFICES ASSUME ManagerInv, Next, interval, ~interval'
               PROVE  \A s \in Session : ~Live(s)'
    OBVIOUS
  <2>1. Close
    BY DEF Next, Execute, ExecuteAborted, ExecuteStartFails, ExecuteRefused,
           SessionFinishes, SessionDrops, SessionDies, Elapse, CleanupIdle, EditProfile
  <2>2. \A s \in Session : Live(s) => s \in Entries
    BY ManagerAssumption DEF ManagerInv, TypeOK, MapIsLive, Entries, Range
  <2> QED BY <2>1, <2>2 DEF Close, Kill, Live, ManagerInv, TypeOK
<1> QED BY <1>1, ManagerCorrect, PTL DEF Spec, CloseEndsAll
=============================================================================
