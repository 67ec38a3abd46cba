----------------------- MODULE OneShotRunner_proofs -----------------------
(***************************************************************************)
(* The safety properties of the run of OneShotRunner, proved for every     *)
(* behaviour of its specification.                                         *)
(***************************************************************************)
EXTENDS OneShotRunner, TLAPS

StageNames == {"frames", "login", "ssh", "ready", "begin", "rows", "end", "status", "exit"}

LEMMA StageSet == DOMAIN After \cup {"none", "exit", "gone"} = StageNames \cup {"none", "gone"}
BY DEF After, StageNames

\* The script's stages, one after the other.
LEMMA StageOrder ==
    ASSUME AdapterAdvances
    PROVE  \/ adapter = "frames" /\ adapter' = "login"
           \/ adapter = "login" /\ adapter' = "ssh"
           \/ adapter = "ssh" /\ adapter' = "ready"
           \/ adapter = "ready" /\ adapter' = "begin"
           \/ adapter = "begin" /\ adapter' = "rows"
           \/ adapter = "rows" /\ adapter' = "end"
           \/ adapter = "end" /\ adapter' = "status"
           \/ adapter = "status" /\ adapter' = "exit"
BY DEF AdapterAdvances, After

\* There is a runner when there was a call, and an adapter when the runner has
\* the SQL; how much the adapter has written is told by its stage.
AdapterInv ==
    /\ client = "idle" => runner = "none" /\ outcome = "none"
    /\ runner \in {"none", "boot"} => adapter = "none"
    /\ adapter \in {"none", "frames", "login", "ssh", "ready", "begin"} => emitted = 0
    /\ adapter = "rows" => emitted = 1
    /\ adapter = "end" => emitted = 2

TypeInv == TypeOK /\ AdapterInv

\* The client's steps leave the adapter alone.
ClientStep ==
    \/ Spawn \/ WriteInput \/ Abort \/ Watchdog \/ OutputTooLarge
    \/ ClientSeesClose \/ ForceKill \/ ClientDies

AdapterStep ==
    AdapterAdvances \/ AdapterFails \/ AdapterRejected \/ AdapterFinishes \/ AdapterKilled

LEMMA ExitType == ExitAt(adapter) \in Categories
BY DEF ExitAt, Categories

LEMMA GiveUpType ==
    ASSUME TypeOK, NEW category \in Categories, GiveUp(category)
    PROVE  /\ client' = "settled" /\ outcome' = category /\ killArmed' = TRUE
           /\ runner' \in {runner, "killed"}
           /\ runner' = "killed" => ~RunnerGone \/ runner = "killed"
           /\ stop' \in {stop, "signalled"}
           /\ client = "waiting"
BY DEF GiveUp, RunnerTermed, RunnerGone, TypeOK

LEMMA FlagsNext == Flags /\ [Next]_vars => Flags'
<1> SUFFICES ASSUME Flags, [Next]_vars PROVE Flags'
  OBVIOUS
<1> USE DEF Flags
<1>1. ASSUME NEW category, GiveUp(category), UNCHANGED <<timer, groupKill>> PROVE Flags'
  BY <1>1 DEF GiveUp
<1>2. CASE ClientStep
  BY <1>1, <1>2 DEF ClientStep, Spawn, WriteInput, Abort, Watchdog, OutputTooLarge, RunnerRest,
     ClientSeesClose, ForceKill, ClientDies, runnerVars
<1>3. CASE Stop \/ Deadline \/ GroupKill \/ Data
  BY <1>3 DEF Stop, Deadline, GroupKill, Data, Terminate, clientVars
<1>4. CASE BootFails \/ ReadStdin \/ InstallGuard \/ AdapterSettles \/ SpawnFails
           \/ ReportWrites \/ RunnerExits \/ RunnerCrashes
  BY <1>4 DEF BootFails, ReadStdin, InstallGuard, AdapterSettles, SpawnFails, ReportWrites,
     RunnerExits, RunnerCrashes, clientVars
<1>5. CASE AdapterStep
  BY <1>5 DEF AdapterStep, AdapterAdvances, AdapterFails, AdapterRejected, AdapterFinishes,
     AdapterKilled, AdapterExits, clientVars, runnerVars
<1>6. CASE UNCHANGED vars
  BY <1>6 DEF vars, clientVars, runnerVars
<1> QED BY <1>2, <1>3, <1>4, <1>5, <1>6 DEF Next, ClientStep, RunnerStep, AdapterStep

LEMMA TypeNext == TypeInv /\ [Next]_vars => TypeOK'
<1> SUFFICES ASSUME TypeInv, Flags', [Next]_vars PROVE TypeOK'
  BY FlagsNext DEF TypeInv, TypeOK
<1> USE DEF After, Categories
<1>1. CASE ClientStep
  <2>1. CASE Spawn
    BY <2>1 DEF Spawn, TypeInv, TypeOK, adapterVars, Categories
  <2>2. CASE WriteInput
    BY <2>2 DEF WriteInput, TypeInv, TypeOK, adapterVars, runnerVars
  <2>3. CASE Abort \/ Watchdog \/ OutputTooLarge
    <3>1. PICK category \in Categories : GiveUp(category)
      BY <2>3 DEF Abort, Watchdog, OutputTooLarge, Categories
    <3>2. happened' \subseteq Categories /\ UNCHANGED RunnerRest
      BY <2>3 DEF Abort, Watchdog, OutputTooLarge, Categories, TypeInv, TypeOK
    <3>3. /\ client' = "settled" /\ outcome' \in Categories \cup {"none", "success"}
          /\ runner' \in {runner, "killed"} /\ stop' \in {stop, "signalled"}
      BY <3>1, GiveUpType DEF TypeInv
    <3> QED BY <3>2, <3>3 DEF TypeInv, TypeOK, RunnerRest, adapterVars
  <2>4. CASE ClientSeesClose
    <3>1. Verdict \in Categories \cup {"none", "success"}
      BY DEF Verdict, TypeInv, TypeOK, Categories
    <3>2. outcome' \in Categories \cup {"none", "success"} /\ client' = "settled"
      BY <2>4, <3>1 DEF ClientSeesClose, TypeInv, TypeOK
    <3>3. UNCHANGED <<input, runnerVars, adapterVars, happened>>
      BY <2>4 DEF ClientSeesClose
    <3> QED BY <3>2, <3>3 DEF TypeInv, TypeOK, adapterVars, runnerVars
  <2>5. CASE ForceKill
    BY <2>5 DEF ForceKill, TypeInv, TypeOK, adapterVars, Categories
  <2>6. CASE ClientDies
    BY <2>6 DEF ClientDies, TypeInv, TypeOK, adapterVars, runnerVars
  <2> QED BY <1>1, <2>1, <2>2, <2>3, <2>4, <2>5, <2>6 DEF ClientStep
<1>2. CASE BootFails \/ InstallGuard \/ ReportWrites \/ RunnerExits \/ RunnerCrashes \/ SpawnFails
  BY <1>2 DEF BootFails, InstallGuard, ReportWrites, RunnerExits, RunnerCrashes, SpawnFails,
     Runner, TypeInv, TypeOK, adapterVars, clientVars, Categories
<1>3. CASE ReadStdin
  <2>1. runner' \in {"spawned", "reporting"} /\ report' \in {report, "runner"} /\ sql' = input
    BY <1>3 DEF ReadStdin, Runner
  <2>2. adapter' = adapter \/ adapter' \in {"none", "frames"}
    BY <1>3 DEF ReadStdin
  <2>3. adapter' \in {"none", "frames"} /\ emitted = 0 /\ client # "idle"
    BY <1>3, <2>2 DEF ReadStdin, Runner, TypeInv, AdapterInv
  <2>4. UNCHANGED <<clientVars, parentSeen, stop, forced, got, written, exit, emitted, happened>>
    BY <1>3 DEF ReadStdin
  <2> QED BY <2>1, <2>3, <2>4 DEF TypeInv, TypeOK, clientVars
<1>4. CASE Stop \/ Deadline \/ GroupKill \/ Data
  <2>1. /\ got' \in {got, emitted} /\ emitted' = emitted
        /\ adapter' \in {adapter, "gone"} /\ exit' \in {exit, "signal"}
    BY <1>4 DEF Stop, Deadline, GroupKill, Data, Terminate, adapterVars
  <2>2. /\ stop' \in {stop, "stopped"}
        /\ forced' \in Categories \cup {"none"} /\ happened' \subseteq Categories
    BY <1>4 DEF Stop, Deadline, GroupKill, Data, Terminate, adapterVars, Categories, TypeInv, TypeOK
  <2>3. UNCHANGED <<clientVars, runner, sql, parentSeen, report, written>>
    BY <1>4 DEF Stop, Deadline, GroupKill, Data
  <2> QED BY <2>1, <2>2, <2>3 DEF TypeInv, TypeOK, clientVars
<1>5. CASE AdapterSettles
  <2>1. AdapterReport \in Categories \cup {"none", "xml"}
    BY <1>5 DEF AdapterReport, ExitCategory, Categories, TypeInv, TypeOK
  <2>2. report' \in Categories \cup {"none", "xml"} /\ runner' = "reporting"
    BY <1>5, <2>1 DEF AdapterSettles, Runner
  <2>3. UNCHANGED <<clientVars, sql, parentSeen, stop, forced, groupKill, got, written,
                    adapterVars, happened>>
    BY <1>5 DEF AdapterSettles
  <2> QED BY <2>2, <2>3 DEF TypeInv, TypeOK, adapterVars, clientVars
<1>6. CASE AdapterAdvances
  <2>1. adapter' \in StageNames
    BY <1>6, StageOrder DEF AdapterAdvances, StageNames
  <2>2. emitted' \in {0, 1, 2, 3} 
    BY <1>6, StageOrder DEF AdapterAdvances, TypeInv, TypeOK
  <2> QED BY <1>6, <2>1, <2>2, StageSet DEF AdapterAdvances, TypeInv, TypeOK, clientVars, runnerVars
<1>7. CASE AdapterFails \/ AdapterRejected \/ AdapterFinishes \/ AdapterKilled
  <2>1. PICK code \in Categories \cup {"ok", "signal"} : AdapterExits(code)
    BY <1>7, ExitType DEF AdapterFails, AdapterRejected, AdapterFinishes, AdapterKilled, Categories
  <2> QED BY <2>1 DEF AdapterExits, TypeInv, TypeOK, clientVars, runnerVars
<1>8. CASE UNCHANGED vars
  BY <1>8 DEF vars, TypeInv, TypeOK, clientVars, runnerVars, adapterVars
<1> QED BY <1>1, <1>2, <1>3, <1>4, <1>5, <1>6, <1>7, <1>8 DEF Next, ClientStep, RunnerStep

LEMMA AdapterNext == TypeInv /\ [Next]_vars => AdapterInv'
<1> SUFFICES ASSUME TypeInv, [Next]_vars PROVE AdapterInv'
  OBVIOUS
<1> USE DEF TypeInv, AdapterInv
<1>1. CASE Spawn \/ WriteInput \/ ClientSeesClose \/ ForceKill \/ ClientDies
  BY <1>1 DEF Spawn, WriteInput, ClientSeesClose, ForceKill, ClientDies, RunnerGone,
     adapterVars, runnerVars
<1>2. CASE Abort \/ Watchdog \/ OutputTooLarge
  <2>1. PICK category : GiveUp(category)
    BY <1>2 DEF Abort, Watchdog, OutputTooLarge
  <2>2. client' = "settled" /\ runner' \in {runner, "killed"} /\ UNCHANGED adapterVars
    BY <1>2, <2>1 DEF GiveUp, RunnerTermed, Abort, Watchdog, OutputTooLarge, RunnerRest
  <2> QED BY <2>2 DEF adapterVars
<1>3. CASE BootFails \/ InstallGuard \/ AdapterSettles \/ SpawnFails \/ ReportWrites
           \/ RunnerExits \/ RunnerCrashes
  BY <1>3 DEF BootFails, InstallGuard, AdapterSettles, SpawnFails, ReportWrites, RunnerExits,
     RunnerCrashes, Runner, adapterVars, clientVars
<1>4. CASE ReadStdin
  <2>1. runner' \in {"spawned", "reporting"} /\ runner = "boot" /\ adapter' \in {"none", "frames"}
    BY <1>4 DEF ReadStdin, Runner
  <2> QED BY <1>4, <2>1 DEF ReadStdin, clientVars
<1>5. CASE Stop \/ Deadline \/ GroupKill \/ Data
  <2>1. /\ adapter' \in {adapter, "gone"} /\ runner = "running"
        /\ UNCHANGED <<clientVars, runner, emitted>>
    BY <1>5 DEF Stop, Deadline, GroupKill, Data, Terminate, adapterVars
  <2> QED BY <2>1 DEF clientVars
<1>6. CASE AdapterAdvances
  <2>1. adapter # "none" /\ UNCHANGED <<clientVars, runnerVars>>
    BY <1>6, StageOrder DEF AdapterAdvances
  <2>2. /\ adapter' \in {"login", "ssh", "ready", "begin"} => emitted' = emitted /\ emitted = 0
        /\ adapter' = "rows" => emitted' = 1
        /\ adapter' = "end" => emitted' = 2
        /\ adapter' \notin {"none", "frames"}
    BY <1>6, StageOrder DEF AdapterAdvances
  <2> QED BY <2>1, <2>2 DEF clientVars, runnerVars
<1>7. CASE AdapterFails \/ AdapterRejected \/ AdapterFinishes \/ AdapterKilled
  <2>1. PICK code : AdapterExits(code)
    BY <1>7 DEF AdapterFails, AdapterRejected, AdapterFinishes, AdapterKilled
  <2>2. adapter # "none"
    BY <1>7 DEF AdapterFails, AdapterRejected, AdapterFinishes, AdapterKilled, AdapterGone
  <2> QED BY <2>1, <2>2 DEF AdapterExits, clientVars, runnerVars
<1>8. CASE UNCHANGED vars
  BY <1>8 DEF vars, clientVars, runnerVars, adapterVars
<1> QED BY <1>1, <1>2, <1>3, <1>4, <1>5, <1>6, <1>7, <1>8 DEF Next, RunnerStep

LEMMA TypeInit == Init => TypeInv
BY DEF Init, TypeInv, TypeOK, Flags, AdapterInv, Categories, After

\* The variables of the run keep their types.
THEOREM RunTypeCorrect == Spec => []TypeOK
<1>1. TypeInv /\ [Next]_vars => TypeInv'
  BY TypeNext, AdapterNext DEF TypeInv
<1> QED BY TypeInit, <1>1, PTL DEF Spec, TypeInv

\* runExpect: a runner that has its answer has outlived the adapter.
THEOREM AnswerAfterAdapter == Spec => []RunnerOutlivesAdapter
<1>1. Init => RunnerOutlivesAdapter
  BY DEF Init, RunnerOutlivesAdapter
<1>2. TypeInv /\ RunnerOutlivesAdapter /\ [Next]_vars => RunnerOutlivesAdapter'
  <2> SUFFICES ASSUME TypeInv, RunnerOutlivesAdapter, [Next]_vars PROVE RunnerOutlivesAdapter'
    OBVIOUS
  <2> USE DEF RunnerOutlivesAdapter, AdapterGone
  <2>1. CASE ClientStep
    <3>1. UNCHANGED adapterVars
      BY <2>1 DEF ClientStep, Spawn, WriteInput, Abort, Watchdog, OutputTooLarge, RunnerRest,
         ClientSeesClose, ForceKill, ClientDies
    <3>2. runner' \in {runner, "boot", "killed"}
      BY <2>1 DEF ClientStep, Spawn, WriteInput, Abort, Watchdog, OutputTooLarge, GiveUp,
         RunnerTermed, ClientSeesClose, ForceKill, ClientDies, runnerVars
    <3> QED BY <3>1, <3>2 DEF adapterVars
  <2>2. CASE BootFails \/ ReadStdin
    <3>1. adapter = "none" /\ (runner' = "spawned" \/ adapter' = adapter)
      BY <2>2 DEF BootFails, ReadStdin, Runner, adapterVars, TypeInv, AdapterInv
    <3> QED BY <3>1
  <2>3. CASE InstallGuard \/ ReportWrites \/ RunnerExits \/ RunnerCrashes
    BY <2>3 DEF InstallGuard, ReportWrites, RunnerExits, RunnerCrashes, Runner, adapterVars
  <2>4. CASE AdapterSettles \/ SpawnFails
    BY <2>4 DEF AdapterSettles, AdapterClosed, SpawnFails, adapterVars
  <2>5. CASE Stop \/ Deadline \/ GroupKill \/ Data
    BY <2>5 DEF Stop, Deadline, GroupKill, Data
  <2>6. CASE AdapterStep
    <3>1. runner' = runner /\ ~AdapterGone
      BY <2>6, StageOrder DEF AdapterStep, AdapterAdvances, AdapterFails, AdapterRejected,
         AdapterFinishes, AdapterKilled, AdapterExits, runnerVars
    <3> QED BY <3>1
  <2>7. CASE UNCHANGED vars
    BY <2>7 DEF vars, runnerVars, adapterVars
  <2> QED BY <2>1, <2>2, <2>3, <2>4, <2>5, <2>6, <2>7 DEF Next, ClientStep, RunnerStep, AdapterStep
<1>3. TypeInv /\ [Next]_vars => TypeInv'
  BY TypeNext, AdapterNext DEF TypeInv
<1> QED BY <1>1, <1>2, <1>3, TypeInit, PTL DEF Spec

\* What a complete result rests on: the whole statement as long as there is
\* a client, an adapter that has ended well, and all of its output.
ResultInv ==
    /\ runner \in {"spawned", "running"} /\ client # "dead" => sql = "whole"
    /\ report # "none" => runner \in {"reporting", "exited", "killed"}
    /\ report = "xml" =>
          /\ exit = "ok" /\ got = 3 /\ adapter = "gone"
          /\ client # "dead" => sql = "whole"
    /\ runner = "exited" => written = "whole"
    /\ outcome = "success" =>
          /\ report = "xml" /\ runner = "exited" /\ sql = "whole"

LEMMA ResultNext == TypeInv /\ ResultInv /\ [Next]_vars => ResultInv'
<1> SUFFICES ASSUME TypeInv, ResultInv, [Next]_vars PROVE ResultInv'
  OBVIOUS
<1> USE DEF ResultInv
<1>1. CASE Spawn
  <2>1. /\ report' = report /\ outcome # "success" /\ outcome' # "success"
        /\ runner' \in {runner, "boot"} /\ runner = "none" /\ report = "none"
    BY <1>1 DEF Spawn, TypeInv, AdapterInv
  <2> QED BY <2>1
<1>2. CASE WriteInput \/ ClientDies
  BY <1>2 DEF WriteInput, ClientDies, runnerVars, adapterVars
<1>3. CASE Abort \/ Watchdog \/ OutputTooLarge
  <2>1. PICK category \in {"runner", "timeout", "result_too_large"} : GiveUp(category)
    BY <1>3 DEF Abort, Watchdog, OutputTooLarge
  <2>2. /\ outcome' # "success" /\ client # "dead"
        /\ runner' = runner \/ runner' = "killed"
        /\ UNCHANGED <<sql, got, report, written, exit, adapter>>
    BY <1>3, <2>1 DEF GiveUp, RunnerTermed, Abort, Watchdog, OutputTooLarge, RunnerRest, adapterVars
  <2> QED BY <2>2
<1>4. CASE ClientSeesClose
  <2>1. client # "dead" /\ UNCHANGED <<runner, sql, got, report, written, exit, adapter>>
    BY <1>4 DEF ClientSeesClose, runnerVars, adapterVars
  <2>2. outcome' = "success" =>
            outcome = "success" \/ (report = "xml" /\ runner = "exited") \/ report = "success"
    BY <1>4 DEF ClientSeesClose, Verdict
  <2>3. report # "success"
    BY DEF TypeInv, TypeOK, Categories
  <2> QED BY <2>1, <2>2, <2>3
<1>5. CASE ForceKill \/ RunnerCrashes
  <2>1. /\ runner' = runner \/ (runner' = "killed" /\ runner # "exited")
        /\ UNCHANGED <<client, outcome, sql, got, report, written, exit, adapter>>
    BY <1>5 DEF ForceKill, RunnerCrashes, RunnerGone, clientVars, adapterVars
  <2> QED BY <2>1
<1>6. CASE BootFails \/ ReadStdin
  <2>1. /\ runner = "boot" /\ runner' \in {"spawned", "reporting"}
        /\ (report' = report /\ report = "none") \/ report' = "runner"
        /\ UNCHANGED <<client, outcome>>
    BY <1>6 DEF BootFails, ReadStdin, Runner, clientVars
  <2>2. runner' = "spawned" /\ client' # "dead" => sql' = "whole"
    BY <1>6 DEF BootFails, ReadStdin, Runner, clientVars
  <2>3. outcome' # "success" /\ report' # "xml" /\ client' = client
    BY <2>1
  <2>4. report' # "none" => runner' = "reporting"
    BY <1>6 DEF BootFails, ReadStdin, Runner, clientVars
  <2> QED BY <2>1, <2>2, <2>3, <2>4
<1>7. CASE InstallGuard
  BY <1>7 DEF InstallGuard, Runner, clientVars, adapterVars
<1>8. CASE AdapterSettles \/ SpawnFails
  <2>1. /\ runner = "running" /\ runner' = "reporting"
        /\ UNCHANGED <<clientVars, sql, got, adapterVars>>
    BY <1>8 DEF AdapterSettles, SpawnFails, Runner
  <2>2. report' = "xml" => exit = "ok" /\ got = 3 /\ adapter = "gone"
    <3>1. CASE SpawnFails
      BY <3>1 DEF SpawnFails
    <3>2. CASE AdapterSettles
      <4>1. forced # "xml" /\ exit # "xml"
        BY DEF TypeInv, TypeOK, Categories
      <4> QED BY <3>2, <4>1 DEF AdapterSettles, AdapterClosed, AdapterReport, ExitCategory
    <3> QED BY <1>8, <3>1, <3>2
  <2> QED BY <2>1, <2>2 DEF clientVars, adapterVars
<1>9. CASE ReportWrites \/ RunnerExits
  BY <1>9 DEF ReportWrites, RunnerExits, Runner, clientVars, adapterVars
<1>10. CASE Stop \/ Deadline \/ GroupKill \/ Data
  <2>1. runner = "running" /\ UNCHANGED <<clientVars, runner, sql, report, written>>
    BY <1>10 DEF Stop, Deadline, GroupKill, Data
  <2> QED BY <2>1 DEF clientVars
<1>11. CASE AdapterStep
  <2>1. adapter # "gone" /\ UNCHANGED <<clientVars, runnerVars>>
    BY <1>11, StageOrder DEF AdapterStep, AdapterAdvances, AdapterFails, AdapterRejected,
       AdapterFinishes, AdapterKilled, AdapterExits, AdapterGone
  <2> QED BY <2>1 DEF clientVars, runnerVars
<1>12. CASE UNCHANGED vars
  BY <1>12 DEF vars, clientVars, runnerVars, adapterVars
<1> QED BY <1>1, <1>2, <1>3, <1>4, <1>5, <1>6, <1>7, <1>8, <1>9, <1>10, <1>11, <1>12
        DEF Next, RunnerStep, AdapterStep

\* A resolved promise means that the whole statement was run, that MySQL
\* accepted it and that the whole result arrived.
THEOREM SuccessMeansComplete == Spec => []SuccessIsComplete
<1>1. Init => ResultInv
  BY DEF Init, ResultInv
<1>2. ResultInv => SuccessIsComplete
  BY DEF ResultInv, SuccessIsComplete
<1>3. TypeInv /\ [Next]_vars => TypeInv'
  BY TypeNext, AdapterNext DEF TypeInv
<1> QED BY <1>1, <1>2, <1>3, ResultNext, TypeInit, PTL DEF Spec

\* Every category that is on its way to the client is of something that
\* happened.
TrueInv ==
    /\ exit \in happened \cup {"none", "ok", "signal"}
    /\ forced \in happened \cup {"none", "runner"}
    /\ report \in happened \cup {"none", "xml", "runner"}

LEMMA TrueNext == TrueInv /\ CategoryIsTrue /\ [Next]_vars => TrueInv' /\ CategoryIsTrue'
<1> SUFFICES ASSUME TrueInv, CategoryIsTrue, [Next]_vars PROVE TrueInv' /\ CategoryIsTrue'
  OBVIOUS
<1> USE DEF TrueInv, CategoryIsTrue
<1>1. CASE Spawn \/ WriteInput \/ ForceKill \/ ClientDies
  BY <1>1 DEF Spawn, WriteInput, ForceKill, ClientDies, runnerVars, adapterVars
<1>2. CASE Abort \/ Watchdog \/ OutputTooLarge
  <2>1. /\ outcome' \in happened' \cup {"runner"} /\ happened \subseteq happened'
        /\ UNCHANGED <<exit, forced, report>>
    BY <1>2 DEF Abort, Watchdog, OutputTooLarge, GiveUp, RunnerRest, adapterVars
  <2> QED BY <2>1
<1>3. CASE ClientSeesClose
  BY <1>3 DEF ClientSeesClose, Verdict, runnerVars, adapterVars
<1>4. CASE BootFails \/ ReadStdin \/ SpawnFails
  BY <1>4 DEF BootFails, ReadStdin, SpawnFails, clientVars, adapterVars
<1>5. CASE InstallGuard \/ ReportWrites \/ RunnerExits \/ RunnerCrashes
  BY <1>5 DEF InstallGuard, ReportWrites, RunnerExits, RunnerCrashes, clientVars, adapterVars
<1>6. CASE AdapterSettles
  BY <1>6 DEF AdapterSettles, AdapterReport, ExitCategory, clientVars, adapterVars
<1>7. CASE Stop \/ Deadline \/ GroupKill \/ Data
  <2>1. /\ exit' \in {exit, "signal"} /\ forced' \in happened' \cup {"runner", forced}
        /\ happened \subseteq happened' /\ UNCHANGED <<outcome, report>>
    BY <1>7 DEF Stop, Deadline, GroupKill, Data, Terminate, clientVars, adapterVars
  <2> QED BY <2>1
<1>8. CASE AdapterAdvances
  BY <1>8 DEF AdapterAdvances, clientVars, runnerVars
<1>9. CASE AdapterFails \/ AdapterRejected \/ AdapterFinishes \/ AdapterKilled
  <2>1. PICK code : AdapterExits(code)
    BY <1>9 DEF AdapterFails, AdapterRejected, AdapterFinishes, AdapterKilled
  <2> QED BY <2>1 DEF AdapterExits, clientVars, runnerVars
<1>10. CASE UNCHANGED vars
  BY <1>10 DEF vars, clientVars, runnerVars, adapterVars
<1> QED BY <1>1, <1>2, <1>3, <1>4, <1>5, <1>6, <1>7, <1>8, <1>9, <1>10 DEF Next, RunnerStep

\* Whoever gives up first, the category that is shown is of something that
\* happened to this query.
THEOREM CategoriesAreTrue == Spec => []CategoryIsTrue
<1>1. Init => TrueInv /\ CategoryIsTrue
  BY DEF Init, TrueInv, CategoryIsTrue
<1> QED BY <1>1, TrueNext, PTL DEF Spec
=============================================================================
