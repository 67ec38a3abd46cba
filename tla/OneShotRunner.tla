--------------------------- MODULE OneShotRunner ---------------------------
(***************************************************************************)
(* One query through a configured runner (runnerPath): RunnerClient.run of *)
(* src/backend/runner-client.js in DbGate's process, the runner it spawns  *)
(* (src/runner/cli.js) and the Expect adapter the runner spawns in its own *)
(* process group (runner/relay-mysql.exp).  Each of them can end, be       *)
(* killed or hang on its own.                                              *)
(*                                                                         *)
(* Output is abstracted to how far it has got: 0 nothing, 1 begun, 2 all   *)
(* of the rows, 3 the end.  A signal meets the default disposition, which  *)
(* kills, outside the lines between which cli.js handles it.               *)
(***************************************************************************)
EXTENDS Naturals

VARIABLES
    client,     \* "idle", "waiting", "settled", or "dead" with its process
    outcome,    \* of the promise: "none", "success", or a category
    input,      \* the SQL in the runner's stdin: "none", "part", "whole"
    killArmed,  \* the client's 400 ms timer
    runner,     \* "none", "boot", "spawned", "running", "reporting", "exited", "killed"
    sql,        \* what the runner read: "none", "part", "whole"
    parentSeen, \* the runner's ppid when it installed its guard
    stop,       \* the guard: "no", "signalled", "stopped"
    timer,      \* the runner's deadline is running
    forced,     \* forcedCategory
    groupKill,  \* the runner's 250 ms timer
    got,        \* how much of the adapter's output the runner has extracted
    report,     \* what the runner writes: "none", "xml", or a category
    written,    \* how much of it: "none", "part", "whole"
    adapter,    \* where the Expect script is, or "gone"
    exit,       \* its exit status: "none", "ok", a category, "signal"
    emitted,    \* how much it has written to its stdout
    happened    \* history: the categories of what went wrong

clientVars == <<client, outcome, input, killArmed>>
runnerVars == <<runner, sql, parentSeen, stop, timer, forced, groupKill, got, report, written>>
adapterVars == <<adapter, exit, emitted>>
vars == <<clientVars, runnerVars, adapterVars, happened>>

RunnerGone == runner \in {"exited", "killed"}
AdapterGone == adapter \in {"none", "gone"}

Init ==
    /\ client = "idle" /\ outcome = "none" /\ input = "none"
    /\ killArmed = FALSE
    /\ runner = "none" /\ sql = "none" /\ parentSeen = "none"
    /\ stop = "no" /\ timer = FALSE /\ forced = "none" /\ groupKill = FALSE
    /\ got = 0 /\ report = "none" /\ written = "none"
    /\ adapter = "none" /\ exit = "none" /\ emitted = 0
    /\ happened = {}

(***************************************************************************)
(* RunnerClient.run.                                                       *)
(***************************************************************************)
Spawn ==
    /\ client = "idle"
    /\ \/ client' = "waiting" /\ runner' = "boot" /\ UNCHANGED outcome
       \/ client' = "settled" /\ outcome' = "runner" /\ UNCHANGED runner
    /\ UNCHANGED <<input, killArmed, sql, parentSeen, stop, timer, forced,
                   groupKill, got, report, written, adapterVars, happened>>

\* stdin.end(sql): a pipe takes a long statement in pieces.
WriteInput ==
    /\ client = "waiting" /\ input # "whole" /\ ~RunnerGone
    /\ input' \in {"part", "whole"} \ {input}
    /\ UNCHANGED <<client, outcome, killArmed, runnerVars, adapterVars, happened>>

\* SIGTERM reaches the runner.  Its listener is there for one signal only,
\* and only from the guard's installation to the end of the adapter.
RunnerTermed ==
    IF runner = "running" /\ stop = "no" THEN stop' = "signalled" /\ UNCHANGED runner
    ELSE /\ runner' = IF RunnerGone THEN runner ELSE "killed"
         /\ UNCHANGED stop

\* terminateChild, then fail with its cleanup.
GiveUp(category) ==
    /\ client = "waiting"
    /\ client' = "settled"
    /\ outcome' = category
    /\ killArmed' = TRUE
    /\ RunnerTermed

RunnerRest == <<input, sql, parentSeen, timer, forced, groupKill, got, report, written, adapterVars>>

Abort == GiveUp("runner") /\ UNCHANGED <<RunnerRest, happened>>

\* Mutant: the watchdog is armed when the SQL has been written.
WatchdogAfterInput ==
    input = "whole" /\ GiveUp("timeout") /\ happened' = happened \cup {"timeout"} /\ UNCHANGED RunnerRest

Watchdog == GiveUp("timeout") /\ happened' = happened \cup {"timeout"} /\ UNCHANGED RunnerRest

\* A runner that is not the packaged one may write more than the limit.
OutputTooLarge ==
    /\ written # "none"
    /\ \/ report = "xml" /\ GiveUp("result_too_large") /\ happened' = happened \cup {"result_too_large"}
       \/ report # "xml" /\ GiveUp("runner") /\ UNCHANGED happened
    /\ UNCHANGED RunnerRest

\* Mutant: only the output is looked at.
VerdictByOutput ==
    IF report = "xml" THEN "success"
    ELSE IF written = "whole" THEN report ELSE "runner"

\* What the client makes of the runner's exit code and output.  A runner that
\* was killed has no exit code.
Verdict ==
    IF report = "xml"
    THEN IF runner = "exited" THEN "success" ELSE "runner"
    ELSE IF written = "whole" THEN report ELSE "runner"

\* The child's 'close'.
ClientSeesClose ==
    /\ client \in {"waiting", "settled"} /\ RunnerGone
    /\ client = "waiting" \/ killArmed
    /\ client' = "settled"
    /\ outcome' = IF client = "waiting" THEN Verdict ELSE outcome
    /\ killArmed' = FALSE
    /\ UNCHANGED <<input, runnerVars, adapterVars, happened>>

ForceKill ==
    /\ client = "settled" /\ killArmed
    /\ killArmed' = FALSE
    /\ runner' = IF RunnerGone THEN runner ELSE "killed"
    /\ UNCHANGED <<client, outcome, input, sql, parentSeen, stop, timer, forced,
                   groupKill, got, report, written, adapterVars, happened>>

ClientDies ==
    /\ client \in {"waiting", "settled"}
    /\ client' = "dead"
    /\ UNCHANGED <<outcome, input, killArmed, runnerVars, adapterVars, happened>>

(***************************************************************************)
(* The runner: main and runExpect.                                         *)
(***************************************************************************)
Runner(from, to) == runner = from /\ runner' = to

\* parseArgs, loadProfile, or readStdin at its limit.
BootFails ==
    /\ Runner("boot", "reporting")
    /\ report' = "runner"
    /\ UNCHANGED <<clientVars, sql, parentSeen, stop, timer, forced, groupKill, got,
                   written, adapterVars, happened>>

\* stdin ends when the client has written all of it, or has died.
ReadStdin ==
    /\ input = "whole" \/ client = "dead"
    /\ sql' = input
    /\ \/ Runner("boot", "spawned") /\ adapter' \in {"none", "frames"} /\ UNCHANGED report
       \/ Runner("boot", "reporting") /\ report' = "runner" /\ UNCHANGED adapter
    /\ UNCHANGED <<clientVars, parentSeen, stop, timer, forced, groupKill, got, written,
                   exit, emitted, happened>>

\* The guard, the deadline and the frames.  Whoever has adopted an orphan by
\* now, init or a subreaper, is taken for the parent.
InstallGuard ==
    /\ Runner("spawned", "running")
    /\ parentSeen' \in IF client = "dead" THEN {"init", "reaper"} ELSE {"client"}
    /\ timer' = TRUE
    /\ UNCHANGED <<clientVars, sql, stop, forced, groupKill, got, report, written, adapterVars, happened>>

TerminateNobody(category) ==
    /\ forced' = category
    /\ UNCHANGED <<groupKill, adapterVars>>

\* forcedCategory, and terminateProcessGroup: SIGTERM, which ends Expect
\* unless it is stuck, and SIGKILL 250 ms later.
Terminate(category) ==
    /\ forced' = category
    /\ groupKill' = (adapter # "none")
    /\ \/ ~AdapterGone /\ adapter' = "gone" /\ exit' = "signal" /\ UNCHANGED emitted
       \/ UNCHANGED adapterVars

Stop ==
    /\ runner = "running"
    /\ \/ stop = "signalled"
       \/ stop = "no" /\ client = "dead" /\ parentSeen \in {"client", "init"}
    /\ stop' = "stopped"
    /\ Terminate("runner")
    /\ UNCHANGED <<clientVars, runner, sql, parentSeen, timer, got, report, written, happened>>

\* Mutant: the deadline gives up without terminating the adapter.
DeadlineLeaves ==
    /\ runner = "running" /\ timer
    /\ timer' = FALSE
    /\ TerminateNobody("timeout")
    /\ happened' = happened \cup {"timeout"}
    /\ UNCHANGED <<clientVars, runner, sql, parentSeen, stop, got, report, written>>

Deadline ==
    /\ runner = "running" /\ timer
    /\ timer' = FALSE
    /\ Terminate("timeout")
    /\ happened' = happened \cup {"timeout"}
    /\ UNCHANGED <<clientVars, runner, sql, parentSeen, stop, got, report, written>>

GroupKill ==
    /\ runner = "running" /\ groupKill
    /\ groupKill' = FALSE
    /\ adapter' = "gone"
    /\ exit' = IF adapter = "gone" THEN exit ELSE "signal"
    /\ UNCHANGED <<clientVars, runner, sql, parentSeen, stop, timer, forced, got, report,
                   written, emitted, happened>>

\* The rows may exceed the limit of the extractor; what comes after the
\* category is forced is dropped.
Data ==
    /\ runner = "running" /\ forced = "none" /\ got < emitted
    /\ \/ got' = emitted /\ UNCHANGED <<forced, groupKill, adapterVars, happened>>
       \/ /\ emitted >= 2
          /\ Terminate("result_too_large")
          /\ happened' = happened \cup {"result_too_large"}
          /\ UNCHANGED got
    /\ UNCHANGED <<clientVars, runner, sql, parentSeen, stop, timer, report, written>>

\* Mutant: the codes of the two MySQL errors are interchanged.
ExitCategorySwapped ==
    CASE exit = "signal" -> "runner" [] exit = "sql_error" -> "mysql_connection"
      [] exit = "mysql_connection" -> "sql_error" [] OTHER -> exit

\* The category of the adapter's exit code, by EXIT_CODES.
ExitCategory == IF exit = "signal" THEN "runner" ELSE exit

AdapterReport ==
    IF forced # "none" THEN forced
    ELSE IF exit # "ok" THEN ExitCategory
    ELSE IF got = 3 THEN "xml" ELSE "runner"

\* Mutant: runExpect rejects as soon as the category is forced.
AdapterClosedEarly == forced # "none" \/ (adapter = "gone" /\ got = emitted)

\* 'close': the adapter has ended and its output has been read.
AdapterClosed == adapter = "gone" /\ (forced # "none" \/ got = emitted)

AdapterSettles ==
    /\ AdapterClosed
    /\ Runner("running", "reporting")
    /\ timer' = FALSE
    /\ report' = AdapterReport
    /\ UNCHANGED <<clientVars, sql, parentSeen, stop, forced, groupKill, got, written,
                   adapterVars, happened>>

\* The child's 'error': Expect could not be started.
SpawnFails ==
    /\ adapter = "none"
    /\ Runner("running", "reporting")
    /\ timer' = FALSE
    /\ report' = "runner"
    /\ UNCHANGED <<clientVars, sql, parentSeen, stop, forced, groupKill, got, written,
                   adapterVars, happened>>

ReportWrites ==
    /\ runner = "reporting" /\ written # "whole"
    /\ written' \in {"part", "whole"} \ {written}
    /\ UNCHANGED <<clientVars, runner, sql, parentSeen, stop, timer, forced, groupKill,
                   got, report, adapterVars, happened>>

RunnerExits ==
    /\ written = "whole"
    /\ Runner("reporting", "exited")
    /\ UNCHANGED <<clientVars, sql, parentSeen, stop, timer, forced, groupKill, got,
                   report, written, adapterVars, happened>>

RunnerCrashes ==
    /\ runner \notin {"none", "exited", "killed"}
    /\ runner' = "killed"
    /\ UNCHANGED <<clientVars, sql, parentSeen, stop, timer, forced, groupKill, got,
                   report, written, adapterVars, happened>>

(***************************************************************************)
(* The adapter: the frames, three dialogues, the markers.                  *)
(***************************************************************************)
\* What the script comes to from each of its dialogues.
After == [frames |-> "login", login |-> "ssh", ssh |-> "ready", ready |-> "begin",
          begin |-> "rows", rows |-> "end", end |-> "status", status |-> "exit"]

\* The exit code when what is expected does not come.
ExitAt(stage) ==
    CASE stage = "login" -> "relay_login"
      [] stage \in {"ssh", "ready"} -> "ssh"
      [] OTHER -> "runner"

\* The frames of the profile and of the SQL are in a pipe that ends early
\* when the runner is killed before it has written them.
FramesThere == parentSeen # "none"

AdapterAdvances ==
    /\ adapter \in DOMAIN After /\ adapter' = After[adapter]
    /\ adapter = "frames" => FramesThere
    /\ emitted' = CASE adapter' = "rows" -> 1 [] adapter' = "end" -> 2
                    [] adapter' = "status" -> 3 [] OTHER -> emitted
    /\ UNCHANGED <<clientVars, runnerVars, exit, happened>>

AdapterExits(code) ==
    /\ adapter' = "gone"
    /\ exit' = code
    /\ happened' = happened \cup ({code} \ {"ok", "signal"})
    /\ UNCHANGED <<clientVars, runnerVars, emitted>>

AdapterFails ==
    /\ ~AdapterGone /\ adapter # "exit"
    /\ \/ AdapterExits(ExitAt(adapter))
       \/ adapter # "frames" /\ AdapterExits("timeout")

\* MySQL's verdict comes after its rows.
AdapterRejected == adapter = "status" /\ \E code \in {"mysql_connection", "sql_error"} : AdapterExits(code)

AdapterFinishes == adapter = "exit" /\ AdapterExits("ok")

AdapterKilled == ~AdapterGone /\ AdapterExits("signal")

RunnerStep ==
    \/ ReadStdin \/ InstallGuard \/ Stop \/ Deadline \/ GroupKill \/ Data
    \/ AdapterSettles \/ SpawnFails \/ ReportWrites \/ RunnerExits

Next ==
    \/ Spawn \/ WriteInput \/ Abort \/ Watchdog \/ OutputTooLarge
    \/ ClientSeesClose \/ ForceKill \/ ClientDies
    \/ BootFails \/ RunnerStep \/ RunnerCrashes
    \/ AdapterAdvances \/ AdapterFails \/ AdapterRejected \/ AdapterFinishes
    \/ AdapterKilled

Spec == Init /\ [][Next]_vars

\* Timers fire and events are delivered.  Nothing is assumed of the adapter,
\* which may hang in any dialogue, nor of the writing of the SQL, which a
\* runner may refuse to read.
Fairness ==
    /\ WF_vars(Watchdog) /\ WF_vars(ClientSeesClose) /\ WF_vars(ForceKill)
    /\ WF_vars(ReadStdin) /\ WF_vars(InstallGuard) /\ WF_vars(Stop) /\ WF_vars(Deadline)
    /\ WF_vars(GroupKill) /\ WF_vars(Data) /\ WF_vars(AdapterSettles) /\ WF_vars(SpawnFails)
    /\ WF_vars(ReportWrites) /\ WF_vars(RunnerExits)

FairSpec == Spec /\ Fairness

Categories == {"relay_login", "ssh", "mysql_connection", "sql_error", "timeout",
               "result_too_large", "runner"}

Flags == killArmed \in BOOLEAN /\ timer \in BOOLEAN /\ groupKill \in BOOLEAN

TypeOK ==
    /\ Flags
    /\ client \in {"idle", "waiting", "settled", "dead"}
    /\ outcome \in Categories \cup {"none", "success"}
    /\ input \in {"none", "part", "whole"}
    /\ runner \in {"none", "boot", "spawned", "running", "reporting", "exited", "killed"}
    /\ sql \in {"none", "part", "whole"}
    /\ parentSeen \in {"none", "client", "init", "reaper"}
    /\ stop \in {"no", "signalled", "stopped"}
    /\ forced \in Categories \cup {"none"}
    /\ got \in {0, 1, 2, 3} /\ emitted \in {0, 1, 2, 3}
    /\ report \in Categories \cup {"none", "xml"}
    /\ written \in {"none", "part", "whole"}
    /\ adapter \in DOMAIN After \cup {"none", "exit", "gone"}
    /\ exit \in Categories \cup {"none", "ok", "signal"}
    /\ happened \subseteq Categories

\* A promise that is resolved means that the whole statement was run, that
\* MySQL accepted it and that the whole result arrived (README.md:161).
SuccessIsComplete ==
    outcome = "success" => sql = "whole" /\ exit = "ok" /\ got = 3 /\ written = "whole"

\* Whoever gives up first, the category DbGate shows is of something that
\* happened to this query; "runner" claims nothing.
CategoryIsTrue == outcome \in happened \cup {"none", "success", "runner"}

\* runExpect: a runner that has its answer has outlived the adapter.
RunnerOutlivesAdapter == runner \in {"reporting", "exited"} => AdapterGone

\* Every query of the driver is settled while DbGate runs.
EveryRunSettles == client = "waiting" ~> client # "waiting"

\* When the query is settled, or DbGate is gone, the runner ends, and ends a
\* hanging adapter first unless it was killed itself.
NoProcessLeft ==
    client \in {"settled", "dead"} ~>
        /\ runner \in {"none", "exited", "killed"}
        /\ AdapterGone \/ runner = "killed"
=============================================================================
