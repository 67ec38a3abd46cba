--------------------------- MODULE ExpectAdapter ---------------------------
(***************************************************************************)
(* The persistent Expect adapter, runner/relay-mysql-session.exp: the      *)
(* child process of one session.  It logs in to the relay and to the SSH   *)
(* target, prints the READY marker and then serves one request at a time   *)
(* from its standard input: it starts the remote script, copies the XML    *)
(* that MySQL prints to its standard output between the BEGIN and the END  *)
(* marker, and ends with a RESULT line that names the status.              *)
(*                                                                         *)
(* A request on standard input is the identity of the request: its nonce   *)
(* is fresh (16 random bytes), so nonce and request determine each other.  *)
(* A chunk of output is a token that names the request whose nonce it      *)
(* carries.  What the relay, SSH and MySQL do is free.                     *)
(***************************************************************************)
EXTENDS Integers, Sequences

CONSTANTS
    Request,      \* the queries clients may run on this session
    NoRequest,    \* "no request"
    MaxRows       \* bound: pieces of XML that MySQL prints for one request

ASSUME RequestAssumption == NoRequest \notin Request
ASSUME MaxRowsAssumption == MaxRows \in Nat

VARIABLES
    adapter,      \* where the process is in the script
    serving,      \* the request it is serving
    stdin,        \* the pipe from the session: requests not yet read
    stdout,       \* the pipe to the session: tokens not yet delivered
    exitCode,     \* how the process ended; 0 stands for a signal (null in Node)
    printed,      \* history: pieces of XML printed for each request
    reported      \* history: the status printed for each request

adapterVars == <<adapter, serving, stdin, stdout, exitCode, printed, reported>>

Statuses == {"OK", "sql_error", "mysql_connection"}
ExitCodes == {0, 10, 11, 14}
Busy == {"started", "rows", "status"}
Phases == {"none", "login", "idle", "exited"} \cup Busy

Token(kind, r) == [kind |-> kind, of |-> r]
Tokens == [kind : {"ready", "noise", "begin", "row", "end"} \cup Statuses,
           of : Request \cup {NoRequest}]

Running == adapter \notin {"none", "exited"}

Puts(kind, r) == stdout' = Append(stdout, Token(kind, r))

(***************************************************************************)
(* The relay and the SSH login: the prompts appear, or the script exits    *)
(* with the code of the stage that failed or timed out.                    *)
(***************************************************************************)
AdapterReady ==
    /\ adapter = "login"
    /\ adapter' = "idle"
    /\ Puts("ready", NoRequest)
    /\ UNCHANGED <<serving, stdin, exitCode, printed, reported>>

AdapterLoginFails ==
    /\ adapter = "login"
    /\ adapter' = "exited"
    /\ exitCode' \in {10, 11, 14}
    /\ UNCHANGED <<serving, stdin, stdout, printed, reported>>

(***************************************************************************)
(* One turn of the request loop.                                           *)
(***************************************************************************)
AdapterReads ==
    /\ adapter = "idle"
    /\ stdin # <<>>
    /\ adapter' = "started"
    /\ serving' = Head(stdin)
    /\ stdin' = Tail(stdin)
    /\ UNCHANGED <<stdout, exitCode, printed, reported>>

AdapterBegins ==
    /\ adapter = "started"
    /\ adapter' = "rows"
    /\ Puts("begin", serving)
    /\ UNCHANGED <<serving, stdin, exitCode, printed, reported>>

AdapterPrintsRow ==
    /\ adapter = "rows"
    /\ printed[serving] < MaxRows
    /\ Puts("row", serving)
    /\ printed' = [printed EXCEPT ![serving] = @ + 1]
    /\ UNCHANGED <<adapter, serving, stdin, exitCode, reported>>

AdapterEnds ==
    /\ adapter = "rows"
    /\ adapter' = "status"
    /\ Puts("end", serving)
    /\ UNCHANGED <<serving, stdin, exitCode, printed, reported>>

AdapterReports ==
    /\ adapter = "status"
    /\ \E status \in Statuses :
          /\ Puts(status, serving)
          /\ reported' = [reported EXCEPT ![serving] = status]
    /\ adapter' = "idle"
    /\ serving' = NoRequest
    /\ UNCHANGED <<stdin, exitCode, printed>>

\* The connection ends (11) or the script's own 360 s pass (14) in a request.
AdapterDrops ==
    /\ adapter \in Busy
    /\ adapter' = "exited"
    /\ exitCode' \in {11, 14}
    /\ UNCHANGED <<serving, stdin, stdout, printed, reported>>

\* Something else is written to standard output while no request is served;
\* bound: only into an empty pipe.
AdapterPrintsNoise ==
    /\ adapter \in {"login", "idle"}
    /\ stdout = <<>>
    /\ Puts("noise", NoRequest)
    /\ UNCHANGED <<adapter, serving, stdin, exitCode, printed, reported>>

\* The process ends by a signal, one of the session's or one from outside.
AdapterKilled ==
    /\ Running
    /\ adapter' = "exited"
    /\ exitCode' = 0
    /\ UNCHANGED <<serving, stdin, stdout, printed, reported>>

AdapterInit ==
    /\ adapter = "none"
    /\ serving = NoRequest
    /\ stdin = <<>>
    /\ stdout = <<>>
    /\ exitCode = 0
    /\ printed = [r \in Request |-> 0]
    /\ reported = [r \in Request |-> "none"]

AdapterTypeOK ==
    /\ adapter \in Phases
    /\ serving \in Request \cup {NoRequest}
    /\ adapter \in Busy => serving \in Request
    /\ stdin \in Seq(Request)
    /\ stdout \in Seq(Tokens)
    /\ exitCode \in ExitCodes
    /\ printed \in [Request -> Nat]
    /\ reported \in [Request -> Statuses \cup {"none"}]
=============================================================================
