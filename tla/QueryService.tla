--------------------------- MODULE QueryService ---------------------------
(***************************************************************************)
(* What a session promises the broker: every query it takes is answered    *)
(* once, by MySQL or by an error, and when it closes it answers everything *)
(* it still holds and takes nothing more.  Queues, timers, the child and   *)
(* its pipes are not visible here.                                         *)
(***************************************************************************)
CONSTANT Request

VARIABLES
    phase,    \* of each request: new, pending or settled
    answer,   \* what a settled request was answered with
    open

serviceVars == <<phase, answer, open>>

ByMySQL == {"resolved", "sql_error", "mysql_connection"}
ByClosing == {"relay_login", "ssh", "timeout", "result_too_large", "runner",
              "mysql_connection", "sql_error"}
Answers == {"none", "local"} \cup ByMySQL \cup ByClosing

ServiceInit ==
    /\ phase = [r \in Request |-> "new"]
    /\ answer = [r \in Request |-> "none"]
    /\ open = TRUE

Settles(r, a) ==
    /\ phase' = [phase EXCEPT ![r] = "settled"]
    /\ answer' = [answer EXCEPT ![r] = a]

Take(r) ==
    /\ open
    /\ phase[r] = "new"
    /\ phase' = [phase EXCEPT ![r] = "pending"]
    /\ UNCHANGED <<answer, open>>

Finish(r) ==
    /\ open
    /\ phase[r] = "pending"
    /\ \E a \in ByMySQL : Settles(r, a)
    /\ UNCHANGED open

\* The caller gives up: before the call or while the query waits its turn.
Withdraw(r) ==
    /\ open
    /\ phase[r] \in {"new", "pending"}
    /\ Settles(r, "local")
    /\ UNCHANGED open

\* The service closes.  Every pending request is answered with the reason,
\* but for one that is answered with the cause; a new one may come too late.
Close ==
    /\ open
    /\ open' = FALSE
    /\ \E reason \in ByClosing, late \in SUBSET Request :
          /\ \A r \in late : phase[r] = "new"
          /\ LET held == late \cup {r \in Request : phase[r] = "pending"}
             IN  /\ phase' = [r \in Request |->
                                IF r \in held THEN "settled" ELSE phase[r]]
                 /\ \E first \in [held -> {reason, "local", "timeout"}] :
                       /\ \A r, s \in held :
                             first[r] # reason /\ first[s] # reason => r = s
                       /\ answer' = [r \in Request |->
                                       IF r \in held THEN first[r] ELSE answer[r]]

ServiceNext == Close \/ \E r \in Request : Take(r) \/ Finish(r) \/ Withdraw(r)

ServiceSpec == ServiceInit /\ [][ServiceNext]_serviceVars
=============================================================================
