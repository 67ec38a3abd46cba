------------------------------- MODULE Driver -------------------------------
(***************************************************************************)
(* The backend driver DbGate calls: connection handles with their inline   *)
(* profile files (src/backend/driver.js, inline-profile-file.js), queries  *)
(* (query-executor.js) and the analysis of the schema through the metadata *)
(* cache (metadata-snapshot.js).  The broker and MySQL are the environment *)
(* of this module: a run is sent once there is a connection, reads the     *)
(* profile file, then the database, then answers, and may fail at any      *)
(* point.                                                                  *)
(*                                                                         *)
(* All of it is one Node process.  A step is what runs between two awaits; *)
(* promise callbacks run before the next event of another process, which   *)
(* is what Quiet says.                                                     *)
(*                                                                         *)
(* A system database, whose snapshot is the constant empty one, and a      *)
(* handle without a database do not reach the cache and are left out.      *)
(***************************************************************************)
EXTENDS MetadataCache, Sequences

CONSTANTS
    Handle,
    NoHandle,
    Inline,     \* handles connected with useInlineProfile
    Stuck,      \* those of them whose profile file cannot be removed
    Kept,       \* of a handle: the structure DbGate has from an earlier process
    KeyOf,      \* of a handle: its cache key
    Mixed,      \* bound: calls that may be queries; the others are analyses
    MaxRows     \* bound: rows a query shows

ASSUME DriverAssumption ==
    /\ Inline \subseteq Handle /\ Stuck \subseteq Inline /\ NoHandle \notin Handle
    /\ Kept \in [Handle -> {0, 1}]   \* 0 for none
    /\ KeyOf \in [Handle -> Key] /\ MaxRows \in Nat

VARIABLES
    schema,     \* the version of the remote schema
    handle,     \* of a handle: "none", "open", "closed", "refused"
    files,      \* handles whose inline profile file exists
    snapshot,   \* of a handle: metadataSnapshot, 0 for undefined
    kind,       \* of a call: which operation of the driver it is
    on,         \* of a call: its handle
    query,      \* of a call: how far its run of the runner client is
    readAs,     \* of a call: the schema its load saw
    told,       \* of a call: what its callbacks or its stream were given
    known,      \* calls whose parser has the columns
    headed,     \* calls whose recordsetStarted or headerWritten is set
    abandoned,  \* streams of readQuery the consumer has destroyed
    aborted,    \* calls whose signal is aborted
    began       \* history: the schema when an analysis was called

shownVars == <<told, known, headed>>
callVars == <<kind, on, query, readAs, shownVars, abandoned, aborted, began>>
vars == <<cacheVars, schema, handle, files, snapshot, callVars>>

Analyses == {"full", "incremental", "single"}
Queries == {"query", "stream", "read"}   \* query also stands for listDatabases

Running == {"sent", "served", "read"}     \* the run has a listener for the abort
Positions == {"none", "asked", "got", "parsing", "parsed", "shown", "ending", "failed", "over"}
                 \cup Running

Init ==
    /\ CacheInit
    /\ schema = 1
    /\ handle = [h \in Handle |-> "none"]
    /\ files = {}
    /\ snapshot = [h \in Handle |-> 0]
    /\ kind = [c \in Call |-> "none"]
    /\ on = [c \in Call |-> NoHandle]
    /\ query = [c \in Call |-> "none"]
    /\ readAs = [c \in Call |-> 0]
    /\ told = [c \in Call |-> <<>>]
    /\ known = {} /\ headed = {}
    /\ abandoned = {} /\ aborted = {}
    /\ began = [c \in Call |-> 0]

\* No promise callback and no 'close' of a stream is due: the event loop may
\* look at I/O.
Quiet ==
    /\ \A c \in Call :
          /\ load[c] \notin {"queued", "stored", "failed"}
          /\ query[c] \in {"none", "asked", "over"} \cup Running
          /\ at[c] # "answered"
    /\ abandoned = aborted

\* Nothing else runs in the process between two callbacks of one turn.
Idle == \A c \in Call : query[c] \notin {"parsing", "shown", "ending"}

(***************************************************************************)
(* connect and close.  createInlineProfileFile removes what it has written *)
(* when it fails; close forgets the cleanup even when it throws.           *)
(***************************************************************************)
Connect(h) ==
    /\ Idle /\ handle[h] = "none"
    /\ handle' = [handle EXCEPT ![h] = "open"]
    /\ files' = files \cup ({h} \cap Inline)
    /\ UNCHANGED <<cacheVars, schema, snapshot, callVars>>

ConnectThrows(h) ==
    /\ Idle /\ handle[h] = "none"
    /\ handle' = [handle EXCEPT ![h] = "refused"]
    /\ UNCHANGED <<cacheVars, schema, files, snapshot, callVars>>

Close(h) ==
    /\ Idle /\ handle[h] = "open"
    /\ handle' = [handle EXCEPT ![h] = "closed"]
    /\ files' = files \ ({h} \ Stuck)
    /\ UNCHANGED <<cacheVars, schema, snapshot, callVars>>

(***************************************************************************)
(* The analyses: load of metadata-snapshot.js and what the driver does     *)
(* before and after it.                                                    *)
(***************************************************************************)
Begin(c, h, k) ==
    /\ Idle /\ at[c] = "new"
    /\ handle[h] \in {"open", "closed"}
    /\ kind' = [kind EXCEPT ![c] = k]
    /\ on' = [on EXCEPT ![c] = h]
    /\ began' = IF k \in Analyses THEN [began EXCEPT ![c] = schema] ELSE began
    /\ UNCHANGED <<schema, handle, files, readAs, shownVars, abandoned, aborted>>

AnalyseFull(c, h) ==
    /\ Begin(c, h, "full")
    /\ GetOrLoad(c, KeyOf[h], TRUE)
    /\ UNCHANGED <<snapshot, query>>

\* DbGate passes the structure it has.
AnalyseIncremental(c, h) ==
    /\ Begin(c, h, "incremental")
    /\ snapshot' = [snapshot EXCEPT ![h] = IF @ = 0 THEN Kept[h] ELSE @]
    /\ IF KeyOf[h] \in fresh
       THEN /\ at' = [at EXCEPT ![c] = "done"]
            /\ UNCHANGED <<entry, fresh, inflight, load, result, waitsFor, value>>
       ELSE GetOrLoad(c, KeyOf[h], FALSE)
    /\ UNCHANGED query

AnalyseSingleObject(c, h) ==
    /\ Begin(c, h, "single")
    /\ GetOrLoad(c, KeyOf[h], FALSE)
    /\ UNCHANGED <<snapshot, query>>

\* The await on load returns or throws.
Resume(c) ==
    /\ Idle /\ at[c] = "answered"
    /\ at' = [at EXCEPT ![c] = "done"]
    /\ snapshot' = IF value[c] # 0 /\ kind[c] \in {"full", "incremental"}
                   THEN [snapshot EXCEPT ![on[c]] = value[c]] ELSE snapshot
    /\ UNCHANGED <<entry, fresh, inflight, load, result, waitsFor, value,
                   schema, handle, files, callVars>>

(***************************************************************************)
(* executePrepared of query-executor.js, for the load of a snapshot and    *)
(* for the three ways to run a user's query: the closed flag is looked at, *)
(* and the run of the runner client begins.                                *)
(***************************************************************************)
QueryAt(c, position) == query' = [query EXCEPT ![c] = position]

LoadQuery(c) ==
    /\ Idle /\ load[c] = "queued"
    /\ IF handle[on[c]] = "open"
       THEN LoaderRuns(c) /\ QueryAt(c, "asked")
       ELSE LoadFails(c) /\ UNCHANGED query
    /\ UNCHANGED <<schema, handle, files, snapshot, kind, on, readAs, shownVars, abandoned, aborted, began>>

CacheKept == UNCHANGED <<entry, fresh, inflight, load, result, waitsFor, value>>

\* The SQL policy may refuse the statement before the handle is looked at.
StartQuery(c, h, k) ==
    /\ Begin(c, h, k)
    /\ at' = [at EXCEPT ![c] = "waiting"]
    /\ \/ handle[h] = "open" /\ QueryAt(c, "asked")
       \/ QueryAt(c, "failed")
    /\ CacheKept
    /\ UNCHANGED snapshot

\* The consumer of readQuery destroys the stream, be it in a callback.
Abandon(c) ==
    /\ kind[c] = "read" /\ at[c] = "waiting" /\ c \notin abandoned
    /\ abandoned' = abandoned \cup {c}
    /\ UNCHANGED <<cacheVars, schema, handle, files, snapshot, kind, on, query, readAs, shownVars, aborted, began>>

\* 'close' of the stream aborts the signal, which ends a run that listens.
StreamCloses(c) ==
    /\ Idle /\ c \in abandoned \ aborted
    /\ aborted' = aborted \cup {c}
    /\ IF query[c] \in Running THEN QueryAt(c, "failed") ELSE UNCHANGED query
    /\ UNCHANGED <<cacheVars, schema, handle, files, snapshot, kind, on, readAs, shownVars, abandoned, began>>

(***************************************************************************)
(* The run of the runner client.  It waits for connect(), which may start  *)
(* a broker, before it listens for the abort and writes the packet; a      *)
(* one-shot run is one that waits for nothing.                             *)
(***************************************************************************)
RunKept == UNCHANGED <<cacheVars, schema, handle, files, snapshot, kind, on,
                       shownVars, abandoned, aborted, began>>

\* Mutant: that the signal is aborted by now is not looked at.
SendsUnchecked(c) ==
    /\ Quiet /\ query[c] = "asked"
    /\ QueryAt(c, "sent")
    /\ RunKept /\ UNCHANGED readAs

Sends(c) ==
    /\ Quiet /\ query[c] = "asked"
    /\ QueryAt(c, IF c \in aborted THEN "failed" ELSE "sent")
    /\ RunKept /\ UNCHANGED readAs

\* The session reads the profile file for each query.
ProfileThere(c) == on[c] \in Inline => on[c] \in files

BrokerReads(c) ==
    /\ Quiet /\ query[c] = "sent"
    /\ QueryAt(c, IF ProfileThere(c) THEN "served" ELSE "failed")
    /\ RunKept /\ UNCHANGED readAs

RemoteReads(c) ==
    /\ query[c] = "served"
    /\ QueryAt(c, "read")
    /\ readAs' = IF kind[c] \in Analyses THEN [readAs EXCEPT ![c] = schema] ELSE readAs
    /\ RunKept

\* The run is resolved, or rejected for any reason: there is no connection,
\* it fails, or its deadline has passed.
RunSettles(c) ==
    /\ Quiet
    /\ \/ query[c] = "read" /\ QueryAt(c, "got")
       \/ query[c] \in {"asked"} \cup Running /\ QueryAt(c, "failed")
    /\ RunKept /\ UNCHANGED readAs

(***************************************************************************)
(* parseMysqlXml, and what the driver does with its callbacks and with its *)
(* result.  The XML is one chunk: the callbacks run in one turn, but each  *)
(* is a step, in which the consumer may destroy the stream.                *)
(***************************************************************************)
\* From one position to the next, at the beginning of a turn if the one before
\* is the end of another; the call has returned when it is over.
Turn(c, from, to) ==
    /\ kind[c] \in Queries
    /\ from \in {"got", "parsed", "failed"} => Idle
    /\ query[c] = from /\ QueryAt(c, to)
    /\ at' = IF to = "over" THEN [at EXCEPT ![c] = "done"] ELSE at
    /\ CacheKept
    /\ UNCHANGED <<schema, handle, files, snapshot, kind, on, readAs, abandoned, aborted, began>>

\* query has no callbacks; a stream that was destroyed drops what is written.
Gives(c, what) ==
    told' = IF kind[c] = "query" \/ c \in abandoned THEN told
            ELSE [told EXCEPT ![c] = Append(@, what)]

ParseBegins(c) ==
    /\ Turn(c, "got", IF c \in aborted THEN "failed" ELSE "parsing")
    /\ UNCHANGED shownVars

\* Mutant: the callback does not note that it was called.
OnColumnsUnmarked(c) ==
    /\ Turn(c, "parsing", "parsing") /\ c \notin known
    /\ known' = known \cup {c}
    /\ Gives(c, "columns")
    /\ UNCHANGED headed

\* The first row has the names; a result without rows has no columns.
OnColumns(c) ==
    /\ Turn(c, "parsing", "parsing") /\ c \notin known
    /\ known' = known \cup {c} /\ headed' = headed \cup {c}
    /\ Gives(c, "columns")

OnRow(c) ==
    /\ Turn(c, "parsing", "parsing") /\ c \in known
    /\ Len(told[c]) <= MaxRows
    /\ Gives(c, "row")
    /\ UNCHANGED <<known, headed>>

ParseEnds(c) == Turn(c, "parsing", "parsed") /\ c \in known /\ UNCHANGED shownVars

\* The XML is malformed or too large, or a callback throws.
ParseFails(c) == Turn(c, "parsing", "failed") /\ UNCHANGED shownVars

Announce(c) ==
    /\ Turn(c, "parsed", "shown")
    /\ IF c \in headed THEN UNCHANGED told ELSE Gives(c, "columns")
    /\ UNCHANGED <<known, headed>>

\* Any result may be truncated: ShownAreTheQuerys of QueryPath says when.
Inform(c) ==
    /\ kind[c] = "stream" /\ Turn(c, "shown", "ending")
    /\ Gives(c, "info") \/ UNCHANGED told
    /\ UNCHANGED <<known, headed>>

\* query returns, and readQuery ends its stream.
End(c) ==
    /\ kind[c] \in {"query", "read"} /\ Turn(c, "shown", "over")
    /\ Gives(c, "end")
    /\ UNCHANGED <<known, headed>>

\* stream reports the error, readQuery destroys its stream, query rejects.
Catch(c) ==
    /\ \/ kind[c] = "stream" /\ Turn(c, "failed", "ending") /\ Gives(c, "error")
       \/ kind[c] \in {"query", "read"} /\ Turn(c, "failed", "over") /\ Gives(c, "destroy")
    /\ UNCHANGED <<known, headed>>

\* The finally of stream.
Done(c) ==
    /\ Turn(c, "ending", "over")
    /\ Gives(c, "done")
    /\ UNCHANGED <<known, headed>>

ParserTurn(c) ==
    ParseBegins(c) \/ OnColumns(c) \/ OnRow(c) \/ ParseEnds(c) \/ ParseFails(c)

DriverTurn(c) == Announce(c) \/ Inform(c) \/ End(c) \/ Catch(c) \/ Done(c)

LoadEnds(c) ==
    /\ Idle /\ kind[c] \in Analyses
    /\ \/ query[c] = "got" /\ Store(c, KeyOf[on[c]], readAs[c])
       \/ query[c] \in {"got", "failed"} /\ load[c] = "running" /\ LoadFails(c)
    /\ QueryAt(c, "over")
    /\ UNCHANGED <<schema, handle, files, snapshot, kind, on, readAs, shownVars, abandoned, aborted, began>>

LoadSettles(c) ==
    /\ Idle /\ Finally(c)
    /\ UNCHANGED <<schema, handle, files, snapshot, callVars>>

CacheExpires(k) ==
    /\ Expires(k)
    /\ UNCHANGED <<schema, handle, files, snapshot, callVars>>

SchemaChanges ==
    /\ schema < MaxVersion
    /\ schema' = schema + 1
    /\ UNCHANGED <<cacheVars, handle, files, snapshot, callVars>>

Microtask(c) ==
    \/ LoadQuery(c) \/ LoadEnds(c) \/ LoadSettles(c) \/ Resume(c)
    \/ ParserTurn(c) \/ DriverTurn(c) \/ StreamCloses(c)

Calls(c, h) ==
    \/ AnalyseFull(c, h) \/ AnalyseIncremental(c, h) \/ AnalyseSingleObject(c, h)
    \/ c \in Mixed /\ \E k \in Queries : StartQuery(c, h, k)

Next ==
    \/ \E h \in Handle : Connect(h) \/ ConnectThrows(h) \/ Close(h)
    \/ \E c \in Call, h \in Handle : Calls(c, h)
    \/ \E c \in Call : Microtask(c) \/ Abandon(c)
    \/ \E c \in Call : Sends(c) \/ BrokerReads(c) \/ RemoteReads(c) \/ RunSettles(c)
    \/ \E k \in Key : CacheExpires(k)
    \/ SchemaChanges

Spec == Init /\ [][Next]_vars

\* Promise callbacks run, and every run of the runner client is settled, by
\* the deadline at the latest: EveryRunSettles of BrokerConnection and of
\* OneShotRunner.
Fairness == \A c \in Call :
    /\ WF_vars(Microtask(c))
    /\ WF_vars(RunSettles(c))

FairSpec == Spec /\ Fairness

TypeOK ==
    /\ CacheTypeOK
    /\ schema \in 1..MaxVersion
    /\ snapshot \in [Handle -> 0..MaxVersion]
    /\ kind \in [Call -> Analyses \cup Queries \cup {"none"}]
    /\ on \in [Call -> Handle \cup {NoHandle}]
    /\ query \in [Call -> Positions]
    /\ readAs \in [Call -> 0..MaxVersion]
    /\ began \in [Call -> 0..MaxVersion]

\* getOrLoad: two loads of one key never overlap, whoever asks for them.
OneLoad == \A c, d \in Call :
    load[c] \in {"queued", "running", "stored", "failed"}
        /\ load[d] \in {"queued", "running", "stored", "failed"}
        /\ KeyOf[on[c]] = KeyOf[on[d]] => c = d

\* getOrLoad: a slow load never overwrites the entry with an older snapshot,
\* and a failed one never removes it.
EntryNeverBack == [][\A k \in Key : entry'[k] >= entry[k]]_vars

\* analyseFull, analyseIncremental: calls on one handle that overlap never
\* bring it back to an older snapshot than it had.
HandleNeverBack == [][\A h \in Handle : snapshot'[h] >= snapshot[h]]_vars

\* analyseFull forces: what it returns was read by a load, and no earlier
\* than that load was asked for; it never is the entry of the cache.
RefreshIsRead == \A c \in Call :
    kind[c] = "full" /\ at[c] = "done" /\ value[c] # 0 =>
        /\ waitsFor[c] # NoCall
        /\ value[c] >= began[waitsFor[c]]

\* getOrLoad: a call is never rejected for a load that had ended before it was
\* made; it is given the entry, or waits for a load that still runs.
FailureIsNotKept ==
    [][\A c \in Call : at[c] = "new" /\ at'[c] = "answered" => value'[c] # 0]_vars

\* readQuery: a query whose stream was closed is not running at the broker,
\* also when it was closed while the client still waited for its connection,
\* before it listened for the abort.
AbandonedIsNotRunning == \A c \in aborted : query[c] \notin Running

\* stream and readQuery: columns come once and before the rows, a result that
\* is shown has them, and the end comes once and last, also when the result is
\* found malformed half-way, a run fails before it has columns or a callback
\* throws.
StreamProtocol == \A c \in Call :
    LET given == told[c]
        Has(what) == \E i \in DOMAIN given : given[i] = what
        Ends == {i \in DOMAIN given : given[i] \in {"done", "end", "destroy"}}
    IN  /\ \A i \in DOMAIN given :
              /\ given[i] = "columns" => i = 1
              /\ given[i] = "row" => given[1] = "columns"
        /\ IF at[c] = "done" /\ kind[c] \in {"stream", "read"} /\ c \notin abandoned
           THEN /\ Ends = {Len(given)}
                /\ Has("columns") \/ Has("error") \/ Has("destroy")
           ELSE Ends = {}

\* Every call of DbGate returns, whatever fails and whoever closes.
EveryCallReturns == \A c \in Call : at[c] \in {"waiting", "answered"} ~> at[c] = "done"
=============================================================================
