--------------------------- MODULE MetadataCache ---------------------------
(***************************************************************************)
(* The class MetadataCache of src/backend/metadata-cache.js: one entry and *)
(* at most one load in flight for each key.  A load is named by the call   *)
(* of getOrLoad that started it, a value by the version of the schema it   *)
(* was read from; 0 stands for no value and for a rejection.               *)
(*                                                                         *)
(* What happens between two awaits is one step.  clear, invalidate and     *)
(* peekLastSuccessful have no caller in src/ and are left out.             *)
(***************************************************************************)
EXTENDS Naturals, FiniteSets

CONSTANTS
    Call,       \* calls of the driver, each made once
    NoCall,
    Key,        \* connection, profile, runner and database: createMetadataCacheKey
    MaxVersion  \* bound: how often the remote schema changes

ASSUME CacheAssumption == NoCall \notin Call /\ MaxVersion \in Nat \ {0}

VARIABLES
    entry,      \* of a key: the value stored last
    fresh,      \* keys whose entry has not reached expiresAt
    inflight,   \* of a key: the load in the inflight map
    load,       \* of a call: how far the load it started is
    result,     \* of a call: what its load read
    waitsFor,   \* of a call: the load whose promise it was given
    at,         \* of a call: "new", "waiting", "answered" (to be resumed), "done"
    value       \* of a call: what its promise was settled with

cacheVars == <<entry, fresh, inflight, load, result, waitsFor, at, value>>

CacheInit ==
    /\ entry = [k \in Key |-> 0]
    /\ fresh = {}
    /\ inflight = [k \in Key |-> NoCall]
    /\ load = [c \in Call |-> "none"]
    /\ result = [c \in Call |-> 0]
    /\ waitsFor = [c \in Call |-> NoCall]
    /\ at = [c \in Call |-> "new"]
    /\ value = [c \in Call |-> 0]

CacheTypeOK ==
    /\ entry \in [Key -> 0..MaxVersion]
    /\ fresh \subseteq {k \in Key : entry[k] # 0}
    /\ inflight \in [Key -> Call \cup {NoCall}]
    /\ load \in [Call -> {"none", "queued", "running", "stored", "failed", "over"}]
    /\ result \in [Call -> 0..MaxVersion]
    /\ waitsFor \in [Call -> Call \cup {NoCall}]
    /\ at \in [Call -> {"new", "waiting", "answered", "done"}]
    /\ value \in [Call -> 0..MaxVersion]

(***************************************************************************)
(* getOrLoad of key k by call c.                                           *)
(***************************************************************************)
Hit(c, k) ==
    /\ at' = [at EXCEPT ![c] = "answered"]
    /\ value' = [value EXCEPT ![c] = entry[k]]
    /\ UNCHANGED <<entry, fresh, inflight, load, result, waitsFor>>

WaitFor(c, l) ==
    /\ at' = [at EXCEPT ![c] = "waiting"]
    /\ waitsFor' = [waitsFor EXCEPT ![c] = l]
    /\ UNCHANGED <<entry, fresh, result, value>>

\* A promise that is settled already resolves or rejects who is given it.
Join(c, k) ==
    LET l == inflight[k]
    IN  /\ UNCHANGED <<inflight, load>>
        /\ \/ load[l] # "over" /\ WaitFor(c, l)
           \/ /\ load[l] = "over"
              /\ at' = [at EXCEPT ![c] = "answered"]
              /\ waitsFor' = [waitsFor EXCEPT ![c] = l]
              /\ value' = [value EXCEPT ![c] = result[l]]
              /\ UNCHANGED <<entry, fresh, result>>

StartLoad(c, k) ==
    /\ WaitFor(c, c)
    /\ load' = [load EXCEPT ![c] = "queued"]
    /\ inflight' = [inflight EXCEPT ![k] = c]

\* Mutant: the load in flight is not looked for.
GetOrLoadAlone(c, k, force) ==
    IF ~force /\ k \in fresh THEN Hit(c, k) ELSE StartLoad(c, k)

\* Mutant: a forced call takes a fresh entry too.
GetOrLoadUnforced(c, k, force) ==
    IF k \in fresh THEN Hit(c, k)
    ELSE IF inflight[k] # NoCall THEN Join(c, k)
    ELSE StartLoad(c, k)

GetOrLoad(c, k, force) ==
    IF ~force /\ k \in fresh THEN Hit(c, k)
    ELSE IF inflight[k] # NoCall THEN Join(c, k)
    ELSE StartLoad(c, k)

\* Promise.resolve().then(loader): the loader runs in a microtask.
LoaderRuns(c) ==
    /\ load[c] = "queued"
    /\ load' = [load EXCEPT ![c] = "running"]
    /\ UNCHANGED <<entry, fresh, inflight, result, waitsFor, at, value>>

\* The loader throws, or what it awaits is rejected.
LoadFails(c) ==
    /\ load[c] \in {"queued", "running"}
    /\ load' = [load EXCEPT ![c] = "failed"]
    /\ UNCHANGED <<entry, fresh, inflight, result, waitsFor, at, value>>

Store(c, k, version) ==
    /\ load[c] = "running"
    /\ load' = [load EXCEPT ![c] = "stored"]
    /\ result' = [result EXCEPT ![c] = version]
    /\ entry' = [entry EXCEPT ![k] = version]
    /\ fresh' = fresh \cup {k}
    /\ UNCHANGED <<inflight, waitsFor, at, value>>

Waiting(l) == {d \in Call : at[d] = "waiting" /\ waitsFor[d] = l}

\* Mutant: the promise of a load that failed is never settled.
SettleOnSuccess(c) ==
    /\ load[c] = "stored"
    /\ load' = [load EXCEPT ![c] = "over"]
    /\ at' = [d \in Call |-> IF d \in Waiting(c) THEN "answered" ELSE at[d]]
    /\ value' = [d \in Call |-> IF d \in Waiting(c) THEN result[c] ELSE value[d]]
    /\ UNCHANGED <<entry, fresh, result, waitsFor>>

\* What settles the promise of load c; everyone who was given it is resumed.
Settle(c) ==
    /\ load[c] \in {"stored", "failed"}
    /\ load' = [load EXCEPT ![c] = "over"]
    /\ at' = [d \in Call |-> IF d \in Waiting(c) THEN "answered" ELSE at[d]]
    /\ value' = [d \in Call |-> IF d \in Waiting(c) THEN result[c] ELSE value[d]]
    /\ UNCHANGED <<entry, fresh, result, waitsFor>>

\* Mutant: only a load that succeeded is taken out of the map.
FinallyOnSuccess(c) ==
    /\ Settle(c)
    /\ inflight' = [k \in Key |->
           IF inflight[k] = c /\ load[c] = "stored" THEN NoCall ELSE inflight[k]]

Finally(c) ==
    /\ Settle(c)
    /\ inflight' = [k \in Key |-> IF inflight[k] = c THEN NoCall ELSE inflight[k]]

\* The clock passes expiresAt.
Expires(k) ==
    /\ k \in fresh
    /\ fresh' = fresh \ {k}
    /\ UNCHANGED <<entry, inflight, load, result, waitsFor, at, value>>
=============================================================================
