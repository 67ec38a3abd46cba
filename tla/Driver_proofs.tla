--------------------------- MODULE Driver_proofs ---------------------------
(***************************************************************************)
(* The snapshots of Driver, proved for any number of handles, calls and    *)
(* changes of the schema.  What keeps them in order is that getOrLoad has  *)
(* one load of a key in flight, that nobody is answered with less than the *)
(* entry, and that no load of a key ends while somebody who was answered   *)
(* by the one before has still to assign its snapshot.                     *)
(*                                                                         *)
(* Then its streams: what a consumer is told follows from the position of  *)
(* the call and the flag that the driver keeps between two callbacks, and  *)
(* an aborted call has left the positions in which the run would listen.   *)
(***************************************************************************)
EXTENDS Driver, TLAPS

USE DEF Analyses, Queries, Running, Positions, QueryAt

Active(c) == load[c] \in {"queued", "running", "stored", "failed"}

\* Who loads, and who waits for it.
LoadsInv == \A c \in Call :
    /\ Active(c) => /\ kind[c] \in Analyses /\ at[c] = "waiting" /\ waitsFor[c] = c
                    /\ inflight[KeyOf[on[c]]] = c
    /\ at[c] = "new" => load[c] = "none" /\ query[c] = "none" /\ kind[c] = "none"
    /\ at[c] # "new" => on[c] \in Handle
    /\ at[c] = "waiting" /\ kind[c] \in Analyses =>
          /\ waitsFor[c] \in Call /\ Active(waitsFor[c])
          /\ KeyOf[on[waitsFor[c]]] = KeyOf[on[c]]
    /\ kind[c] \in Analyses /\ query[c] \in {"asked", "got", "failed"} \cup Running =>
          load[c] = "running"
    /\ waitsFor[c] \in Call => at[waitsFor[c]] # "new"

InflightInv == \A k \in Key : inflight[k] # NoCall =>
    Active(inflight[k]) /\ KeyOf[on[inflight[k]]] = k

\* What a load has read is no older than the entry it will replace, and was
\* read after the call that started it.
ReadInv ==
    /\ \A k \in Key : entry[k] <= schema
    /\ \A c \in Call :
          /\ kind[c] \in Analyses /\ query[c] \in {"read", "got"} =>
                /\ 1 <= readAs[c] /\ readAs[c] <= schema
                /\ entry[KeyOf[on[c]]] <= readAs[c] /\ began[c] <= readAs[c]
          /\ load[c] = "stored" =>
                result[c] = entry[KeyOf[on[c]]] /\ began[c] <= result[c]
          /\ load[c] \in {"none", "queued", "running", "failed"} => result[c] = 0
          /\ began[c] <= schema

\* What a handle has is no newer than the entry, unless DbGate brought it; and
\* what somebody is about to assign is the entry, which no load is near to
\* replacing.
AnswerInv ==
    /\ \A h \in Handle : snapshot[h] <= 1 \/ snapshot[h] <= entry[KeyOf[h]]
    /\ \A d \in Call : at[d] = "answered" /\ kind[d] \in {"full", "incremental"} /\ value[d] # 0 =>
          /\ value[d] = entry[KeyOf[on[d]]]
          /\ \A c \in Call : load[c] = "running" /\ KeyOf[on[c]] = KeyOf[on[d]] =>
                query[c] \notin {"served", "read", "got"}

\* What a refresh was answered with, or will be.
RefreshInv == \A d \in Call :
    /\ kind[d] = "full" => waitsFor[d] \in Call
    /\ kind[d] = "full" /\ at[d] \in {"answered", "done"} /\ value[d] # 0 =>
          began[waitsFor[d]] <= value[d]

DriverInv == TypeOK /\ LoadsInv /\ InflightInv /\ ReadInv /\ AnswerInv /\ RefreshInv

coreVars == <<cacheVars, schema, snapshot, kind, on, query, readAs, began>>

LEMMA InitInv == Init => DriverInv
BY CacheAssumption, DriverAssumption
   DEF Init, CacheInit, DriverInv, TypeOK, CacheTypeOK, LoadsInv, InflightInv, ReadInv, AnswerInv,
       RefreshInv, Active

LEMMA StutterInv == DriverInv /\ UNCHANGED coreVars => DriverInv'
BY DEF coreVars, cacheVars, DriverInv, TypeOK, CacheTypeOK, LoadsInv, InflightInv, ReadInv, AnswerInv,
       RefreshInv, Active

\* Beginning a call changes nothing about the others.
LEMMA BeginInv ==
    ASSUME DriverInv, NEW c \in Call, NEW h \in Handle, NEW k \in Analyses \cup Queries,
           Begin(c, h, k)
    PROVE  /\ at[c] = "new" /\ load[c] = "none" /\ query[c] = "none" /\ kind[c] = "none"
           /\ kind' = [kind EXCEPT ![c] = k] /\ on' = [on EXCEPT ![c] = h]
           /\ began' \in [Call -> 0..MaxVersion]
           /\ \A d \in Call : began'[d] <= schema /\ (d # c => began'[d] = began[d])
           /\ schema' = schema
           /\ \A d \in Call : d # c /\ waitsFor[d] \in Call => waitsFor[d] # c
BY DriverAssumption DEF Begin, DriverInv, TypeOK, CacheTypeOK, LoadsInv, ReadInv

LEMMA HitInv ==
    ASSUME DriverInv, NEW c \in Call, NEW h \in Handle, Begin(c, h, "single"), Hit(c, KeyOf[h]),
           UNCHANGED <<snapshot, query, readAs>>
    PROVE  DriverInv'
<1>1. TypeOK'
  BY BeginInv, DriverAssumption DEF Begin, Hit, DriverInv, TypeOK, CacheTypeOK
<1>2. LoadsInv'
  BY BeginInv, DriverAssumption, CacheAssumption DEF Hit, DriverInv, LoadsInv, Active, TypeOK, CacheTypeOK
<1>5. InflightInv'
  <2> SUFFICES ASSUME NEW j \in Key, inflight'[j] # NoCall
               PROVE  Active(inflight[j])' /\ KeyOf[on'[inflight'[j]]] = j
    BY DEF InflightInv, Active
  <2>1. inflight' = inflight /\ load' = load
    BY DEF Hit
  <2>2. Active(inflight[j]) /\ KeyOf[on[inflight[j]]] = j
    BY <2>1 DEF DriverInv, InflightInv
  <2>3. inflight[j] \in Call /\ inflight[j] # c
    BY <2>1, <2>2, BeginInv DEF DriverInv, TypeOK, CacheTypeOK, Active
  <2>4. on'[inflight[j]] = on[inflight[j]]
    BY <2>3, BeginInv DEF DriverInv, TypeOK
  <2> QED BY <2>1, <2>2, <2>4 DEF Active
<1>3. ReadInv'
  BY BeginInv, DriverAssumption DEF Hit, DriverInv, LoadsInv, ReadInv, TypeOK, CacheTypeOK
<1>4. /\ kind'[c] = "single" /\ query' = query
      /\ \A d \in Call : d # c => /\ kind'[d] = kind[d] /\ on'[d] = on[d] /\ at'[d] = at[d]
                                 /\ value'[d] = value[d]
      /\ \A d \in Call : load[d] = "running" => d # c
      /\ \A d \in Call : d # c /\ waitsFor[d] \in Call => began'[waitsFor[d]] = began[waitsFor[d]]
      /\ UNCHANGED <<entry, load, waitsFor, snapshot>>
  BY BeginInv DEF Hit, DriverInv, TypeOK, CacheTypeOK
<1>6. AnswerInv'
  BY <1>4 DEF DriverInv, AnswerInv
<1>7. RefreshInv'
  BY <1>4 DEF DriverInv, RefreshInv
<1> QED BY <1>1, <1>2, <1>3, <1>5, <1>6, <1>7 DEF DriverInv

LEMMA JoinInv ==
    ASSUME DriverInv, NEW c \in Call, NEW h \in Handle, NEW k \in Analyses, Begin(c, h, k),
           inflight[KeyOf[h]] # NoCall, Join(c, KeyOf[h]),
           snapshot' \in [Handle -> 0..MaxVersion],
           \A g \in Handle : snapshot'[g] <= 1 \/ snapshot'[g] = snapshot[g],
           UNCHANGED <<query, readAs>>
    PROVE  DriverInv'
<1>2. inflight[KeyOf[h]] \in Call /\ Active(inflight[KeyOf[h]]) /\ KeyOf[on[inflight[KeyOf[h]]]] = KeyOf[h]
  BY DriverAssumption DEF DriverInv, InflightInv, TypeOK, CacheTypeOK
<1>0. WaitFor(c, inflight[KeyOf[h]]) /\ UNCHANGED <<inflight, load>>
  BY <1>2 DEF Join, Active
<1>1. TypeOK'
  BY <1>0, <1>2, BeginInv, DriverAssumption DEF Begin, WaitFor, DriverInv, TypeOK, CacheTypeOK
<1>3. LoadsInv'
  <2> DEFINE l == inflight[KeyOf[h]]
  <2>1. l # c /\ at[l] # "new"
    BY BeginInv, <1>2 DEF Active, DriverInv, LoadsInv
  <2>2. /\ at' = [at EXCEPT ![c] = "waiting"] /\ waitsFor' = [waitsFor EXCEPT ![c] = l]
        /\ UNCHANGED <<inflight, load>>
    BY <1>0 DEF WaitFor
  <2>3. ASSUME NEW d \in Call, d # c
        PROVE  /\ kind'[d] = kind[d] /\ on'[d] = on[d] /\ at'[d] = at[d]
               /\ waitsFor'[d] = waitsFor[d]
               /\ waitsFor[d] \in Call => waitsFor[d] # c
    BY BeginInv, <2>2, <2>3 DEF DriverInv, TypeOK, CacheTypeOK
  <2>4. ASSUME NEW d \in Call, d # c PROVE LoadsInv!(d)'
    BY <2>2, <2>3, <2>4, UNCHANGED query DEF DriverInv, LoadsInv, Active
  <2>5. LoadsInv!(c)'
    BY BeginInv, <1>2, <2>1, <2>2, <2>3, DriverAssumption, UNCHANGED query
       DEF DriverInv, TypeOK, CacheTypeOK, Active
  <2> QED BY <2>4, <2>5 DEF LoadsInv
<1>6. InflightInv'
  <2> SUFFICES ASSUME NEW j \in Key, inflight'[j] # NoCall
               PROVE  Active(inflight[j])' /\ KeyOf[on'[inflight'[j]]] = j
    BY DEF InflightInv, Active
  <2>1. inflight' = inflight /\ load' = load
    BY <1>0
  <2>2. Active(inflight[j]) /\ KeyOf[on[inflight[j]]] = j
    BY <2>1 DEF DriverInv, InflightInv
  <2>3. inflight[j] \in Call /\ inflight[j] # c
    BY <2>1, <2>2, BeginInv DEF DriverInv, TypeOK, CacheTypeOK, Active
  <2>4. on'[inflight[j]] = on[inflight[j]]
    BY <2>3, BeginInv DEF DriverInv, TypeOK
  <2> QED BY <2>1, <2>2, <2>4 DEF Active
<1>4. ReadInv'
  BY <1>0, BeginInv, DriverAssumption DEF WaitFor, DriverInv, LoadsInv, ReadInv, TypeOK, CacheTypeOK
<1>5. /\ at'[c] = "waiting" /\ waitsFor'[c] \in Call /\ UNCHANGED <<entry, load, query, value>>
      /\ \A d \in Call : d # c => /\ kind'[d] = kind[d] /\ on'[d] = on[d] /\ at'[d] = at[d]
                                 /\ waitsFor'[d] = waitsFor[d]
      /\ \A d \in Call : load[d] = "running" => d # c
      /\ \A d \in Call : d # c /\ waitsFor[d] \in Call => began'[waitsFor[d]] = began[waitsFor[d]]
  BY <1>0, BeginInv, <1>2 DEF WaitFor, DriverInv, TypeOK, CacheTypeOK
<1>7. AnswerInv'
  BY <1>5 DEF DriverInv, AnswerInv
<1>8. RefreshInv'
  BY <1>5 DEF DriverInv, RefreshInv
<1> QED BY <1>1, <1>3, <1>4, <1>6, <1>7, <1>8 DEF DriverInv

LEMMA StartLoadInv ==
    ASSUME DriverInv, NEW c \in Call, NEW h \in Handle, NEW k \in Analyses, Begin(c, h, k),
           inflight[KeyOf[h]] = NoCall, StartLoad(c, KeyOf[h]),
           snapshot' \in [Handle -> 0..MaxVersion],
           \A g \in Handle : snapshot'[g] <= 1 \/ snapshot'[g] = snapshot[g],
           UNCHANGED <<query, readAs>>
    PROVE  DriverInv'
<1>1. TypeOK'
  BY BeginInv, DriverAssumption DEF Begin, StartLoad, WaitFor, DriverInv, TypeOK, CacheTypeOK
<1>2. LoadsInv'
  BY BeginInv, DriverAssumption, CacheAssumption DEF StartLoad, WaitFor, DriverInv, LoadsInv, InflightInv, Active, TypeOK, CacheTypeOK
<1>3. InflightInv'
  <2> SUFFICES ASSUME NEW j \in Key, inflight'[j] # NoCall
               PROVE  Active(inflight[j])' /\ KeyOf[on'[inflight'[j]]] = j
    BY DEF InflightInv, Active
  <2>1. /\ inflight' = [inflight EXCEPT ![KeyOf[h]] = c] /\ load' = [load EXCEPT ![c] = "queued"]
        /\ on' = [on EXCEPT ![c] = h] /\ KeyOf[h] \in Key
    BY BeginInv, DriverAssumption DEF StartLoad
  <2>2. CASE j = KeyOf[h]
    BY <2>1, <2>2 DEF DriverInv, TypeOK, CacheTypeOK, Active
  <2>3. CASE j # KeyOf[h]
    <3>1. inflight'[j] = inflight[j]
      BY <2>1, <2>3 DEF DriverInv, TypeOK, CacheTypeOK
    <3>2. Active(inflight[j]) /\ KeyOf[on[inflight[j]]] = j
      BY <3>1 DEF DriverInv, InflightInv
    <3>3. inflight[j] \in Call /\ inflight[j] # c
      BY <3>1, <3>2, BeginInv DEF DriverInv, TypeOK, CacheTypeOK, Active
    <3>4. on'[inflight[j]] = on[inflight[j]] /\ load'[inflight[j]] = load[inflight[j]]
      BY <2>1, <3>3 DEF DriverInv, TypeOK, CacheTypeOK
    <3> QED BY <3>1, <3>2, <3>4 DEF Active
  <2> QED BY <2>2, <2>3
<1>4. ReadInv'
  BY BeginInv, DriverAssumption DEF StartLoad, WaitFor, DriverInv, LoadsInv, ReadInv, TypeOK, CacheTypeOK
<1>5. /\ at'[c] = "waiting" /\ waitsFor'[c] \in Call /\ load'[c] = "queued"
      /\ UNCHANGED <<entry, query, value>>
      /\ \A d \in Call : d # c => /\ kind'[d] = kind[d] /\ on'[d] = on[d] /\ at'[d] = at[d]
                                 /\ waitsFor'[d] = waitsFor[d] /\ load'[d] = load[d]
      /\ \A d \in Call : d # c /\ waitsFor[d] \in Call => began'[waitsFor[d]] = began[waitsFor[d]]
  BY BeginInv DEF StartLoad, WaitFor, DriverInv, TypeOK, CacheTypeOK
<1>6. AnswerInv'
  BY <1>5 DEF DriverInv, AnswerInv
<1>7. RefreshInv'
  BY <1>5 DEF DriverInv, RefreshInv
<1> QED BY <1>1, <1>2, <1>3, <1>4, <1>6, <1>7 DEF DriverInv

LEMMA FullInv == ASSUME DriverInv, NEW c \in Call, NEW h \in Handle, AnalyseFull(c, h)
                 PROVE  DriverInv'
<1>1. /\ Begin(c, h, "full") /\ GetOrLoad(c, KeyOf[h], TRUE) /\ UNCHANGED <<snapshot, query, readAs>>
      /\ snapshot \in [Handle -> 0..MaxVersion]
  BY DEF AnalyseFull, Begin, DriverInv, TypeOK
<1>2. CASE inflight[KeyOf[h]] # NoCall
  BY <1>1, <1>2, JoinInv DEF GetOrLoad
<1>3. CASE inflight[KeyOf[h]] = NoCall
  BY <1>1, <1>3, StartLoadInv DEF GetOrLoad
<1> QED BY <1>2, <1>3

LEMMA SingleInv == ASSUME DriverInv, NEW c \in Call, NEW h \in Handle, AnalyseSingleObject(c, h)
                   PROVE  DriverInv'
<1>1. /\ Begin(c, h, "single") /\ GetOrLoad(c, KeyOf[h], FALSE) /\ UNCHANGED <<snapshot, query, readAs>>
      /\ snapshot \in [Handle -> 0..MaxVersion]
  BY DEF AnalyseSingleObject, Begin, DriverInv, TypeOK
<1>2. CASE KeyOf[h] \in fresh
  BY <1>1, <1>2, HitInv DEF GetOrLoad
<1>3. CASE KeyOf[h] \notin fresh /\ inflight[KeyOf[h]] # NoCall
  BY <1>1, <1>3, JoinInv DEF GetOrLoad
<1>4. CASE KeyOf[h] \notin fresh /\ inflight[KeyOf[h]] = NoCall
  BY <1>1, <1>4, StartLoadInv DEF GetOrLoad
<1> QED BY <1>2, <1>3, <1>4

\* A call that neither takes nor starts a load: a query, or an incremental
\* analysis that finds the cache fresh.
LEMMA PlainInv ==
    ASSUME DriverInv, NEW c \in Call, NEW h \in Handle, NEW k \in {"incremental"} \cup Queries,
           Begin(c, h, k), NEW a \in {"waiting", "done"}, at' = [at EXCEPT ![c] = a],
           k = "incremental" => a = "done" /\ query' = query,
           NEW q \in {"none", "asked", "failed"}, query' = [query EXCEPT ![c] = q], CacheKept,
           snapshot' \in [Handle -> 0..MaxVersion],
           \A g \in Handle : snapshot'[g] <= 1 \/ snapshot'[g] = snapshot[g],
           readAs' = readAs
    PROVE  DriverInv'
<1>1. TypeOK'
  BY BeginInv, DriverAssumption DEF Begin, CacheKept, DriverInv, TypeOK, CacheTypeOK
<1>2. ASSUME NEW d \in Call, d # c
      PROVE  /\ kind'[d] = kind[d] /\ on'[d] = on[d] /\ at'[d] = at[d] /\ query'[d] = query[d]
             /\ waitsFor[d] \in Call => waitsFor[d] # c
  BY <1>2, BeginInv DEF DriverInv, TypeOK, CacheTypeOK
<1>3. LoadsInv'
  <2>1. ASSUME NEW d \in Call, d # c PROVE LoadsInv!(d)'
    BY <1>2, <2>1 DEF DriverInv, LoadsInv, Active, CacheKept
  <2>2. LoadsInv!(c)'
    BY BeginInv, <1>2, DriverAssumption DEF DriverInv, TypeOK, CacheTypeOK, LoadsInv, Active, CacheKept
  <2> QED BY <2>1, <2>2 DEF LoadsInv
<1>4. InflightInv'
  <2> SUFFICES ASSUME NEW j \in Key, inflight'[j] # NoCall
               PROVE  Active(inflight[j])' /\ KeyOf[on'[inflight'[j]]] = j
    BY DEF InflightInv, Active
  <2>1. inflight' = inflight /\ load' = load
    BY DEF CacheKept
  <2>2. Active(inflight[j]) /\ KeyOf[on[inflight[j]]] = j
    BY <2>1 DEF DriverInv, InflightInv
  <2>3. inflight[j] \in Call /\ inflight[j] # c
    BY <2>1, <2>2, BeginInv DEF DriverInv, TypeOK, CacheTypeOK, Active
  <2>4. on'[inflight[j]] = on[inflight[j]]
    BY <2>3, <1>2
  <2> QED BY <2>1, <2>2, <2>4 DEF Active
<1>5. ReadInv'
  <2>1. ASSUME NEW d \in Call, d # c PROVE ReadInv!2!(d)'
    BY <1>2, <2>1, BeginInv DEF DriverInv, ReadInv, CacheKept
  <2>2. ReadInv!2!(c)'
    BY BeginInv DEF DriverInv, TypeOK, CacheTypeOK, ReadInv, CacheKept
  <2> QED BY <2>1, <2>2, BeginInv DEF ReadInv, DriverInv, CacheKept
<1>6. AnswerInv'
  <2>1. \A g \in Handle : snapshot'[g] <= 1 \/ snapshot'[g] <= entry'[KeyOf[g]]
    BY DEF DriverInv, AnswerInv, CacheKept
  <2>2. ASSUME NEW d \in Call, (AnswerInv!2!(d)!1)'
        PROVE  (AnswerInv!2!(d)!2)'
    <3>1. d # c
      BY <2>2 DEF DriverInv, TypeOK, CacheTypeOK
    <3>2. AnswerInv!2!(d)!2
      BY <1>2, <2>2, <3>1 DEF DriverInv, AnswerInv, CacheKept
    <3>3. \A e \in Call : load'[e] = "running" => e # c
      BY BeginInv DEF CacheKept
    <3> QED BY <1>2, <3>1, <3>2, <3>3 DEF CacheKept
  <2> QED BY <2>1, <2>2 DEF AnswerInv
<1>7. RefreshInv'
  <2> SUFFICES ASSUME NEW d \in Call, kind'[d] = "full"
               PROVE  RefreshInv!(d)'
    BY DEF RefreshInv
  <2>1. d # c
    BY BeginInv DEF DriverInv, TypeOK
  <2>2. kind[d] = "full" /\ waitsFor[d] \in Call /\ waitsFor[d] # c
    BY <1>2, <2>1 DEF DriverInv, RefreshInv
  <2>3. began'[waitsFor[d]] = began[waitsFor[d]]
    BY <2>2, BeginInv
  <2> QED BY <1>2, <2>1, <2>2, <2>3 DEF DriverInv, RefreshInv, CacheKept
<1> QED BY <1>1, <1>3, <1>4, <1>5, <1>6, <1>7 DEF DriverInv

LEMMA StartQueryInv == ASSUME DriverInv, NEW c \in Call, NEW h \in Handle, NEW k \in Queries, StartQuery(c, h, k)
                       PROVE  DriverInv'
<1>1. /\ Begin(c, h, k) /\ CacheKept /\ UNCHANGED <<snapshot, readAs>>
      /\ snapshot \in [Handle -> 0..MaxVersion]
  BY DEF StartQuery, Begin, DriverInv, TypeOK
<1>2. at' = [at EXCEPT ![c] = "waiting"]
  BY DEF StartQuery
<1>3. CASE query' = [query EXCEPT ![c] = "asked"]
  BY <1>1, <1>2, <1>3, PlainInv
<1>4. CASE query' = [query EXCEPT ![c] = "failed"]
  BY <1>1, <1>2, <1>4, PlainInv
<1> QED BY <1>3, <1>4 DEF StartQuery

LEMMA IncrementalInv ==
    ASSUME DriverInv, NEW c \in Call, NEW h \in Handle, AnalyseIncremental(c, h)
    PROVE  DriverInv'
<1>1. /\ Begin(c, h, "incremental") /\ UNCHANGED <<query, readAs>>
      /\ snapshot' \in [Handle -> 0..MaxVersion]
      /\ \A g \in Handle : snapshot'[g] <= 1 \/ snapshot'[g] = snapshot[g]
  <2>1. snapshot' = [snapshot EXCEPT ![h] = IF snapshot[h] = 0 THEN Kept[h] ELSE snapshot[h]]
    BY DEF AnalyseIncremental
  <2>2. Kept[h] \in {0, 1} /\ Kept[h] \in 0..MaxVersion
    BY CacheAssumption, DriverAssumption
  <2>3. snapshot \in [Handle -> 0..MaxVersion]
    BY DEF DriverInv, TypeOK
  <2>4. \A g \in Handle : snapshot'[g] = IF g = h /\ snapshot[h] = 0 THEN Kept[h] ELSE snapshot[g]
    BY <2>1, <2>3
  <2>5. Begin(c, h, "incremental") /\ UNCHANGED <<query, readAs>>
    BY DEF AnalyseIncremental, Begin
  <2> QED BY <2>1, <2>2, <2>3, <2>4, <2>5
<1>2. CASE KeyOf[h] \in fresh
  <2>1. query' = [query EXCEPT ![c] = "none"]
    BY <1>1, BeginInv DEF DriverInv, TypeOK
  <2>2. at' = [at EXCEPT ![c] = "done"] /\ CacheKept
    BY <1>2 DEF AnalyseIncremental, CacheKept
  <2> QED BY <1>1, <2>1, <2>2, PlainInv
<1>3. CASE KeyOf[h] \notin fresh /\ inflight[KeyOf[h]] # NoCall
  BY <1>1, <1>3, JoinInv DEF AnalyseIncremental, GetOrLoad
<1>4. CASE KeyOf[h] \notin fresh /\ inflight[KeyOf[h]] = NoCall
  BY <1>1, <1>4, StartLoadInv DEF AnalyseIncremental, GetOrLoad
<1> QED BY <1>2, <1>3, <1>4

\* A step of the run of the runner client that call c waits for.
LEMMA RunInv ==
    ASSUME DriverInv, NEW c \in Call, NEW q \in {"got", "failed"} \cup Running,
           query[c] \in {"asked"} \cup Running, query' = [query EXCEPT ![c] = q],
           UNCHANGED <<cacheVars, schema, snapshot, kind, on, began>>,
           readAs' \in [Call -> 0..MaxVersion],
           \A d \in Call : d # c => readAs'[d] = readAs[d],
           q = "served" => Quiet,
           q = "read" => query[c] = "served" /\ (kind[c] \in Analyses => readAs'[c] = schema),
           q = "got" => query[c] = "read" /\ readAs'[c] = readAs[c]
    PROVE  DriverInv'
<1>1. TypeOK'
  BY DEF cacheVars, DriverInv, TypeOK, CacheTypeOK
<1>2. \A d \in Call : query'[d] = IF d = c THEN q ELSE query[d]
  BY DEF DriverInv, TypeOK
<1>3. LoadsInv'
  <2>1. ASSUME NEW d \in Call PROVE LoadsInv!(d)'
    BY <1>2 DEF cacheVars, DriverInv, LoadsInv, Active
  <2> QED BY <2>1 DEF LoadsInv
<1>4. InflightInv'
  BY DEF cacheVars, DriverInv, InflightInv, Active
<1>5. ReadInv'
  <2>1. ASSUME NEW d \in Call, d # c PROVE ReadInv!2!(d)'
    BY <1>2, <2>1 DEF cacheVars, DriverInv, ReadInv
  <2>2. ASSUME kind[c] \in Analyses
        PROVE  1 <= schema /\ on[c] \in Handle /\ entry[KeyOf[on[c]]] <= schema /\ began[c] <= schema
    BY <2>2, DriverAssumption DEF DriverInv, TypeOK, LoadsInv, ReadInv
  <2>3. ReadInv!2!(c)'
    BY <1>2, <2>2 DEF cacheVars, DriverInv, TypeOK, CacheTypeOK, ReadInv
  <2> QED BY <2>1, <2>3 DEF cacheVars, ReadInv, DriverInv
<1>6. AnswerInv'
  <2>1. ASSUME NEW d \in Call, at[d] = "answered", NEW e \in Call,
               query[e] \notin {"served", "read", "got"}
        PROVE  query'[e] \notin {"served", "read", "got"}
    BY <1>2, <2>1 DEF Quiet
  <2> QED BY <2>1 DEF cacheVars, DriverInv, AnswerInv
<1>7. RefreshInv'
  BY DEF cacheVars, DriverInv, RefreshInv
<1> QED BY <1>1, <1>3, <1>4, <1>5, <1>6, <1>7 DEF DriverInv

LEMMA SendsInv == ASSUME DriverInv, NEW c \in Call, Sends(c) PROVE DriverInv'
<1>1. /\ query[c] = "asked" /\ UNCHANGED <<cacheVars, schema, snapshot, kind, on, began, readAs>>
      /\ readAs \in [Call -> 0..MaxVersion]
      /\ \/ query' = [query EXCEPT ![c] = "sent"] \/ query' = [query EXCEPT ![c] = "failed"]
  BY DEF Sends, RunKept, DriverInv, TypeOK
<1> QED BY <1>1, RunInv

LEMMA BrokerReadsInv == ASSUME DriverInv, NEW c \in Call, BrokerReads(c) PROVE DriverInv'
<1>1. /\ Quiet /\ query[c] = "sent" /\ UNCHANGED <<cacheVars, schema, snapshot, kind, on, began, readAs>>
      /\ readAs \in [Call -> 0..MaxVersion]
      /\ \/ query' = [query EXCEPT ![c] = "served"] \/ query' = [query EXCEPT ![c] = "failed"]
  BY DEF BrokerReads, RunKept, DriverInv, TypeOK
<1> QED BY <1>1, RunInv

LEMMA RemoteReadsInv == ASSUME DriverInv, NEW c \in Call, RemoteReads(c) PROVE DriverInv'
<1>1. /\ query[c] = "served" /\ query' = [query EXCEPT ![c] = "read"]
      /\ UNCHANGED <<cacheVars, schema, snapshot, kind, on, began>>
  BY DEF RemoteReads, RunKept
<1>2. /\ readAs' \in [Call -> 0..MaxVersion] /\ \A d \in Call : d # c => readAs'[d] = readAs[d]
      /\ kind[c] \in Analyses => readAs'[c] = schema
  BY CacheAssumption DEF RemoteReads, DriverInv, TypeOK
<1> QED BY <1>1, <1>2, RunInv

LEMMA RunSettlesInv == ASSUME DriverInv, NEW c \in Call, RunSettles(c) PROVE DriverInv'
<1>1. /\ UNCHANGED <<cacheVars, schema, snapshot, kind, on, began, readAs>>
      /\ readAs \in [Call -> 0..MaxVersion]
  BY DEF RunSettles, RunKept, DriverInv, TypeOK
<1>2. ASSUME NEW q \in {"got", "failed"}, query[c] \in {"asked"} \cup Running,
             query' = [query EXCEPT ![c] = q], q = "got" => query[c] = "read"
      PROVE  DriverInv'
  BY <1>1, <1>2, RunInv
<1>3. query[c] = "read" => query[c] \in {"asked"} \cup Running
  OBVIOUS
<1> QED BY <1>2, <1>3 DEF RunSettles

LEMMA StreamClosesInv == ASSUME DriverInv, NEW c \in Call, StreamCloses(c) PROVE DriverInv'
<1>1. /\ UNCHANGED <<cacheVars, schema, snapshot, kind, on, began, readAs>>
      /\ readAs \in [Call -> 0..MaxVersion]
  BY DEF StreamCloses, DriverInv, TypeOK
<1>2. CASE query[c] \in Running
  BY <1>1, <1>2, RunInv DEF StreamCloses
<1>3. CASE query[c] \notin Running
  BY <1>1, <1>3, StutterInv DEF StreamCloses, coreVars
<1> QED BY <1>2, <1>3

\* A turn of a user's query: no load is its own.
LEMMA TurnInv ==
    ASSUME DriverInv, NEW c \in Call, NEW from \in Positions \ {"none"}, NEW to \in Positions,
           Turn(c, from, to)
    PROVE  DriverInv'
<1>1. /\ kind[c] \in Queries /\ query[c] = from
      /\ query' = [query EXCEPT ![c] = to]
      /\ at' = at \/ at' = [at EXCEPT ![c] = "done"]
      /\ UNCHANGED <<entry, fresh, inflight, load, result, waitsFor, value,
                     schema, snapshot, kind, on, began, readAs>>
  BY DEF Turn, CacheKept
<1>2. at[c] # "new" /\ ~Active(c)
  BY <1>1 DEF DriverInv, LoadsInv
<1>3. TypeOK'
  BY <1>1 DEF DriverInv, TypeOK, CacheTypeOK
<1>4. /\ \A d \in Call : d # c => query'[d] = query[d] /\ at'[d] = at[d]
      /\ query'[c] = to /\ at'[c] \in {at[c], "done"}
  BY <1>1 DEF DriverInv, TypeOK, CacheTypeOK
<1>5. LoadsInv'
  <2>1. ASSUME NEW d \in Call PROVE LoadsInv!(d)'
    BY <1>1, <1>2, <1>4 DEF DriverInv, LoadsInv, Active
  <2> QED BY <2>1 DEF LoadsInv
<1>6. InflightInv'
  BY <1>1 DEF DriverInv, InflightInv, Active
<1>7. ReadInv'
  BY <1>1, <1>4 DEF DriverInv, ReadInv
<1>8. AnswerInv'
  BY <1>1, <1>2, <1>4 DEF DriverInv, AnswerInv, Active
<1>9. RefreshInv'
  BY <1>1, <1>4 DEF DriverInv, RefreshInv
<1> QED BY <1>3, <1>5, <1>6, <1>7, <1>8, <1>9 DEF DriverInv

LEMMA UserStep ==
    ASSUME NEW c \in Call, ParserTurn(c) \/ DriverTurn(c)
    PROVE  /\ kind[c] \in Queries
           /\ UNCHANGED <<entry, fresh, inflight, load, result, waitsFor, value, schema, handle, files,
                          snapshot, kind, on, readAs, abandoned, aborted, began>>
           /\ \E from \in Positions \ {"none"}, to \in Positions \ ({"none", "asked"} \cup Running) :
                 /\ query[c] = from /\ query' = [query EXCEPT ![c] = to]
                 /\ at' = IF to = "over" THEN [at EXCEPT ![c] = "done"] ELSE at
<1>1. CASE ParserTurn(c)
  BY <1>1 DEF ParserTurn, ParseBegins, OnColumns, OnRow, ParseEnds, ParseFails, Turn, CacheKept
<1>2. CASE DriverTurn(c)
  BY <1>2 DEF DriverTurn, Announce, Inform, End, Catch, Done, Turn, CacheKept
<1> QED BY <1>1, <1>2

LEMMA UserInv ==
    ASSUME DriverInv, NEW c \in Call, ParserTurn(c) \/ DriverTurn(c)
    PROVE  DriverInv'
<1>1. ASSUME NEW from \in Positions \ {"none"}, NEW to \in Positions, Turn(c, from, to)
      PROVE  DriverInv'
  BY <1>1, TurnInv
<1>2. CASE ParserTurn(c)
  BY <1>1, <1>2 DEF ParserTurn, ParseBegins, OnColumns, OnRow, ParseEnds, ParseFails
<1>3. CASE DriverTurn(c)
  BY <1>1, <1>3 DEF DriverTurn, Announce, Inform, End, Catch, Done
<1> QED BY <1>2, <1>3

LEMMA LoadQueryInv == ASSUME DriverInv, NEW c \in Call, LoadQuery(c) PROVE DriverInv'
<1>1. PICK l \in {"running", "failed"}, q \in {"none", "asked", "over", "got", "failed"} \cup {query[c]} :
        /\ load[c] = "queued" /\ load' = [load EXCEPT ![c] = l] /\ query' = [query EXCEPT ![c] = q]
        /\ l = "running" => q = "asked"
        /\ l = "failed" => q = query[c]
        /\ UNCHANGED <<entry, fresh, inflight, result, waitsFor, at, value,
                       schema, snapshot, kind, on, began, readAs>>
  BY DEF LoadQuery, LoaderRuns, LoadFails, DriverInv, TypeOK
<1>2. /\ \A d \in Call : d # c => query'[d] = query[d] /\ load'[d] = load[d]
      /\ query'[c] = q /\ load'[c] = l
  BY <1>1 DEF DriverInv, TypeOK, CacheTypeOK
<1>3. Active(c) /\ kind[c] \in Analyses /\ query[c] \notin {"asked", "got", "failed"} \cup Running
  BY <1>1 DEF DriverInv, LoadsInv, Active
<1>4. TypeOK'
  <2>1. query' \in [Call -> Positions]
    BY <1>1 DEF DriverInv, TypeOK
  <2>2. load' \in [Call -> {"none", "queued", "running", "stored", "failed", "over"}]
    BY <1>1 DEF DriverInv, TypeOK, CacheTypeOK
  <2> QED BY <1>1, <2>1, <2>2 DEF DriverInv, TypeOK, CacheTypeOK
<1>5. LoadsInv'
  <2>1. ASSUME NEW d \in Call PROVE LoadsInv!(d)'
    BY <1>1, <1>2, <1>3 DEF DriverInv, LoadsInv, Active
  <2> QED BY <2>1 DEF LoadsInv
<1>6. InflightInv'
  BY <1>1, <1>2 DEF DriverInv, InflightInv, Active
<1>7. ReadInv'
  BY <1>1, <1>2, <1>3 DEF DriverInv, ReadInv
<1>8. AnswerInv'
  BY <1>1, <1>2, <1>3 DEF DriverInv, AnswerInv
<1>9. RefreshInv'
  BY <1>1 DEF DriverInv, RefreshInv
<1> QED BY <1>4, <1>5, <1>6, <1>7, <1>8, <1>9 DEF DriverInv

LEMMA StillInflight ==
    ASSUME DriverInv, UNCHANGED <<inflight, on>>, \A d \in Call : Active(d) => Active(d)'
    PROVE  InflightInv'
<1> SUFFICES ASSUME NEW k \in Key, inflight'[k] # NoCall
             PROVE  Active(inflight[k])' /\ KeyOf[on'[inflight'[k]]] = k
  BY DEF InflightInv, Active
<1>1. inflight[k] \in Call /\ Active(inflight[k]) /\ KeyOf[on[inflight[k]]] = k
  BY DEF DriverInv, InflightInv, TypeOK, CacheTypeOK
<1> QED BY <1>1 DEF Active

\* A load ends badly.
LEMMA LoadFailsInv ==
    ASSUME DriverInv, NEW c \in Call, kind[c] \in Analyses, load[c] = "running", LoadFails(c),
           query' = [query EXCEPT ![c] = "over"],
           UNCHANGED <<schema, snapshot, kind, on, readAs, began>>
    PROVE  DriverInv'
<1>1. /\ \A d \in Call : d # c => query'[d] = query[d] /\ load'[d] = load[d]
      /\ query'[c] = "over" /\ load'[c] = "failed"
      /\ UNCHANGED <<entry, fresh, inflight, result, waitsFor, at, value>>
  BY DEF LoadFails, DriverInv, TypeOK, CacheTypeOK
<1>2. Active(c)
  BY DEF Active
<1>3. TypeOK'
  BY DEF LoadFails, DriverInv, TypeOK, CacheTypeOK
<1>4. LoadsInv'
  <2>1. ASSUME NEW d \in Call PROVE LoadsInv!(d)'
    BY <1>1, <1>2 DEF DriverInv, LoadsInv, Active
  <2> QED BY <2>1 DEF LoadsInv
<1>5. InflightInv'
  BY <1>1, StillInflight DEF Active
<1>6. ReadInv'
  BY <1>1 DEF DriverInv, ReadInv
<1>7. AnswerInv'
  BY <1>1 DEF DriverInv, AnswerInv
<1>8. RefreshInv'
  BY <1>1 DEF DriverInv, RefreshInv
<1> QED BY <1>3, <1>4, <1>5, <1>6, <1>7, <1>8 DEF DriverInv

\* A load ends well.  Its key has no other load, and nobody is about to assign
\* the entry it replaces.
LEMMA StoreInv ==
    ASSUME DriverInv, NEW c \in Call, kind[c] \in Analyses, query[c] = "got",
           Store(c, KeyOf[on[c]], readAs[c]), query' = [query EXCEPT ![c] = "over"],
           UNCHANGED <<schema, snapshot, kind, on, readAs, began>>
    PROVE  DriverInv' /\ \A k \in Key : entry[k] <= entry'[k]
<1> DEFINE key == KeyOf[on[c]]
<1>1. /\ load[c] = "running" /\ Active(c) /\ at[c] = "waiting" /\ on[c] \in Handle /\ key \in Key
      /\ inflight[key] = c
  BY DriverAssumption DEF Store, DriverInv, LoadsInv, Active
<1>2. /\ \A d \in Call : d # c => query'[d] = query[d] /\ load'[d] = load[d] /\ result'[d] = result[d]
      /\ query'[c] = "over" /\ load'[c] = "stored" /\ result'[c] = readAs[c]
      /\ \A k \in Key : k # key => entry'[k] = entry[k]
      /\ entry'[key] = readAs[c]
      /\ UNCHANGED <<inflight, waitsFor, at, value>>
  BY <1>1 DEF Store, DriverInv, TypeOK, CacheTypeOK
<1>3. /\ readAs[c] \in 1..MaxVersion /\ readAs[c] <= schema
      /\ entry[key] <= readAs[c] /\ began[c] <= readAs[c]
  BY CacheAssumption DEF DriverInv, TypeOK, ReadInv
<1>4. ASSUME NEW k \in Key
      PROVE  entry[k] \in Nat /\ entry'[k] \in 0..MaxVersion /\ entry[k] <= entry'[k] /\ entry'[k] <= schema
    BY <1>2, <1>3, CacheAssumption DEF DriverInv, TypeOK, CacheTypeOK, ReadInv
<1>5. TypeOK'
  <2>1. entry' \in [Key -> 0..MaxVersion]
    BY <1>3 DEF Store, DriverInv, TypeOK, CacheTypeOK
  <2>2. fresh' \subseteq {k \in Key : entry'[k] # 0}
    BY <1>1, <1>2, <1>3 DEF Store, DriverInv, TypeOK, CacheTypeOK
  <2>3. /\ load' \in [Call -> {"none", "queued", "running", "stored", "failed", "over"}]
        /\ query' \in [Call -> Positions]
    BY DEF Store, DriverInv, TypeOK, CacheTypeOK
  <2>4. result' \in [Call -> 0..MaxVersion]
    BY <1>3 DEF Store, DriverInv, TypeOK, CacheTypeOK
  <2> QED BY <1>2, <2>1, <2>2, <2>3, <2>4 DEF DriverInv, TypeOK, CacheTypeOK
<1>6. LoadsInv'
  <2>1. ASSUME NEW d \in Call PROVE LoadsInv!(d)'
    BY <1>1, <1>2 DEF DriverInv, LoadsInv, Active
  <2> QED BY <2>1 DEF LoadsInv
<1>7. InflightInv'
  BY <1>2, StillInflight DEF Active
<1>8. \A d \in Call : d # c /\ Active(d) => KeyOf[on[d]] # key
  BY <1>1 DEF DriverInv, LoadsInv
<1>9. ReadInv'
  <2>1. ASSUME NEW d \in Call, d # c PROVE ReadInv!2!(d)'
    <3>1. CASE Active(d)
      <4>1. KeyOf[on[d]] \in Key /\ KeyOf[on[d]] # key
        BY <2>1, <3>1, <1>8, DriverAssumption DEF DriverInv, LoadsInv, Active
      <4> QED BY <1>2, <2>1, <4>1 DEF DriverInv, ReadInv
    <3>2. CASE ~Active(d)
      <4>1. ~(kind[d] \in Analyses /\ query[d] \in {"read", "got"}) /\ load[d] # "stored"
        BY <3>2 DEF DriverInv, LoadsInv, Active
      <4> QED BY <1>2, <2>1, <4>1 DEF DriverInv, ReadInv
    <3> QED BY <3>1, <3>2
  <2>2. ReadInv!2!(c)'
    BY <1>1, <1>2, <1>3 DEF DriverInv, ReadInv
  <2> QED BY <1>4, <2>1, <2>2 DEF ReadInv
<1>10. AnswerInv'
  <2>1. ASSUME NEW h \in Handle PROVE snapshot'[h] <= 1 \/ snapshot'[h] <= entry'[KeyOf[h]]
    <3>1. KeyOf[h] \in Key /\ snapshot[h] \in Nat
      BY DriverAssumption, CacheAssumption DEF DriverInv, TypeOK
    <3>2. snapshot[h] <= 1 \/ snapshot[h] <= entry[KeyOf[h]]
      BY DEF DriverInv, AnswerInv
    <3>3. entry[KeyOf[h]] \in Nat /\ entry[KeyOf[h]] <= entry'[KeyOf[h]] /\ entry'[KeyOf[h]] \in Nat
      BY <3>1, <1>4, CacheAssumption
    <3> QED BY <3>1, <3>2, <3>3
  <2>2. ASSUME NEW d \in Call, (AnswerInv!2!(d)!1)'
        PROVE  (AnswerInv!2!(d)!2)'
    <3>1. AnswerInv!2!(d)!2 /\ on[d] \in Handle
      BY <1>2, <2>2 DEF DriverInv, AnswerInv, LoadsInv
    <3>2. KeyOf[on[d]] # key /\ KeyOf[on[d]] \in Key
      BY <1>1, <3>1, DriverAssumption
    <3> QED BY <1>2, <3>1, <3>2
  <2> QED BY <2>1, <2>2 DEF AnswerInv
<1>11. RefreshInv'
  BY <1>2 DEF DriverInv, RefreshInv
<1> QED BY <1>4, <1>5, <1>6, <1>7, <1>9, <1>10, <1>11 DEF DriverInv

LEMMA LoadEndsInv == ASSUME DriverInv, NEW c \in Call, LoadEnds(c) PROVE DriverInv'
BY StoreInv, LoadFailsInv DEF LoadEnds

\* Everybody who waits is answered, before another load of the key begins.
LEMMA LoadSettlesInv == ASSUME DriverInv, NEW c \in Call, LoadSettles(c) PROVE DriverInv'
<1>1. /\ load[c] \in {"stored", "failed"} /\ Active(c) /\ kind[c] \in Analyses
      /\ on[c] \in Handle /\ inflight[KeyOf[on[c]]] = c /\ at[c] = "waiting" /\ waitsFor[c] = c
  BY DEF LoadSettles, Finally, Settle, Active, DriverInv, LoadsInv
<1>2. /\ UNCHANGED <<entry, fresh, result, waitsFor, schema, snapshot, kind, on, query, readAs, began>>
      /\ load' = [load EXCEPT ![c] = "over"]
      /\ at' = [d \in Call |-> IF d \in Waiting(c) THEN "answered" ELSE at[d]]
      /\ value' = [d \in Call |-> IF d \in Waiting(c) THEN result[c] ELSE value[d]]
      /\ inflight' = [k \in Key |-> IF inflight[k] = c THEN NoCall ELSE inflight[k]]
  BY DEF LoadSettles, Finally, Settle, callVars
<1>3. /\ \A d \in Call : d # c => load'[d] = load[d]
      /\ load'[c] = "over"
      /\ \A d \in Call : d \notin Waiting(c) => at'[d] = at[d] /\ value'[d] = value[d]
      /\ \A d \in Waiting(c) : d \in Call /\ at[d] = "waiting" /\ waitsFor[d] = c
                                /\ at'[d] = "answered" /\ value'[d] = result[c]
  BY <1>2 DEF Waiting, DriverInv, TypeOK, CacheTypeOK
<1>4. TypeOK'
  <2>1. /\ at' \in [Call -> {"new", "waiting", "answered", "done"}]
        /\ load' \in [Call -> {"none", "queued", "running", "stored", "failed", "over"}]
    BY <1>2 DEF DriverInv, TypeOK, CacheTypeOK
  <2>2. /\ value' \in [Call -> 0..MaxVersion]
        /\ inflight' \in [Key -> Call \cup {NoCall}]
    BY <1>2 DEF DriverInv, TypeOK, CacheTypeOK
  <2> QED BY <1>2, <2>1, <2>2 DEF DriverInv, TypeOK, CacheTypeOK
<1>5. LoadsInv'
  <2>1. \A d \in Call : d \notin Waiting(c) /\ at[d] = "waiting" => waitsFor[d] # c
    BY DEF Waiting
  <2>2. ASSUME NEW d \in Call
        PROVE  /\ at'[d] = "new" <=> at[d] = "new"
               /\ at'[d] = "waiting" => at[d] = "waiting" /\ d \notin Waiting(c)
               /\ load'[d] \in {"queued", "running", "stored", "failed"} =>
                    d # c /\ Active(d) /\ d \notin Waiting(c)
    BY <1>3 DEF Active, DriverInv, LoadsInv
  <2>3. ASSUME NEW d \in Call, Active(d), d # c
        PROVE  KeyOf[on[d]] \in Key /\ inflight'[KeyOf[on[d]]] = inflight[KeyOf[on[d]]]
    BY <1>2, <2>3, DriverAssumption DEF DriverInv, LoadsInv, Active
  <2>4. ASSUME NEW d \in Call PROVE LoadsInv!(d)'
    <3>1. load'[d] \in {"queued", "running", "stored", "failed"} =>
            /\ kind[d] \in Analyses /\ at'[d] = "waiting" /\ waitsFor[d] = d
            /\ inflight'[KeyOf[on[d]]] = d
      BY <1>3, <2>2, <2>3 DEF DriverInv, LoadsInv
    <3>2. at'[d] = "waiting" /\ kind[d] \in Analyses =>
            /\ waitsFor[d] \in Call /\ load'[waitsFor[d]] \in {"queued", "running", "stored", "failed"}
            /\ KeyOf[on[waitsFor[d]]] = KeyOf[on[d]]
      BY <1>3, <2>1, <2>2 DEF DriverInv, LoadsInv, Active
    <3>3. at'[d] = "new" => load'[d] = "none" /\ query[d] = "none" /\ kind[d] = "none"
      BY <1>1, <1>3, <2>2 DEF DriverInv, LoadsInv
    <3>4. kind[d] \in Analyses /\ query[d] \in {"asked", "got", "failed"} \cup Running =>
            load'[d] = "running"
      BY <1>1, <1>3 DEF DriverInv, LoadsInv
    <3>5. at'[d] # "new" => on[d] \in Handle
      BY <2>2 DEF DriverInv, LoadsInv
    <3>6. waitsFor[d] \in Call => at'[waitsFor[d]] # "new"
      BY <2>2 DEF DriverInv, LoadsInv
    <3> QED BY <1>2, <3>1, <3>2, <3>3, <3>4, <3>5, <3>6 DEF Active
  <2> QED BY <2>4 DEF LoadsInv
<1>6. InflightInv'
  BY <1>2, <1>3, CacheAssumption DEF DriverInv, InflightInv, Active, TypeOK, CacheTypeOK
<1>7. ReadInv'
  BY <1>1, <1>2, <1>3 DEF DriverInv, ReadInv
<1>8. AnswerInv'
  <2>1. ASSUME NEW d \in Call, (AnswerInv!2!(d)!1)'
        PROVE  (AnswerInv!2!(d)!2)'
    <3>1. CASE d \in Waiting(c)
      <4>1. result[c] # 0 /\ KeyOf[on[d]] = KeyOf[on[c]]
        <5>1. kind[d] \in Analyses /\ at[d] = "waiting" /\ waitsFor[d] = c /\ value'[d] = result[c]
          BY <1>2, <1>3, <2>1, <3>1
        <5> QED BY <1>2, <2>1, <5>1 DEF DriverInv, LoadsInv
      <4>2. result[c] = entry[KeyOf[on[c]]]
        BY <1>1, <4>1 DEF DriverInv, ReadInv
      <4>3. ASSUME NEW e \in Call, load[e] = "running" PROVE KeyOf[on[e]] # KeyOf[on[c]]
        BY <1>1, <4>3 DEF DriverInv, LoadsInv, Active
      <4> QED BY <1>2, <1>3, <3>1, <4>1, <4>2, <4>3
    <3>2. CASE d \notin Waiting(c)
      BY <1>2, <1>3, <2>1, <3>2 DEF DriverInv, AnswerInv
    <3> QED BY <3>1, <3>2
  <2> QED BY <1>2, <2>1 DEF AnswerInv, DriverInv
<1>9. RefreshInv'
  <2>1. ASSUME NEW d \in Call, kind[d] = "full", at'[d] \in {"answered", "done"}, value'[d] # 0
        PROVE  began[waitsFor[d]] <= value'[d]
    <3>1. CASE d \in Waiting(c)
      BY <1>1, <1>3, <2>1, <3>1 DEF DriverInv, ReadInv
    <3>2. CASE d \notin Waiting(c)
      BY <1>3, <2>1, <3>2 DEF DriverInv, RefreshInv
    <3> QED BY <3>1, <3>2
  <2> QED BY <1>2, <2>1 DEF DriverInv, RefreshInv
<1> QED BY <1>4, <1>5, <1>6, <1>7, <1>8, <1>9 DEF DriverInv

LEMMA ResumeInv ==
    ASSUME DriverInv, NEW c \in Call, Resume(c)
    PROVE  DriverInv' /\ \A h \in Handle : snapshot'[h] >= snapshot[h]
<1>1. /\ at[c] = "answered" /\ at' = [at EXCEPT ![c] = "done"]
      /\ UNCHANGED <<entry, fresh, inflight, load, result, waitsFor, value,
                     schema, kind, on, query, readAs, began>>
  BY DEF Resume, callVars
<1>2. on[c] \in Handle /\ KeyOf[on[c]] \in Key /\ ~Active(c)
  BY <1>1, DriverAssumption DEF DriverInv, LoadsInv
<1>3. \A d \in Call : d # c => at'[d] = at[d]
  BY <1>1 DEF DriverInv, TypeOK, CacheTypeOK
<1>4. at'[c] = "done"
  BY <1>1 DEF DriverInv, TypeOK, CacheTypeOK
<1>5. ASSUME NEW h \in Handle
      PROVE  /\ snapshot'[h] >= snapshot[h]
             /\ snapshot'[h] <= 1 \/ snapshot'[h] <= entry[KeyOf[h]]
  <2>1. snapshot[h] \in Nat /\ KeyOf[h] \in Key /\ entry[KeyOf[h]] \in Nat
    BY DriverAssumption, CacheAssumption DEF DriverInv, TypeOK, CacheTypeOK
  <2>2. snapshot[h] <= 1 \/ snapshot[h] <= entry[KeyOf[h]]
    BY DEF DriverInv, AnswerInv
  <2>3. CASE snapshot'[h] = snapshot[h]
    BY <2>1, <2>2, <2>3
  <2>4. CASE snapshot'[h] # snapshot[h]
    <3>1. /\ h = on[c] /\ snapshot'[h] = value[c] /\ value[c] # 0
          /\ kind[c] \in {"full", "incremental"}
      BY <2>4 DEF Resume, DriverInv, TypeOK
    <3>2. value[c] = entry[KeyOf[h]]
      BY <1>1, <3>1 DEF DriverInv, AnswerInv
    <3> QED BY <2>1, <2>2, <3>1, <3>2
  <2> QED BY <2>3, <2>4
<1>6. TypeOK'
  <2>1. snapshot' \in [Handle -> 0..MaxVersion]
    BY <1>2 DEF Resume, DriverInv, TypeOK, CacheTypeOK
  <2> QED BY <1>1, <2>1 DEF DriverInv, TypeOK, CacheTypeOK
<1>7. LoadsInv'
  <2>1. ASSUME NEW d \in Call PROVE LoadsInv!(d)'
    BY <1>1, <1>2, <1>3, <1>4 DEF DriverInv, LoadsInv, Active
  <2> QED BY <2>1 DEF LoadsInv
<1>8. InflightInv'
  BY <1>1, StillInflight DEF Active
<1>9. ReadInv'
  BY <1>1 DEF DriverInv, ReadInv
<1>10. AnswerInv'
  <2>1. ASSUME NEW d \in Call, (AnswerInv!2!(d)!1)'
        PROVE  (AnswerInv!2!(d)!2)'
    BY <1>1, <1>3, <1>4, <2>1 DEF DriverInv, AnswerInv
  <2> QED BY <1>1, <1>5, <2>1 DEF AnswerInv
<1>11. RefreshInv'
  BY <1>1, <1>3, <1>4 DEF DriverInv, RefreshInv
<1> QED BY <1>5, <1>6, <1>7, <1>8, <1>9, <1>10, <1>11 DEF DriverInv

LEMMA ExpiresInv == ASSUME DriverInv, NEW k \in Key, CacheExpires(k) PROVE DriverInv'
<1>1. TypeOK'
  BY DEF CacheExpires, Expires, callVars, DriverInv, TypeOK, CacheTypeOK
<1> QED BY <1>1 DEF CacheExpires, Expires, callVars, DriverInv, LoadsInv, InflightInv, ReadInv,
             AnswerInv, RefreshInv, Active

LEMMA SchemaInv == ASSUME DriverInv, SchemaChanges PROVE DriverInv'
<1>1. /\ schema \in 1..MaxVersion /\ schema' = schema + 1 /\ schema' \in 1..MaxVersion
      /\ UNCHANGED <<cacheVars, snapshot, kind, on, query, readAs, began>>
  BY CacheAssumption DEF SchemaChanges, callVars, DriverInv, TypeOK
<1>2. TypeOK'
  BY <1>1 DEF cacheVars, DriverInv, TypeOK, CacheTypeOK
<1>3. ReadInv'
  <2>1. ASSUME NEW n \in 0..MaxVersion, n <= schema PROVE n <= schema'
    BY <1>1, <2>1, CacheAssumption
  <2>2. ASSUME NEW k \in Key PROVE entry'[k] <= schema'
    BY <1>1, <2>1 DEF cacheVars, DriverInv, TypeOK, CacheTypeOK, ReadInv
  <2>3. ASSUME NEW d \in Call PROVE ReadInv!2!(d)'
    BY <1>1, <2>1 DEF cacheVars, DriverInv, TypeOK, ReadInv
  <2> QED BY <2>2, <2>3 DEF ReadInv
<1> QED BY <1>1, <1>2, <1>3 DEF cacheVars, DriverInv, LoadsInv, InflightInv, AnswerInv, RefreshInv, Active

LEMMA NextInv == DriverInv /\ [Next]_vars => DriverInv'
<1> SUFFICES ASSUME DriverInv, [Next]_vars PROVE DriverInv'
  OBVIOUS
<1>1. CASE UNCHANGED vars
  BY <1>1, StutterInv DEF vars, callVars, coreVars
<1>2. ASSUME NEW h \in Handle, Connect(h) \/ ConnectThrows(h) \/ Close(h) PROVE DriverInv'
  BY <1>2, StutterInv DEF Connect, ConnectThrows, Close, callVars, coreVars
<1>3. ASSUME NEW c \in Call, NEW h \in Handle, Calls(c, h) PROVE DriverInv'
  BY <1>3, FullInv, IncrementalInv, SingleInv, StartQueryInv DEF Calls
<1>4. ASSUME NEW c \in Call, Microtask(c) PROVE DriverInv'
  BY <1>4, LoadQueryInv, UserInv, LoadEndsInv, LoadSettlesInv, ResumeInv, StreamClosesInv DEF Microtask
<1>5. ASSUME NEW c \in Call, Sends(c) \/ BrokerReads(c) \/ RemoteReads(c) \/ RunSettles(c) PROVE DriverInv'
  BY <1>5, SendsInv, BrokerReadsInv, RemoteReadsInv, RunSettlesInv
<1>7. ASSUME NEW c \in Call, Abandon(c) PROVE DriverInv'
  BY <1>7, StutterInv DEF Abandon, coreVars
<1>6. ASSUME NEW k \in Key, CacheExpires(k) PROVE DriverInv'
  BY <1>6, ExpiresInv
<1> QED BY <1>1, <1>2, <1>3, <1>4, <1>5, <1>6, <1>7, SchemaInv DEF Next

\* What the driver keeps hold at every step: the types of its state, who loads
\* and who waits, and how entries, reads and snapshots are ordered.
THEOREM DriverHolds == Spec => []DriverInv
<1>1. Init => DriverInv
  BY InitInv
<1>2. DriverInv /\ [Next]_vars => DriverInv'
  BY NextInv
<1> QED BY <1>1, <1>2, PTL DEF Spec

\* getOrLoad of metadata-cache.js: two loads of one key never overlap, for any
\* number of handles and calls.
THEOREM LoadsNeverOverlap == Spec => []OneLoad
<1>1. DriverInv => OneLoad
  BY DEF DriverInv, LoadsInv, OneLoad, Active
<1> QED BY <1>1, DriverHolds, PTL

\* analyseFull of driver.js: a refresh never returns what was read before the
\* load it was given was asked for.
THEOREM RefreshesAreReads == Spec => []RefreshIsRead
<1>1. DriverInv => RefreshIsRead
  <2> SUFFICES ASSUME DriverInv, NEW c \in Call, kind[c] = "full", at[c] = "done", value[c] # 0
               PROVE  waitsFor[c] # NoCall /\ value[c] >= began[waitsFor[c]]
    BY DEF RefreshIsRead
  <2>1. waitsFor[c] \in Call /\ began[waitsFor[c]] <= value[c]
    BY DEF DriverInv, RefreshInv
  <2>2. value[c] \in Nat /\ began[waitsFor[c]] \in Nat
    BY <2>1, CacheAssumption DEF DriverInv, TypeOK, CacheTypeOK
  <2> QED BY <2>1, <2>2, CacheAssumption
<1> QED BY <1>1, DriverHolds, PTL

\* getOrLoad of metadata-cache.js: the entry of a key never goes back.
THEOREM EntriesNeverGoBack == Spec => EntryNeverBack
<1>1. DriverInv /\ [Next]_vars => \A k \in Key : entry'[k] >= entry[k]
  <2> SUFFICES ASSUME DriverInv, [Next]_vars PROVE \A k \in Key : entry'[k] >= entry[k]
    OBVIOUS
  <2>1. CASE entry' = entry
    BY <2>1, CacheAssumption DEF DriverInv, TypeOK, CacheTypeOK
  <2>2. ASSUME NEW c \in Call, LoadEnds(c), entry' # entry PROVE \A k \in Key : entry'[k] >= entry[k]
    <3>1. /\ kind[c] \in Analyses /\ query[c] = "got" /\ Store(c, KeyOf[on[c]], readAs[c])
          /\ query' = [query EXCEPT ![c] = "over"]
          /\ UNCHANGED <<schema, snapshot, kind, on, readAs, began>>
      BY <2>2 DEF LoadEnds, LoadFails
    <3>2. DriverInv' /\ \A k \in Key : entry[k] <= entry'[k]
      BY <3>1, StoreInv
    <3>3. entry \in [Key -> Nat] /\ entry' \in [Key -> Nat]
      BY <3>2, CacheAssumption DEF DriverInv, TypeOK, CacheTypeOK
    <3> QED BY <3>2, <3>3
  <2>3. CASE UNCHANGED vars
    BY <2>1, <2>3 DEF vars, cacheVars
  <2>4. CASE \E c \in Call : Microtask(c)
    <3> PICK c \in Call : Microtask(c)
      BY <2>4
    <3>1. LoadEnds(c) \/ entry' = entry
      BY UserStep DEF Microtask, LoadQuery, LoaderRuns, LoadFails, LoadSettles, Finally, Settle, Resume,
                      StreamCloses, cacheVars
    <3> QED BY <2>1, <2>2, <3>1
  <2>5. CASE \E c \in Call, h \in Handle : Calls(c, h)
    BY <2>1, <2>5 DEF Calls, AnalyseFull, AnalyseIncremental, AnalyseSingleObject, StartQuery,
                      GetOrLoad, Hit, Join, StartLoad, WaitFor, CacheKept
  <2>6. CASE Next /\ ~(\E c \in Call : Microtask(c)) /\ ~(\E c \in Call, h \in Handle : Calls(c, h))
    BY <2>1, <2>6 DEF Next, Connect, ConnectThrows, Close, Abandon, Sends, BrokerReads, RemoteReads,
                      RunSettles, RunKept, CacheExpires, Expires, SchemaChanges, cacheVars
  <2> QED BY <2>3, <2>4, <2>5, <2>6
<1> QED BY <1>1, DriverHolds, PTL DEF Spec, EntryNeverBack

\* analyseFull and analyseIncremental of driver.js: no interleaving of calls,
\* loads and expiries brings a handle back to an older snapshot.
THEOREM HandlesNeverGoBack == Spec => HandleNeverBack
<1>1. DriverInv /\ [Next]_vars => \A h \in Handle : snapshot'[h] >= snapshot[h]
  <2> SUFFICES ASSUME DriverInv, [Next]_vars PROVE \A h \in Handle : snapshot'[h] >= snapshot[h]
    OBVIOUS
  <2>1. CASE snapshot' = snapshot
    BY <2>1, CacheAssumption DEF DriverInv, TypeOK
  <2>2. ASSUME NEW c \in Call, NEW h \in Handle, AnalyseIncremental(c, h)
        PROVE  \A g \in Handle : snapshot'[g] >= snapshot[g]
    <3>1. snapshot' = [snapshot EXCEPT ![h] = IF snapshot[h] = 0 THEN Kept[h] ELSE snapshot[h]]
      BY <2>2 DEF AnalyseIncremental
    <3>2. Kept[h] \in {0, 1} /\ snapshot \in [Handle -> Nat]
      BY CacheAssumption, DriverAssumption DEF DriverInv, TypeOK
    <3>3. \A g \in Handle : snapshot'[g] = IF g = h /\ snapshot[h] = 0 THEN Kept[h] ELSE snapshot[g]
      BY <3>1, <3>2
    <3> QED BY <3>2, <3>3
  <2>3. CASE UNCHANGED vars
    BY <2>1, <2>3 DEF vars
  <2>4. CASE \E c \in Call : Microtask(c)
    <3> PICK c \in Call : Microtask(c)
      BY <2>4
    <3>1. Resume(c) \/ snapshot' = snapshot
      BY UserStep DEF Microtask, LoadQuery, LoadEnds, LoadSettles, StreamCloses
    <3> QED BY <2>1, <3>1, ResumeInv
  <2>5. CASE \E c \in Call, h \in Handle : Calls(c, h)
    <3> PICK c \in Call, h \in Handle : Calls(c, h)
      BY <2>5
    <3>1. AnalyseIncremental(c, h) \/ snapshot' = snapshot
      BY DEF Calls, AnalyseFull, AnalyseSingleObject, StartQuery
    <3> QED BY <2>1, <2>2, <3>1
  <2>6. CASE Next /\ ~(\E c \in Call : Microtask(c)) /\ ~(\E c \in Call, h \in Handle : Calls(c, h))
    BY <2>1, <2>6 DEF Next, Connect, ConnectThrows, Close, Abandon, Sends, BrokerReads, RemoteReads,
                      RunSettles, RunKept, CacheExpires, SchemaChanges
  <2> QED BY <2>3, <2>4, <2>5, <2>6
<1> QED BY <1>1, DriverHolds, PTL DEF Spec, HandleNeverBack

\* getOrLoad of metadata-cache.js: no call is rejected for a load that ended
\* before it was made.
THEOREM FailuresAreNotKept == Spec => FailureIsNotKept
<1>1. DriverInv /\ [Next]_vars =>
        \A c \in Call : at[c] = "new" /\ at'[c] = "answered" => value'[c] # 0
  <2> SUFFICES ASSUME DriverInv, [Next]_vars, NEW c \in Call, at[c] = "new", at'[c] = "answered"
               PROVE  value'[c] # 0
    OBVIOUS
  <2>1. at' # at /\ at \in [Call -> {"new", "waiting", "answered", "done"}]
    BY DEF DriverInv, TypeOK, CacheTypeOK
  <2>2. ASSUME NEW d \in Call, NEW h \in Handle, Calls(d, h)
        PROVE  value'[c] # 0
    <3>1. ~(\E a \in {"waiting", "done"} : at' = [at EXCEPT ![d] = a])
      BY <2>1
    <3>2. PICK force \in BOOLEAN : GetOrLoad(d, KeyOf[h], force)
      BY <2>2, <3>1 DEF Calls, AnalyseFull, AnalyseIncremental, AnalyseSingleObject, StartQuery
    <3>3. inflight[KeyOf[h]] # NoCall => load[inflight[KeyOf[h]]] # "over"
      BY DriverAssumption DEF DriverInv, InflightInv, Active
    <3>4. KeyOf[h] \in fresh /\ Hit(d, KeyOf[h])
      BY <3>1, <3>2, <3>3 DEF GetOrLoad, Join, StartLoad, WaitFor
    <3>5. /\ at' = [at EXCEPT ![d] = "answered"] /\ value' = [value EXCEPT ![d] = entry[KeyOf[h]]]
          /\ entry[KeyOf[h]] # 0 /\ value \in [Call -> 0..MaxVersion]
      BY <3>4 DEF Hit, DriverInv, TypeOK, CacheTypeOK
    <3>6. c = d
      BY <2>1, <3>5
    <3> QED BY <3>5, <3>6
  <2>3. ASSUME NEW d \in Call, Microtask(d)
        PROVE  FALSE
    <3>1. CASE LoadSettles(d)
      <4>1. c \in Waiting(d)
        BY <2>1, <3>1 DEF LoadSettles, Finally, Settle
      <4> QED BY <4>1 DEF Waiting
    <3>2. CASE Resume(d)
      BY <2>1, <3>2 DEF Resume
    <3>3. CASE ParserTurn(d) \/ DriverTurn(d)
      <4>1. at' = [at EXCEPT ![d] = "done"]
        BY <2>1, <3>3, UserStep
      <4> QED BY <2>1, <4>1
    <3>4. CASE LoadQuery(d) \/ LoadEnds(d) \/ StreamCloses(d)
      BY <2>1, <3>4 DEF LoadQuery, LoaderRuns, LoadFails, LoadEnds, Store, StreamCloses, cacheVars
    <3> QED BY <2>3, <3>1, <3>2, <3>3, <3>4 DEF Microtask
  <2>4. CASE UNCHANGED vars
    BY <2>1, <2>4 DEF vars, cacheVars
  <2>5. CASE Next /\ ~(\E d \in Call : Microtask(d)) /\ ~(\E d \in Call, h \in Handle : Calls(d, h))
    BY <2>1, <2>5 DEF Next, Connect, ConnectThrows, Close, Abandon, Sends, BrokerReads, RemoteReads,
                      RunSettles, RunKept, CacheExpires, Expires, SchemaChanges, cacheVars
  <2> QED BY <2>2, <2>3, <2>4, <2>5
<1> QED BY <1>1, DriverHolds, PTL DEF Spec, FailureIsNotKept

(***************************************************************************)
(* Streams the consumer destroys.                                          *)
(***************************************************************************)
AbortInv == /\ abandoned \subseteq Call
            /\ \A c \in aborted : c \in abandoned /\ query[c] \notin Running
            /\ \A c \in abandoned : kind[c] = "read"

LEMMA AbortInductive == DriverInv /\ AbortInv /\ [Next]_vars => AbortInv'
<1> SUFFICES ASSUME DriverInv, AbortInv, [Next]_vars PROVE AbortInv'
  OBVIOUS
<1>0. query \in [Call -> Positions] /\ kind \in [Call -> Analyses \cup Queries \cup {"none"}]
  BY DEF DriverInv, TypeOK
<1>1. ASSUME NEW c \in Call, NEW q \in Positions, query' = [query EXCEPT ![c] = q],
             q \in Running => query[c] \in Running \/ c \notin aborted,
             UNCHANGED <<kind, abandoned, aborted>>
      PROVE  AbortInv'
  BY <1>0, <1>1 DEF AbortInv
<1>2. ASSUME NEW c \in Call, NEW h \in Handle, Calls(c, h)
      PROVE  AbortInv'
  <2>1. PICK k \in Analyses \cup Queries :
           /\ Begin(c, h, k) /\ (query' = query \/ \E q \in {"asked", "failed"} : query' = [query EXCEPT ![c] = q])
    BY <1>2 DEF Calls, AnalyseFull, AnalyseIncremental, AnalyseSingleObject, StartQuery
  <2>2. kind[c] = "none" /\ kind' = [kind EXCEPT ![c] = k] /\ UNCHANGED <<abandoned, aborted>>
    BY <2>1 DEF Begin, DriverInv, LoadsInv
  <2>3. c \notin abandoned /\ c \notin aborted
    BY <2>2 DEF AbortInv
  <2>4. \A d \in Call : d # c => kind'[d] = kind[d] /\ query'[d] = query[d]
    BY <1>0, <2>1, <2>2
  <2>5. abandoned \subseteq Call
    BY DEF AbortInv
  <2> QED BY <2>2, <2>3, <2>4, <2>5 DEF AbortInv
<1>3. ASSUME NEW c \in Call, Microtask(c)
      PROVE  AbortInv'
  <2>1. CASE ParserTurn(c) \/ DriverTurn(c)
    <3>1. PICK to \in Positions \ ({"none", "asked"} \cup Running) :
             query' = [query EXCEPT ![c] = to] /\ UNCHANGED <<kind, abandoned, aborted>>
      BY <2>1, UserStep
    <3> QED BY <1>1, <3>1
  <2>2. CASE StreamCloses(c)
    <3>1. /\ c \in abandoned /\ aborted' = aborted \cup {c} /\ UNCHANGED <<kind, abandoned>>
          /\ \/ query[c] \notin Running /\ query' = query
             \/ query' = [query EXCEPT ![c] = "failed"]
      BY <2>2 DEF StreamCloses
    <3>2. query'[c] \notin Running /\ \A d \in aborted : query'[d] \notin Running
      BY <1>0, <3>1 DEF AbortInv
    <3> QED BY <3>1, <3>2 DEF AbortInv
  <2>3. CASE LoadQuery(c)
    BY <1>1, <2>3 DEF LoadQuery, shownVars, AbortInv
  <2>4. CASE LoadEnds(c)
    BY <1>1, <2>4 DEF LoadEnds
  <2>5. CASE LoadSettles(c) \/ Resume(c)
    BY <2>5 DEF LoadSettles, Resume, callVars, AbortInv
  <2> QED BY <1>3, <2>1, <2>2, <2>3, <2>4, <2>5 DEF Microtask
<1>4. ASSUME NEW c \in Call, Sends(c) \/ BrokerReads(c) \/ RemoteReads(c) \/ RunSettles(c)
      PROVE  AbortInv'
  <2>1. UNCHANGED <<kind, abandoned, aborted>>
    BY <1>4 DEF Sends, BrokerReads, RemoteReads, RunSettles, RunKept
  <2>2. CASE Sends(c)
    BY <1>1, <2>1, <2>2 DEF Sends
  <2>3. CASE BrokerReads(c) \/ RemoteReads(c)
    BY <1>1, <2>1, <2>3 DEF BrokerReads, RemoteReads
  <2>4. CASE RunSettles(c)
    BY <1>1, <2>1, <2>4 DEF RunSettles
  <2> QED BY <1>4, <2>2, <2>3, <2>4
<1>5. ASSUME NEW c \in Call, Abandon(c)
      PROVE  AbortInv'
  BY <1>5 DEF Abandon, AbortInv
<1>6. CASE UNCHANGED vars \/ SchemaChanges \/ (\E k \in Key : CacheExpires(k))
           \/ \E h \in Handle : Connect(h) \/ ConnectThrows(h) \/ Close(h)
  BY <1>6 DEF vars, callVars, SchemaChanges, CacheExpires, Connect, ConnectThrows, Close, AbortInv
<1> QED BY <1>2, <1>3, <1>4, <1>5, <1>6 DEF Next

\* readQuery of driver.js and run of broker-client.js: a stream that has been
\* closed has no query at the broker, whenever it was closed.
THEOREM AbandonedNeverRuns == Spec => []AbandonedIsNotRunning
<1>1. Init => AbortInv
  BY DEF Init, AbortInv
<1>2. DriverInv /\ AbortInv /\ [Next]_vars => AbortInv'
  BY AbortInductive
<1>3. AbortInv => AbandonedIsNotRunning
  BY DEF AbortInv, AbandonedIsNotRunning
<1> QED BY <1>1, <1>2, <1>3, DriverHolds, PTL DEF Spec

(***************************************************************************)
(* What a call is given.  Until it is over nothing closes it; when its     *)
(* parser has the columns, which its flag notes, they were given first;    *)
(* and it ends only with columns or with an error.                         *)
(***************************************************************************)
Given == {"columns", "row", "info", "error", "done", "end", "destroy"}
Closing == {"done", "end", "destroy"}
Reasons == {"columns", "error", "destroy"}
Shows(c) == kind[c] \in {"stream", "read"}

Ordered(s) == \A i \in DOMAIN s : (s[i] = "columns" => i = 1) /\ (s[i] = "row" => s[1] = "columns")
Unclosed(s) == \A i \in DOMAIN s : s[i] \notin Closing
Closed(s) == {i \in DOMAIN s : s[i] \in Closing} = {Len(s)}
Reasoned(s) == \E i \in DOMAIN s : s[i] \in Reasons
Topped(s) == s # <<>> /\ s[1] = "columns"

\* What was given when a call is at a position: r says that its stream was not
\* destroyed, n that its parser has the columns.
TellsAt(position, s, r, n) ==
    /\ position \in {"none", "asked", "got"} \cup Running => s = <<>> /\ ~n
    /\ position = "parsing" => IF n THEN r => Topped(s) ELSE s = <<>>
    /\ position \in {"parsed", "shown"} => n /\ (r => Topped(s))
    /\ position = "ending" => (r => Reasoned(s))
    /\ position = "over" /\ r => Closed(s) /\ Reasoned(s)
    /\ position # "over" \/ ~r => Unclosed(s)

CallTold(c) ==
    /\ told[c] \in Seq(Given) /\ Ordered(told[c])
    /\ Shows(c) => TellsAt(query[c], told[c], c \notin abandoned, c \in known)
    /\ ~Shows(c) => told[c] = <<>>
    /\ at[c] = "new" => c \notin known
    /\ c \in headed <=> c \in known
    /\ kind[c] \in Queries =>
          /\ waitsFor[c] = NoCall /\ at[c] \in {"waiting", "done"}
          /\ at[c] = "done" <=> query[c] = "over"
    /\ kind[c] = "none" => at[c] = "new" /\ waitsFor[c] = NoCall

ToldInv == told \in [Call -> Seq(Given)] /\ \A c \in Call : CallTold(c)

\* A stream is given one more thing.
LEMMA GivesOne ==
    ASSUME NEW s \in Seq(Given), NEW a \in Given, Ordered(s), Unclosed(s),
           a = "columns" => s = <<>>, a = "row" => Topped(s)
    PROVE  LET t == Append(s, a)
           IN  /\ t \in Seq(Given) /\ Ordered(t) /\ t # <<>>
               /\ a \notin Closing => Unclosed(t)
               /\ a \in Closing => Closed(t)
               /\ Reasoned(s) \/ a \in Reasons => Reasoned(t)
               /\ a = "columns" \/ Topped(s) => Topped(t)
<1> DEFINE t == Append(s, a)
           n == Len(s)
<1>1. /\ t \in Seq(Given) /\ n \in Nat /\ Len(t) = n + 1 /\ DOMAIN t = 1 .. n + 1
      /\ DOMAIN s = 1 .. n /\ t[n + 1] = a /\ \A i \in 1 .. n : t[i] = s[i]
  OBVIOUS
<1>2. s = <<>> <=> n = 0
  OBVIOUS
<1> HIDE DEF t, n
<1>3. t # <<>>
  BY <1>1
<1>4. a = "columns" \/ Topped(s) => t[1] = "columns"
  BY <1>1, <1>2 DEF Topped
<1>5. Ordered(t)
  <2> SUFFICES ASSUME NEW i \in 1 .. n + 1
               PROVE  (t[i] = "columns" => i = 1) /\ (t[i] = "row" => t[1] = "columns")
    BY <1>1 DEF Ordered
  <2>1. CASE i \in 1 .. n
    BY <1>1, <2>1 DEF Ordered
  <2>2. CASE i = n + 1
    BY <1>1, <1>2, <1>4, <2>2
  <2> QED BY <2>1, <2>2, <1>1
<1>6. a \notin Closing => Unclosed(t)
  <2> SUFFICES ASSUME a \notin Closing, NEW i \in 1 .. n + 1 PROVE t[i] \notin Closing
    BY <1>1 DEF Unclosed
  <2>1. i \in 1 .. n \/ i = n + 1
    BY <1>1
  <2> QED BY <1>1, <2>1 DEF Unclosed
<1>7. a \in Closing => Closed(t)
  <2> SUFFICES ASSUME a \in Closing PROVE \A i \in 1 .. n + 1 : t[i] \in Closing <=> i = n + 1
    BY <1>1 DEF Closed
  <2>1. \A i \in 1 .. n + 1 : i \in 1 .. n \/ i = n + 1
    BY <1>1
  <2> QED BY <1>1, <2>1 DEF Unclosed
<1>8. Reasoned(s) \/ a \in Reasons => Reasoned(t)
  BY <1>1 DEF Reasoned
<1> QED BY <1>1, <1>3, <1>4, <1>5, <1>6, <1>7, <1>8 DEF t, Topped

\* Steps of one call leave what the others were given.
LEMMA OthersTold ==
    ASSUME ToldInv, NEW c \in Call, CallTold(c)', told' \in [Call -> Seq(Given)],
           \A d \in Call \ {c} : /\ told'[d] = told[d] /\ kind'[d] = kind[d] /\ query'[d] = query[d]
                                 /\ at'[d] = at[d] /\ waitsFor'[d] = waitsFor[d]
                                 /\ d \in known' <=> d \in known
                                 /\ d \in headed' <=> d \in headed
                                 /\ d \in abandoned' <=> d \in abandoned
    PROVE  ToldInv'
<1> SUFFICES ASSUME NEW d \in Call \ {c} PROVE CallTold(d)'
  BY DEF ToldInv
<1>1. CallTold(d)
  BY DEF ToldInv
<1>2. Shows(d)' <=> Shows(d)
  BY DEF Shows
<1> QED BY <1>1, <1>2 DEF CallTold

\* A turn that leaves the told of its call in order.
LEMMA TurnTold ==
    ASSUME TypeOK, ToldInv, NEW c \in Call, NEW from \in Positions \ {"none", "over"}, NEW to \in Positions \ {"none"},
           Turn(c, from, to), NEW s \in Seq(Given), told' = [told EXCEPT ![c] = s],
           \A d \in Call \ {c} : (d \in known' <=> d \in known) /\ (d \in headed' <=> d \in headed),
           c \in headed' <=> c \in known',
           Ordered(s), kind[c] = "query" => s = <<>>,
           Shows(c) => TellsAt(to, s, c \notin abandoned, c \in known')
    PROVE  ToldInv'
<1>1. /\ kind[c] \in Queries /\ query[c] = from /\ query' = [query EXCEPT ![c] = to]
      /\ at' = IF to = "over" THEN [at EXCEPT ![c] = "done"] ELSE at
      /\ UNCHANGED <<waitsFor, kind, abandoned>>
  BY DEF Turn, CacheKept
<1>2. /\ told' \in [Call -> Seq(Given)] /\ told'[c] = s /\ query'[c] = to
      /\ at'[c] = IF to = "over" THEN "done" ELSE at[c]
      /\ \A d \in Call \ {c} : told'[d] = told[d] /\ query'[d] = query[d] /\ at'[d] = at[d]
  BY <1>1 DEF ToldInv, TypeOK, CacheTypeOK
<1>3. at[c] = "waiting" /\ waitsFor[c] = NoCall
  BY <1>1 DEF ToldInv, CallTold
<1>4. (Shows(c)' <=> Shows(c)) /\ (~Shows(c) => kind[c] = "query")
  BY <1>1 DEF Shows
<1>5. CallTold(c)'
  BY <1>1, <1>2, <1>3, <1>4 DEF CallTold
<1> QED BY <1>1, <1>2, <1>5, OthersTold

\* The same for a turn in which the call is given something.
LEMMA GivesTold ==
    ASSUME TypeOK, ToldInv, NEW c \in Call, NEW from \in Positions \ {"none", "over"}, NEW to \in Positions \ {"none"},
           Turn(c, from, to), NEW a \in Given, Gives(c, a),
           \A d \in Call \ {c} : (d \in known' <=> d \in known) /\ (d \in headed' <=> d \in headed),
           c \in headed' <=> c \in known',
           Shows(c) /\ c \notin abandoned =>
              /\ Unclosed(told[c])
              /\ a = "columns" => told[c] = <<>>
              /\ a = "row" => Topped(told[c])
              /\ TellsAt(to, Append(told[c], a), TRUE, c \in known'),
           Shows(c) /\ c \in abandoned => TellsAt(to, told[c], FALSE, c \in known')
    PROVE  ToldInv'
<1>1. CallTold(c) /\ told[c] \in Seq(Given) /\ told \in [Call -> Seq(Given)] /\ kind[c] \in Queries
  BY DEF ToldInv, CallTold, Turn
<1>2. Ordered(told[c])
  BY <1>1 DEF CallTold
<1>3. CASE kind[c] = "query" \/ c \in abandoned
  <2>1. told' = [told EXCEPT ![c] = told[c]]
    BY <1>1, <1>3 DEF Gives
  <2>2. kind[c] = "query" => told[c] = <<>>
    BY <1>1 DEF CallTold, Shows
  <2>3. Shows(c) => TellsAt(to, told[c], c \notin abandoned, c \in known')
    <3>1. Shows(c) => c \in abandoned
      BY <1>3 DEF Shows
    <3>2. Shows(c) => ((c \notin abandoned) = FALSE)
      BY <3>1
    <3> QED BY <3>1, <3>2
  <2> QED BY <1>1, <1>2, <2>1, <2>2, <2>3, TurnTold
<1>4. CASE kind[c] # "query" /\ c \notin abandoned
  <2> DEFINE t == Append(told[c], a)
  <2>1. told' = [told EXCEPT ![c] = t] /\ Shows(c)
    BY <1>1, <1>4 DEF Gives, Shows
  <2>2. t \in Seq(Given) /\ Ordered(t)
    BY <1>1, <1>2, <1>4, <2>1, GivesOne
  <2>3. (c \notin abandoned) = TRUE
    BY <1>4
  <2>4. TellsAt(to, t, TRUE, c \in known')
    BY <1>4, <2>1
  <2>5. TellsAt(to, t, c \notin abandoned, c \in known')
    BY <2>3, <2>4
  <2> HIDE DEF t
  <2> QED BY <1>4, <2>1, <2>2, <2>5, TurnTold
<1> QED BY <1>3, <1>4

LEMMA ToppedIsReasoned == ASSUME NEW s \in Seq(Given), Topped(s) PROVE Reasoned(s)
<1>1. 1 \in DOMAIN s
  BY DEF Topped
<1> QED BY <1>1 DEF Topped, Reasoned, Reasons

LEMMA NothingTold == <<>> \in Seq(Given) /\ Ordered(<<>>) /\ Unclosed(<<>>)
BY DEF Ordered, Unclosed

\* parseMysqlXml and its callbacks.
LEMMA ParserTold ==
    ASSUME TypeOK, ToldInv, NEW c \in Call, ParserTurn(c)
    PROVE  ToldInv'
<1>1. /\ CallTold(c) /\ told[c] \in Seq(Given) /\ told \in [Call -> Seq(Given)] /\ Ordered(told[c])
      /\ c \in headed <=> c \in known
      /\ kind[c] \in Queries
      /\ kind[c] = "query" => told[c] = <<>>
  BY DEF ToldInv, CallTold, Shows, ParserTurn, ParseBegins, OnColumns, OnRow, ParseEnds, ParseFails, Turn
<1>2. Shows(c) => TellsAt(query[c], told[c], c \notin abandoned, c \in known)
  BY <1>1 DEF CallTold
<1>3. ASSUME NEW from \in {"got", "parsing"}, NEW to \in {"parsing", "parsed", "failed"}, Turn(c, from, to),
             UNCHANGED shownVars, from = "got" => to # "parsed", from = "parsing" => to # "parsing",
             to = "parsed" => c \in known
      PROVE  ToldInv'
  <2>1. told' = [told EXCEPT ![c] = told[c]] /\ known' = known /\ headed' = headed
    BY <1>1, <1>3 DEF shownVars
  <2>2. Shows(c) => TellsAt(to, told[c], c \notin abandoned, c \in known)
    <3>1. query[c] = from
      BY <1>3 DEF Turn
    <3> QED BY <1>2, <1>3, <3>1 DEF TellsAt
  <2> QED BY <1>1, <1>3, <2>1, <2>2, TurnTold
<1>4. CASE ParseBegins(c) \/ ParseEnds(c) \/ ParseFails(c)
  BY <1>3, <1>4 DEF ParseBegins, ParseEnds, ParseFails
<1>5. CASE OnColumns(c)
  <2>1. /\ Turn(c, "parsing", "parsing") /\ c \notin known /\ Gives(c, "columns") /\ query[c] = "parsing"
        /\ known' = known \cup {c} /\ headed' = headed \cup {c}
    BY <1>5 DEF OnColumns, Turn
  <2>2. Shows(c) => told[c] = <<>>
    BY <1>2, <2>1 DEF TellsAt
  <2> DEFINE t == Append(told[c], "columns")
  <2>3. told[c] = <<>> => Unclosed(t) /\ Topped(t)
    BY <1>1, NothingTold, GivesOne DEF Given, Closing
  <2>4. told[c] = <<>> => TellsAt("parsing", t, TRUE, TRUE)
    BY <2>3 DEF TellsAt
  <2>5. told[c] = <<>> => TellsAt("parsing", told[c], FALSE, TRUE)
    BY NothingTold DEF TellsAt
  <2>6. (c \in known') = TRUE
    BY <2>1
  <2>7. told[c] = <<>> => Unclosed(told[c])
    BY NothingTold
  <2> HIDE DEF t
  <2>8. "columns" \in Given
    BY DEF Given
  <2> QED BY <1>1, <2>1, <2>2, <2>4, <2>5, <2>6, <2>7, <2>8, GivesTold DEF t
<1>6. CASE OnRow(c)
  <2>1. /\ Turn(c, "parsing", "parsing") /\ c \in known /\ Gives(c, "row") /\ query[c] = "parsing"
        /\ known' = known /\ headed' = headed
    BY <1>6 DEF OnRow, Turn
  <2>2. Shows(c) => Unclosed(told[c]) /\ (c \notin abandoned => Topped(told[c]))
    BY <1>2, <2>1 DEF TellsAt
  <2> DEFINE t == Append(told[c], "row")
  <2>3. Shows(c) /\ c \notin abandoned => Unclosed(t) /\ Topped(t)
    BY <1>1, <2>2, GivesOne DEF Given, Closing
  <2>4. Shows(c) /\ c \notin abandoned => TellsAt("parsing", t, TRUE, TRUE)
    BY <2>3 DEF TellsAt
  <2>5. Shows(c) => TellsAt("parsing", told[c], FALSE, TRUE)
    BY <2>2 DEF TellsAt
  <2>6. (c \in known') = TRUE
    BY <2>1
  <2> HIDE DEF t
  <2>8. "row" \in Given
    BY DEF Given
  <2> QED BY <1>1, <2>1, <2>2, <2>4, <2>5, <2>6, <2>8, GivesTold DEF t
<1> QED BY <1>4, <1>5, <1>6 DEF ParserTurn

\* What stream, readQuery and query do with the result or the error.
LEMMA DriverTold ==
    ASSUME TypeOK, ToldInv, NEW c \in Call, DriverTurn(c)
    PROVE  ToldInv'
<1>1. /\ CallTold(c) /\ told[c] \in Seq(Given) /\ told \in [Call -> Seq(Given)] /\ Ordered(told[c])
      /\ c \in headed <=> c \in known
      /\ kind[c] = "query" => told[c] = <<>>
      /\ UNCHANGED <<known, headed>>
  BY DEF ToldInv, CallTold, Shows, DriverTurn, Announce, Inform, End, Catch, Done
<1>2. Shows(c) => TellsAt(query[c], told[c], c \notin abandoned, c \in known)
  BY <1>1 DEF CallTold
<1>3. ASSUME NEW from \in {"parsed", "shown"}, NEW to \in {"shown", "ending"}, Turn(c, from, to),
             told' = told, from = "parsed" <=> to = "shown"
      PROVE  ToldInv'
  <2>1. told' = [told EXCEPT ![c] = told[c]] /\ query[c] = from
    BY <1>1, <1>3 DEF Turn
  <2>2. ASSUME Shows(c) PROVE TellsAt(to, told[c], c \notin abandoned, c \in known)
    <3>1. c \in known /\ Unclosed(told[c]) /\ (c \notin abandoned => Topped(told[c]))
      BY <1>2, <1>3, <2>1, <2>2 DEF TellsAt
    <3>2. c \notin abandoned => Reasoned(told[c])
      BY <1>1, <3>1, ToppedIsReasoned
    <3> QED BY <1>3, <3>1, <3>2 DEF TellsAt
  <2> QED BY <1>1, <1>3, <2>1, <2>2, TurnTold
<1>4. ASSUME NEW from \in {"shown", "failed", "ending"}, NEW to \in {"ending", "over"}, Turn(c, from, to),
             NEW a \in {"info", "error", "done", "end", "destroy"}, Gives(c, a),
             to = "over" <=> a \in Closing, from = "failed" => a \in Reasons
      PROVE  ToldInv'
  <2> DEFINE t == Append(told[c], a)
  <2>1. query[c] = from /\ a \in Given /\ a \notin {"columns", "row"}
    BY <1>4 DEF Turn, Given
  <2>2. Shows(c) => Unclosed(told[c])
    BY <1>2, <1>4, <2>1 DEF TellsAt
  <2>3. Shows(c) /\ c \notin abandoned => Reasoned(told[c]) \/ a \in Reasons
    BY <1>1, <1>2, <1>4, <2>1, ToppedIsReasoned DEF TellsAt
  <2>4. Shows(c) /\ c \notin abandoned =>
          Reasoned(t) /\ (to = "over" => Closed(t)) /\ (to # "over" => Unclosed(t))
    BY <1>1, <1>4, <2>1, <2>2, <2>3, GivesOne
  <2> HIDE DEF t
  <2>5. Shows(c) /\ c \notin abandoned => TellsAt(to, t, TRUE, c \in known)
    BY <1>4, <2>4 DEF TellsAt
  <2>6. Shows(c) => TellsAt(to, told[c], FALSE, c \in known)
    BY <1>4, <2>2 DEF TellsAt
  <2> QED BY <1>1, <1>4, <2>1, <2>2, <2>5, <2>6, GivesTold DEF t
<1>5. CASE Announce(c)
  <2>1. Turn(c, "parsed", "shown") /\ query[c] = "parsed" /\ kind[c] \in Queries
    BY <1>5 DEF Announce, Turn
  <2>2. Shows(c) => c \in headed
    BY <1>1, <1>2, <2>1 DEF TellsAt
  <2>3. told' = told
    BY <1>5, <2>1, <2>2 DEF Announce, Gives, Shows
  <2> QED BY <1>3, <2>1, <2>3
<1>6. CASE Inform(c)
  BY <1>3, <1>4, <1>6 DEF Inform, Closing
<1>7. CASE End(c)
  BY <1>4, <1>7 DEF End, Closing
<1>8. CASE Catch(c)
  BY <1>4, <1>8 DEF Catch, Closing, Reasons
<1>9. CASE Done(c)
  BY <1>4, <1>9 DEF Done, Closing
<1> QED BY <1>5, <1>6, <1>7, <1>8, <1>9 DEF DriverTurn

\* A call begins: nothing was given to it.
LEMMA BeginTold ==
    ASSUME TypeOK, LoadsInv, AbortInv, ToldInv, NEW c \in Call, NEW h \in Handle, Calls(c, h)
    PROVE  ToldInv'
<1> DEFINE Begins(k) ==
         /\ Begin(c, h, k)
         /\ \A d \in Call \ {c} : at'[d] = at[d] /\ waitsFor'[d] = waitsFor[d] /\ query'[d] = query[d]
         /\ k \in Analyses => at'[c] \in {"waiting", "answered", "done"}
         /\ k \in Queries => /\ at'[c] = "waiting" /\ waitsFor' = waitsFor
                             /\ query'[c] \in {"asked", "failed"}
<1>1. PICK k \in Analyses \cup Queries : Begins(k)
  <2>1. ASSUME NEW k \in Queries, StartQuery(c, h, k)
        PROVE  Begins(k)
    BY <2>1 DEF StartQuery, CacheKept, TypeOK, CacheTypeOK
  <2>2. ASSUME NEW k \in Analyses, Begin(c, h, k), query' = query,
               \/ GetOrLoad(c, KeyOf[h], k = "full")
               \/ at' = [at EXCEPT ![c] = "done"] /\ waitsFor' = waitsFor
        PROVE  Begins(k)
    <3>1. /\ \A d \in Call \ {c} : at'[d] = at[d] /\ waitsFor'[d] = waitsFor[d]
          /\ at'[c] \in {"waiting", "answered", "done"}
      BY <2>2 DEF GetOrLoad, Hit, Join, StartLoad, WaitFor, TypeOK, CacheTypeOK
    <3>2. k \notin Queries
      OBVIOUS
    <3> QED BY <2>2, <3>1, <3>2
  <2> HIDE DEF Begins
  <2>3. CASE AnalyseFull(c, h)
    BY <2>2, <2>3 DEF AnalyseFull
  <2>4. CASE AnalyseSingleObject(c, h)
    BY <2>2, <2>4 DEF AnalyseSingleObject
  <2>5. CASE AnalyseIncremental(c, h)
    BY <2>2, <2>5 DEF AnalyseIncremental
  <2> QED BY <2>1, <2>3, <2>4, <2>5 DEF Calls
<1>2. /\ at[c] = "new" /\ kind[c] = "none" /\ query[c] = "none"
      /\ UNCHANGED <<told, known, headed, abandoned>>
      /\ kind'[c] = k /\ \A d \in Call \ {c} : kind'[d] = kind[d]
  BY <1>1 DEF Begin, shownVars, LoadsInv, TypeOK
<1>3. CallTold(c) /\ told[c] = <<>> /\ c \notin known /\ waitsFor[c] = NoCall /\ told \in [Call -> Seq(Given)]
  BY <1>2 DEF ToldInv, CallTold, Shows
<1>4. CallTold(c)'
  <2>1. told'[c] = <<>> /\ c \notin known' /\ c \notin headed'
    BY <1>2, <1>3 DEF CallTold
  <2>2. at'[c] # "new"
    BY <1>1
  <2>4. k \in Queries => TellsAt(query'[c], told'[c], c \notin abandoned', c \in known')
    <3>1. (c \in known') = FALSE
      BY <2>1
    <3>2. k \in Queries => TellsAt(query'[c], <<>>, c \notin abandoned', FALSE)
      BY <1>1, NothingTold DEF TellsAt
    <3> QED BY <2>1, <3>1, <3>2
  <2>5. k \in Queries => (at'[c] = "done" <=> query'[c] = "over") /\ waitsFor'[c] = NoCall
    BY <1>1, <1>3
  <2> QED BY <1>1, <1>2, <2>1, <2>2, <2>4, <2>5, NothingTold DEF CallTold, Shows
<1> QED BY <1>1, <1>2, <1>3, <1>4, OthersTold

\* Steps that give no call anything: only an analysis returns, and a query is
\* moved only to where it may have been given nothing.
LEMMA StillTold ==
    ASSUME TypeOK, ToldInv, NEW c \in Call, UNCHANGED <<told, known, headed, kind, waitsFor>>,
           \A d \in Call : d \in abandoned => d \in abandoned',
           \A d \in Call : d \in abandoned' /\ d \notin abandoned => at[d] # "done",
           \A d \in Call : \/ at'[d] = at[d]
                           \/ kind[d] \notin Queries /\ at[d] # "new" /\ at'[d] # "new",
           \A d \in Call : \/ query'[d] = query[d]
                           \/ /\ query[d] \in {"asked"} \cup Running \/ kind[d] \in Analyses
                              /\ query'[d] \in {"failed", "got"} \cup Running \/ kind[d] \in Analyses
    PROVE  ToldInv'
<1> SUFFICES ASSUME NEW d \in Call PROVE CallTold(d)'
  BY DEF ToldInv
<1>1. CallTold(d) /\ (Shows(d)' <=> Shows(d)) /\ (Shows(d) => kind[d] \in Queries)
  BY DEF ToldInv, Shows
<1>2. ASSUME Shows(d) PROVE TellsAt(query'[d], told'[d], d \notin abandoned', d \in known')
  <2>1. /\ TellsAt(query[d], told[d], d \notin abandoned, d \in known)
        /\ at[d] = "done" <=> query[d] = "over"
    BY <1>1, <1>2 DEF CallTold
  <2>2. CASE query'[d] = query[d]
    BY <2>1, <2>2 DEF TellsAt
  <2>3. CASE query'[d] # query[d]
    <3>1. query[d] \in {"asked"} \cup Running /\ query'[d] \in {"failed", "got"} \cup Running
      BY <1>1, <1>2, <2>3
    <3>2. told[d] = <<>> /\ d \notin known
      BY <2>1, <3>1 DEF TellsAt
    <3> QED BY <3>1, <3>2, NothingTold DEF TellsAt
  <2> QED BY <2>2, <2>3
<1>3. kind[d] \in Queries => at'[d] = at[d] /\ (query'[d] = "over" <=> query[d] = "over")
  OBVIOUS
<1>4. /\ at[d] # "new" => at'[d] # "new"
      /\ at[d] = "new" /\ kind[d] = "none" => at'[d] = "new"
  OBVIOUS
<1> QED BY <1>1, <1>2, <1>3, <1>4 DEF CallTold

LEMMA ToldInductive == DriverInv /\ AbortInv /\ ToldInv /\ [Next]_vars => ToldInv'
<1> SUFFICES ASSUME DriverInv, AbortInv, ToldInv, [Next]_vars PROVE ToldInv'
  OBVIOUS
<1>0. TypeOK /\ LoadsInv
  BY DEF DriverInv
<1>1. ASSUME UNCHANGED <<told, known, headed, kind, waitsFor, at, query, abandoned>>
      PROVE  ToldInv'
  <2> SUFFICES ASSUME NEW c \in Call PROVE CallTold(c)'
    BY <1>1 DEF ToldInv
  <2> QED BY <1>1 DEF ToldInv, CallTold, Shows
<1>2. CASE UNCHANGED vars \/ SchemaChanges \/ (\E k \in Key : CacheExpires(k))
           \/ \E h \in Handle : Connect(h) \/ ConnectThrows(h) \/ Close(h)
  BY <1>1, <1>2 DEF vars, callVars, shownVars, cacheVars, SchemaChanges, CacheExpires, Expires, Connect,
                    ConnectThrows, Close
<1>3. ASSUME NEW c \in Call, NEW h \in Handle, Calls(c, h)
      PROVE  ToldInv'
  BY <1>0, <1>3, BeginTold
<1>4. ASSUME NEW c \in Call, ParserTurn(c) \/ DriverTurn(c)
      PROVE  ToldInv'
  BY <1>0, <1>4, ParserTold, DriverTold
<1>5. ASSUME NEW c \in Call, UNCHANGED <<told, known, headed, kind, waitsFor, at, abandoned>>,
             NEW q \in Positions, query' = [query EXCEPT ![c] = q],
             \/ query[c] \in {"asked"} \cup Running /\ q \in {"failed", "got"} \cup Running
             \/ kind[c] \in Analyses \/ q = query[c]
      PROVE  ToldInv'
  <2>1. \A d \in Call : query'[d] = IF d = c THEN q ELSE query[d]
    BY <1>0, <1>5 DEF TypeOK
  <2> QED BY <1>0, <1>5, <2>1, StillTold
<1>6. ASSUME NEW c \in Call, Sends(c) \/ BrokerReads(c) \/ RemoteReads(c) \/ RunSettles(c)
      PROVE  ToldInv'
  <2>1. UNCHANGED <<told, known, headed, kind, waitsFor, at, abandoned>>
    BY <1>6 DEF Sends, BrokerReads, RemoteReads, RunSettles, RunKept, shownVars, cacheVars
  <2>2. query[c] \in {"asked"} \cup Running /\ \E q \in {"failed", "got"} \cup Running : query' = [query EXCEPT ![c] = q]
    BY <1>6 DEF Sends, BrokerReads, RemoteReads, RunSettles
  <2> QED BY <1>5, <2>1, <2>2
<1>7. ASSUME NEW c \in Call, StreamCloses(c)
      PROVE  ToldInv'
  <2>1. UNCHANGED <<told, known, headed, kind, waitsFor, at, abandoned>>
    BY <1>7 DEF StreamCloses, shownVars, cacheVars
  <2>2. CASE query[c] \in Running
    BY <1>5, <1>7, <2>1, <2>2 DEF StreamCloses
  <2>3. CASE query[c] \notin Running
    BY <1>1, <1>7, <2>1, <2>3 DEF StreamCloses
  <2> QED BY <2>2, <2>3
<1>8. ASSUME NEW c \in Call, LoadQuery(c) \/ LoadEnds(c)
      PROVE  ToldInv'
  <2>1. UNCHANGED <<told, known, headed, kind, waitsFor, at, abandoned>>
    BY <1>8 DEF LoadQuery, LoadEnds, LoaderRuns, LoadFails, Store, shownVars
  <2>2. kind[c] \in Analyses
    BY <1>0, <1>8 DEF LoadQuery, LoadEnds, LoadsInv, Active
  <2>3. query' = query \/ \E q \in {"asked", "over"} : query' = [query EXCEPT ![c] = q]
    BY <1>8 DEF LoadQuery, LoadEnds
  <2> QED BY <1>1, <1>5, <2>1, <2>2, <2>3
<1>9. ASSUME NEW c \in Call, Abandon(c)
      PROVE  ToldInv'
  <2>1. /\ UNCHANGED <<told, known, headed, kind, waitsFor, at, query>>
        /\ abandoned' = abandoned \cup {c} /\ at[c] = "waiting"
    BY <1>9 DEF Abandon, shownVars, cacheVars
  <2> QED BY <1>0, <2>1, StillTold
<1>10. ASSUME NEW c \in Call, LoadSettles(c)
      PROVE  ToldInv'
  <2>1. /\ load[c] \in {"stored", "failed"}
        /\ at' = [d \in Call |-> IF d \in Waiting(c) THEN "answered" ELSE at[d]]
        /\ UNCHANGED <<told, known, headed, kind, waitsFor, query, abandoned>>
    BY <1>10 DEF LoadSettles, Finally, Settle, callVars, shownVars
  <2>2. ASSUME NEW d \in Call, at'[d] # at[d]
        PROVE  kind[d] \notin Queries /\ at[d] = "waiting" /\ at'[d] = "answered"
    <3>1. d \in Waiting(c) /\ at'[d] = "answered"
      BY <2>1, <2>2
    <3>2. at[d] = "waiting" /\ waitsFor[d] = c /\ c # NoCall
      BY <3>1, CacheAssumption DEF Waiting
    <3> QED BY <3>1, <3>2 DEF ToldInv, CallTold
  <2> QED BY <1>0, <2>1, <2>2, StillTold
<1>11. ASSUME NEW c \in Call, Resume(c)
      PROVE  ToldInv'
  <2>1. /\ at[c] = "answered" /\ at' = [at EXCEPT ![c] = "done"]
        /\ UNCHANGED <<told, known, headed, kind, waitsFor, query, abandoned>>
    BY <1>11 DEF Resume, callVars, shownVars
  <2>2. kind[c] \notin Queries
    BY <2>1 DEF ToldInv, CallTold
  <2>3. \A d \in Call : at'[d] = at[d] \/ (d = c /\ at'[d] = "done")
    BY <1>0, <2>1 DEF TypeOK, CacheTypeOK
  <2> QED BY <1>0, <2>1, <2>2, <2>3, StillTold
<1> QED BY <1>2, <1>3, <1>4, <1>6, <1>7, <1>8, <1>9, <1>10, <1>11 DEF Next, Microtask

\* stream and readQuery of driver.js: in whatever turn the parser, a callback,
\* the run or the consumer ends it, a stream gets its columns once and before
\* its rows, and its end once and last, for any number of rows and of calls.
THEOREM StreamsAreOrderly == Spec => []StreamProtocol
<1>1. Init => AbortInv /\ ToldInv
  <2> SUFFICES ASSUME Init PROVE ToldInv
    BY DEF Init, AbortInv
  <2>1. \A c \in Call : /\ told[c] = <<>> /\ at[c] = "new" /\ kind[c] = "none"
                        /\ waitsFor[c] = NoCall /\ c \notin known /\ c \notin headed
    BY DEF Init, CacheInit
  <2>2. told \in [Call -> Seq(Given)]
    BY NothingTold DEF Init
  <2> QED BY <2>1, <2>2, NothingTold DEF ToldInv, CallTold, Shows
<1>2. DriverInv /\ AbortInv /\ ToldInv /\ [Next]_vars => AbortInv' /\ ToldInv'
  BY AbortInductive, ToldInductive
<1>3. ToldInv => StreamProtocol
  <2> SUFFICES ASSUME ToldInv, NEW c \in Call PROVE StreamProtocol!(c)
    BY DEF StreamProtocol
  <2>1. CallTold(c) /\ Ordered(told[c])
    BY DEF ToldInv, CallTold
  <2>2. CASE at[c] = "done" /\ Shows(c) /\ c \notin abandoned
    <3>1. query[c] = "over" /\ TellsAt(query[c], told[c], TRUE, c \in known)
      BY <2>1, <2>2 DEF CallTold, Shows
    <3>2. Closed(told[c]) /\ Reasoned(told[c])
      BY <3>1 DEF TellsAt
    <3> QED BY <2>1, <2>2, <3>2 DEF Ordered, Closed, Reasoned, Reasons, Closing, Shows
  <2>3. CASE ~(at[c] = "done" /\ Shows(c) /\ c \notin abandoned)
    <3>1. Unclosed(told[c])
      <4>1. CASE Shows(c)
        <5>1. query[c] # "over" \/ c \in abandoned
          BY <2>1, <2>3, <4>1 DEF CallTold, Shows
        <5> QED BY <2>1, <4>1, <5>1 DEF CallTold, TellsAt
      <4>2. CASE ~Shows(c)
        BY <2>1, <4>2, NothingTold DEF CallTold
      <4> QED BY <4>1, <4>2
    <3>2. {i \in DOMAIN told[c] : told[c][i] \in Closing} = {}
      BY <3>1 DEF Unclosed
    <3> QED BY <2>1, <2>3, <3>2 DEF Ordered, Closing, Shows
  <2> QED BY <2>2, <2>3
<1> QED BY <1>1, <1>2, <1>3, DriverHolds, PTL DEF Spec
=============================================================================
