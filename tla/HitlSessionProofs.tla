------------------------- MODULE HitlSessionProofs -------------------------
(***************************************************************************)
(* Theorems about HitlSession, for any sessions, keys, tokens,             *)
(* environments and size of the cache: the gate, the reasons of a refusal, *)
(* and the record of every link.                                           *)
(***************************************************************************)
EXTENDS HitlSession, TLAPS

\* What a run has to do with its session's token and the task's streams.
GateOf(s) == Inside(s) /\ ~env.LOCAL_DEV => Entitled(s) /\ env.crypto
RefusalOf(s) ==
    At(s, "refused") /\ env.crypto /\ Entitled(s) =>
        s \in expired \/ token[s].kid \in failed
LinkOf(s) == At(s, "show") \/ At(s, "link") => run[s].record # Absent
StreamOf(s) == At(s, "put") => stream

\* A thread waits for a key only where a token is verified, and for a token
\* that nothing but the key can refuse any more.
FetchOf(s) ==
    run[s] # Absent /\ run[s].fetching =>
        run[s].at \in Checks /\ ~env.LOCAL_DEV /\ ~Refused(s)

\* From the name to the record and after it.
Recording(s) == run[s].at \in {"emit", "create", "put"} \/ run[s].record # Absent
NamedOf(s) ==
    run[s] # Absent /\ Recording(s) /\ run[s].user = "unknown" =>
        ~token[s].email \/ s \in expired \/ token[s].kid \in failed

SessionInv(s) ==
    /\ GateOf(s) /\ RefusalOf(s) /\ LinkOf(s) /\ StreamOf(s) /\ FetchOf(s)
    /\ NamedOf(s)

\* A key is kept for its own kid, and as missing only after one of its fetches
\* has failed.
CacheInv ==
    \A k \in Kids :
        /\ cache[k] \in {Absent, "none", k}
        /\ cache[k] = "none" => k \in failed

IInv ==
    /\ TypeOK /\ CacheInv
    /\ flag => stream
    /\ \A s \in Sessions : SessionInv(s)

-----------------------------------------------------------------------------
(* What a step leaves alone.                                               *)

\* A session without a run keeps every promise.
LEMMA NoRun ==
    ASSUME NEW s \in Sessions, run[s] = Absent
    PROVE  SessionInv(s)
BY DEF SessionInv, GateOf, RefusalOf, LinkOf, StreamOf, FetchOf, NamedOf, Recording, Inside, At

\* A run that a step leaves alone keeps them while its token stays, expires or
\* has its key fail.
LEMMA FrameAt ==
    ASSUME NEW s \in Sessions, SessionInv(s),
           run'[s] = run[s], token'[s] = token[s], env' = env,
           s \in expired => s \in expired',
           failed \subseteq failed', stream => stream'
    PROVE  SessionInv(s)'
<1>1. /\ At(s, "refused")' = At(s, "refused")
      /\ At(s, "show")' = At(s, "show")
      /\ At(s, "link")' = At(s, "link")
      /\ At(s, "put")' = At(s, "put")
  BY DEF At
<1>2. Inside(s)' = Inside(s)  BY DEF Inside
<1>3. Entitled(s)' = Entitled(s)  BY DEF Entitled
<1>4. Refused(s)' = Refused(s)  BY DEF Refused
<1>5. GateOf(s)'  BY <1>2, <1>3 DEF SessionInv, GateOf
<1>6. RefusalOf(s)'  BY <1>1, <1>3 DEF SessionInv, RefusalOf
<1>7. LinkOf(s)'  BY <1>1 DEF SessionInv, LinkOf
<1>8. StreamOf(s)'  BY <1>1 DEF SessionInv, StreamOf
<1>9. FetchOf(s)'  BY <1>4 DEF SessionInv, FetchOf
<1>10. NamedOf(s)'  BY DEF SessionInv, NamedOf, Recording
<1> QED  BY <1>5, <1>6, <1>7, <1>8, <1>9, <1>10 DEF SessionInv

\* A step of one session's script.
LEMMA Others ==
    ASSUME IInv, NEW s \in Sessions, NEW new,
           run' = [run EXCEPT ![s] = new], token' = token, env' = env,
           expired \subseteq expired', failed \subseteq failed', stream => stream',
           SessionInv(s)'
    PROVE  \A t \in Sessions : SessionInv(t)'
<1> SUFFICES ASSUME NEW t \in Sessions PROVE SessionInv(t)'
  OBVIOUS
<1>1. CASE t = s  BY <1>1
<1>2. CASE t # s
  <2>1. run'[t] = run[t]  BY <1>2 DEF IInv, TypeOK
  <2> QED  BY <2>1, FrameAt DEF IInv
<1> QED  BY <1>1, <1>2

\* A run has the record of a run.
LEMMA RunTyped ==
    ASSUME TypeOK, NEW s \in Sessions, run[s] # Absent
    PROVE  run[s] \in Runs
BY DEF TypeOK

LEMMA TokenTyped ==
    ASSUME TypeOK, NEW s \in Sessions
    PROVE  token[s] \in TokenShape
<1>1. token[s] \in Tokens  BY DEF TypeOK
<1> QED  BY <1>1, TokensAssumption

-----------------------------------------------------------------------------
(* The verification of a token.                                            *)

\* What the script does with an answer: it gets past the gate only with a
\* token that deserves it, and is turned away only for a reason.
LEMMA AnswerKeeps ==
    ASSUME IInv, NEW s \in Sessions, NEW verified \in BOOLEAN,
           run[s] # Absent, run[s].at \in Checks, Answer(s, verified),
           token' = token, env' = env, expired' = expired,
           failed \subseteq failed', stream' = stream,
           ~env.LOCAL_DEV /\ verified => ~Refused(s) /\ token[s].signedBy = token[s].kid,
           ~verified => Refused(s) \/ token[s].signedBy # token[s].kid
                            \/ s \in expired \/ token[s].kid \in failed'
    PROVE  /\ run' \in [Sessions -> Runs \cup {Absent}]
           /\ \A t \in Sessions : SessionInv(t)'
<1> DEFINE next == CASE run[s].at = "caption" -> "gate"
                     [] run[s].at = "gate" ->
                           IF ~MayEnter(s, verified) THEN "refused"
                           ELSE IF run[s].page = "compliance" THEN "lookup" ELSE "open"
                     [] run[s].at = "name" -> "emit"
                     [] run[s].at = "show" -> "link"
           user == IF run[s].at # "name" THEN run[s].user
                   ELSE IF env.LOCAL_DEV \/ (verified /\ token[s].email) THEN "known"
                   ELSE "unknown"
           new == [run[s] EXCEPT !.at = next, !.user = user, !.fetching = FALSE]
<1>1. run' = [run EXCEPT ![s] = new]  BY DEF Answer
<1>2. run[s] \in Runs  BY RunTyped DEF IInv
<1>3. next \in {"gate", "refused", "lookup", "open", "emit", "link"}
  BY DEF Checks
<1>4. user \in {"known", "unknown"}  BY <1>2 DEF Runs
<1> HIDE DEF next, user
<1>5. new \in Runs  BY <1>2, <1>3, <1>4 DEF Runs, Ended, Busy, Checks
<1>6. run'[s] = new /\ run' \in [Sessions -> Runs \cup {Absent}]
  BY <1>1, <1>5 DEF IInv, TypeOK
<1>7. /\ new.at = next /\ new.page = run[s].page /\ new.user = user
      /\ new.record = run[s].record /\ new.fetching = FALSE
  BY <1>2 DEF Runs
<1>8. GateOf(s)'
  <2> SUFFICES ASSUME Inside(s)', ~env.LOCAL_DEV
               PROVE  Entitled(s)' /\ env.crypto
    BY DEF GateOf
  <2>1. next \in {"open", "lookup", "emit", "link"}  BY <1>3, <1>6, <1>7 DEF Inside
  <2>2. Entitled(s)' = Entitled(s)  BY <1>6, <1>7 DEF Entitled
  <2>3. CASE run[s].at = "gate"
    <3>1. MayEnter(s, verified)  BY <2>1, <2>3 DEF next
    <3> QED  BY <2>2, <3>1 DEF MayEnter, Refused, Entitled
  <2>4. CASE run[s].at \in {"name", "show"}
    BY <2>2, <2>4 DEF IInv, SessionInv, GateOf, Inside
  <2>5. run[s].at # "caption"  BY <2>1 DEF next
  <2> QED  BY <2>3, <2>4, <2>5 DEF Checks
<1>9. RefusalOf(s)'
  <2> SUFFICES ASSUME At(s, "refused")', env.crypto, Entitled(s)'
               PROVE  s \in expired \/ token[s].kid \in failed'
    BY DEF RefusalOf
  <2>1. next = "refused"  BY <1>6, <1>7 DEF At
  <2>2. run[s].at = "gate"  BY <2>1 DEF next, Checks
  <2>3. ~MayEnter(s, verified)  BY <2>1, <2>2 DEF next
  <2>4. Entitled(s)  BY <1>6, <1>7 DEF Entitled
  <2>5. ~verified  BY <2>3, <2>4 DEF MayEnter, Entitled
  <2> QED  BY <2>4, <2>5 DEF Entitled, Refused
<1>10. LinkOf(s)'
  <2> SUFFICES ASSUME next \in {"show", "link"} PROVE run[s].record # Absent
    BY <1>6, <1>7 DEF LinkOf, At
  <2>1. run[s].at = "show"  BY <1>3 DEF next, Checks
  <2> QED  BY <2>1 DEF IInv, SessionInv, LinkOf, At
<1>11. StreamOf(s)' /\ FetchOf(s)'
  BY <1>3, <1>6, <1>7 DEF StreamOf, FetchOf, At
<1>12. NamedOf(s)'
  <2> SUFFICES ASSUME next = "emit" \/ run[s].record # Absent, user = "unknown"
               PROVE  ~token[s].email \/ s \in expired \/ token[s].kid \in failed'
    BY <1>3, <1>6, <1>7 DEF NamedOf, Recording
  <2>1. CASE run[s].at = "name"
    <3>1. ~env.LOCAL_DEV /\ (~verified \/ ~token[s].email)  BY <2>1 DEF user
    <3>2. Inside(s)  BY <2>1 DEF Inside
    <3>3. Entitled(s) /\ env.crypto  BY <3>1, <3>2 DEF IInv, SessionInv, GateOf
    <3> QED  BY <3>1, <3>3 DEF Entitled, Refused
  <2>2. CASE run[s].at # "name"
    <3>1. next # "emit"  BY <2>2 DEF next, Checks
    <3>2. run[s].user = "unknown"  BY <2>2 DEF user
    <3> QED  BY <3>1, <3>2 DEF IInv, SessionInv, NamedOf, Recording
  <2> QED  BY <2>1, <2>2
<1>13. SessionInv(s)'  BY <1>8, <1>9, <1>10, <1>11, <1>12 DEF SessionInv
<1> QED  BY <1>1, <1>6, <1>13, Others

\* The cache stays a cache: only the entry of the kid asked for has a new value.
LEMMA KeptTyped ==
    ASSUME TypeOK, NEW kid \in Kids, NEW result \in {kid, "none"},
           cache' \in Kept(kid, result)
    PROVE  /\ cache' \in [Kids -> Kids \cup {Absent, "none"}]
           /\ \A k \in Kids :
                 cache'[k] = cache[k] \/ cache'[k] = Absent \/ (k = kid /\ cache'[k] = result)
<1>1. cache \in [Kids -> Kids \cup {Absent, "none"}]  BY DEF TypeOK
<1>3. CASE cache' = cache  BY <1>1, <1>3
<1>4. CASE cache' = [cache EXCEPT ![kid] = result]  BY <1>1, <1>4
<1>5. CASE \E k \in Cached : cache' = [cache EXCEPT ![kid] = result, ![k] = Absent]
  <2>1. PICK k \in Cached : cache' = [cache EXCEPT ![kid] = result, ![k] = Absent]
    BY <1>5
  <2>2. k \in Kids  BY <2>1 DEF Cached
  <2> QED  BY <1>1, <2>1, <2>2
<1> QED  BY <1>3, <1>4, <1>5 DEF Kept

-----------------------------------------------------------------------------
(* The steps of a script.                                                  *)

LEMMA VerifyKeeps ==
    ASSUME IInv, NEW s \in Sessions, Verify(s)
    PROVE  IInv'
<1> USE DEF Verify, shared
<1>1. /\ token' = token /\ env' = env /\ expired' = expired /\ cache' = cache
      /\ failed' = failed /\ flag' = flag /\ stream' = stream
  OBVIOUS
<1>2. run[s] \in Runs  BY RunTyped DEF IInv
<1>3. CASE env.LOCAL_DEV /\ Answer(s, TRUE)
  <2>1. /\ run' \in [Sessions -> Runs \cup {Absent}]
        /\ \A t \in Sessions : SessionInv(t)'
    BY <1>1, <1>3, AnswerKeeps
  <2> QED  BY <1>1, <2>1 DEF IInv, TypeOK, CacheInv
<1>4. CASE ~env.LOCAL_DEV /\ Refused(s) /\ Answer(s, FALSE)
  <2>1. /\ run' \in [Sessions -> Runs \cup {Absent}]
        /\ \A t \in Sessions : SessionInv(t)'
    BY <1>1, <1>4, AnswerKeeps
  <2> QED  BY <1>1, <2>1 DEF IInv, TypeOK, CacheInv
<1>5. CASE /\ ~env.LOCAL_DEV /\ ~Refused(s) /\ cache[token[s].kid] # Absent
           /\ Answer(s, Verified(s, cache[token[s].kid]))
  <2> DEFINE key == cache[token[s].kid]
  <2>1. token[s].kid \in Kids
    BY <1>5, TokenTyped DEF Refused, IInv, TokenShape
  <2>2. key \in {"none", token[s].kid} /\ (key = "none" => token[s].kid \in failed)
    BY <1>5, <2>1 DEF IInv, CacheInv
  <2>3. "none" \notin Kids  BY AbsentAssumption
  <2>4. Verified(s, key) \in BOOLEAN  BY DEF Verified
  <2>5. Verified(s, key) => token[s].signedBy = token[s].kid  BY <2>2, <2>3 DEF Verified
  <2>6. ~Verified(s, key) =>
           token[s].signedBy # token[s].kid \/ s \in expired \/ token[s].kid \in failed
    BY <2>1, <2>2 DEF Verified
  <2>7. Answer(s, Verified(s, key))  BY <1>5
  <2> HIDE DEF key
  <2>8. /\ run' \in [Sessions -> Runs \cup {Absent}]
        /\ \A t \in Sessions : SessionInv(t)'
    BY <1>1, <1>5, <2>4, <2>5, <2>6, <2>7, AnswerKeeps
  <2> QED  BY <1>1, <2>8 DEF IInv, TypeOK, CacheInv
<1>6. CASE ~env.LOCAL_DEV /\ ~Refused(s) /\ run' = [run EXCEPT ![s].fetching = TRUE]
  <2> DEFINE new == [run[s] EXCEPT !.fetching = TRUE]
  <2>1. run' = [run EXCEPT ![s] = new]  BY <1>6 DEF IInv, TypeOK
  <2>2. new \in Runs  BY <1>2 DEF Runs
  <2>3. /\ new.at = run[s].at /\ new.page = run[s].page /\ new.record = run[s].record
        /\ new.user = run[s].user
    BY <1>2 DEF Runs
  <2>4. run'[s] = new /\ run' \in [Sessions -> Runs \cup {Absent}]
    BY <2>1, <2>2 DEF IInv, TypeOK
  <2> HIDE DEF new
  <2>5. Inside(s)' => Inside(s)  BY <2>3, <2>4 DEF Inside
  <2>6. Entitled(s)' = Entitled(s)  BY <1>1, <2>3, <2>4 DEF Entitled
  <2>7. GateOf(s)'  BY <1>1, <2>5, <2>6 DEF IInv, SessionInv, GateOf
  <2>8. run[s].at # "refused" /\ run[s].at # "put"  BY DEF Checks
  <2>9. RefusalOf(s)' /\ StreamOf(s)'  BY <2>3, <2>4, <2>8 DEF RefusalOf, StreamOf, At
  <2>10. LinkOf(s)'  BY <2>3, <2>4 DEF IInv, SessionInv, LinkOf, At
  <2>11. FetchOf(s)'  BY <1>1, <1>6, <2>3, <2>4 DEF FetchOf, Refused
  <2>a. NamedOf(s)'  BY <1>1, <2>3, <2>4 DEF IInv, SessionInv, NamedOf, Recording
  <2>12. SessionInv(s)'  BY <2>7, <2>9, <2>10, <2>11, <2>a DEF SessionInv
  <2>13. expired \subseteq expired' /\ failed \subseteq failed' /\ (stream => stream')
    BY <1>1
  <2>14. \A t \in Sessions : SessionInv(t)'
    <3> HIDE DEF Verify, shared
    <3> QED  BY <1>1, <2>1, <2>12, <2>13, Others
  <2> QED  BY <1>1, <2>4, <2>14 DEF IInv, TypeOK, CacheInv
<1> QED  BY <1>3, <1>4, <1>5, <1>6

\* A step that takes a run from one place behind the gate to the next.
LEMMA MoveKeeps ==
    ASSUME IInv, NEW s \in Sessions, NEW place, NEW record,
           run[s] # Absent, run[s].at \in {"lookup", "emit", "create", "put"} \/ run[s].fetching,
           place \in {"name", "stopped", "put", "create", "show"},
           run[s].fetching => place = "stopped",
           run' = [run EXCEPT ![s] = [@ EXCEPT !.at = place, !.fetching = FALSE, !.record = record]],
           record \in {Absent, "log", "stdout"}, place = "show" => record # Absent,
           place = "put" => stream',
           place \in {"put", "create", "show"} => run[s].at \in {"emit", "create", "put"},
           place \in {"name", "stopped"} => record = run[s].record,
           token' = token, env' = env, expired' = expired,
           failed' = failed, stream => stream'
    PROVE  /\ run' \in [Sessions -> Runs \cup {Absent}]
           /\ \A t \in Sessions : SessionInv(t)'
<1> DEFINE new == [run[s] EXCEPT !.at = place, !.fetching = FALSE, !.record = record]
<1>1. run' = [run EXCEPT ![s] = new]  BY DEF IInv, TypeOK
<1>2. run[s] \in Runs  BY RunTyped DEF IInv
<1>3. new \in Runs  BY <1>2 DEF Runs, Busy, Checks, Ended
<1>4. /\ new.at = place /\ new.page = run[s].page /\ new.user = run[s].user
      /\ new.record = record /\ new.fetching = FALSE
  BY <1>2 DEF Runs
<1>5. run'[s] = new /\ run' \in [Sessions -> Runs \cup {Absent}]
  BY <1>1, <1>3 DEF IInv, TypeOK
<1> HIDE DEF new
<1>6. GateOf(s)'
  <2> SUFFICES ASSUME Inside(s)', ~env.LOCAL_DEV PROVE Entitled(s) /\ env.crypto
    BY <1>4, <1>5 DEF GateOf, Entitled
  <2>1. ~run[s].fetching  BY <1>4, <1>5 DEF Inside
  <2>2. Inside(s)  BY <2>1 DEF Inside
  <2> QED  BY <2>2 DEF IInv, SessionInv, GateOf
<1>7. RefusalOf(s)' /\ LinkOf(s)' /\ StreamOf(s)' /\ FetchOf(s)'
  BY <1>4, <1>5 DEF RefusalOf, LinkOf, StreamOf, FetchOf, At
<1>8. NamedOf(s)'
  <2> SUFFICES ASSUME place \in {"emit", "create", "put"} \/ record # Absent,
                      run[s].user = "unknown"
               PROVE  ~token[s].email \/ s \in expired \/ token[s].kid \in failed
    BY <1>4, <1>5 DEF NamedOf, Recording
  <2>1. Recording(s)  BY DEF Recording
  <2> QED  BY <2>1 DEF IInv, SessionInv, NamedOf
<1> QED  BY <1>1, <1>5, <1>6, <1>7, <1>8, Others DEF SessionInv

LEMMA FetchKeeps ==
    ASSUME IInv, NEW s \in Sessions, Fetch(s)
    PROVE  IInv'
<1> DEFINE kid == token[s].kid
<1>1. /\ token' = token /\ env' = env /\ expired' = expired
      /\ flag' = flag /\ stream' = stream
      /\ run[s] # Absent /\ run[s].fetching
  BY DEF Fetch
<1>2. run[s].at \in Checks /\ ~env.LOCAL_DEV /\ ~Refused(s)
  BY <1>1 DEF IInv, SessionInv, FetchOf
<1>3. kid \in Kids  BY <1>2, TokenTyped DEF IInv, Refused, TokenShape
<1>4. Absent # "none" /\ "none" \notin Kids  BY AbsentAssumption
<1>5. ASSUME NEW result \in {kid, "none"}, cache' \in Kept(kid, result),
             failed' = IF result = "none" THEN failed \cup {kid} ELSE failed,
             Answer(s, Verified(s, result))
      PROVE  IInv'
  <2>1. /\ cache' \in [Kids -> Kids \cup {Absent, "none"}]
        /\ \A k \in Kids :
              cache'[k] = cache[k] \/ cache'[k] = Absent \/ (k = kid /\ cache'[k] = result)
    BY <1>3, <1>5, KeptTyped DEF IInv
  <2>2. failed \subseteq failed' /\ failed' \subseteq Kids /\ (result = "none" => kid \in failed')
    BY <1>3, <1>5 DEF IInv, TypeOK
  <2>3. CacheInv'  BY <1>4, <2>1, <2>2 DEF IInv, CacheInv
  <2>4. Verified(s, result) \in BOOLEAN  BY DEF Verified
  <2>5. Verified(s, result) => token[s].signedBy = kid  BY <1>4, <1>5 DEF Verified
  <2>6. ~Verified(s, result) => token[s].signedBy # kid \/ s \in expired \/ kid \in failed'
    BY <1>3, <1>5, <2>2 DEF Verified
  <2>7. /\ run' \in [Sessions -> Runs \cup {Absent}]
        /\ \A t \in Sessions : SessionInv(t)'
    BY <1>1, <1>2, <1>5, <2>2, <2>4, <2>5, <2>6, AnswerKeeps
  <2> QED  BY <1>1, <2>1, <2>2, <2>3, <2>7 DEF IInv, TypeOK
<1>6. CASE /\ run' = [run EXCEPT ![s] = [@ EXCEPT !.at = "stopped", !.fetching = FALSE]]
           /\ UNCHANGED <<cache, failed>>
  <2>1. run[s] \in Runs  BY <1>1, RunTyped DEF IInv
  <2>2. run' = [run EXCEPT ![s] = [@ EXCEPT !.at = "stopped", !.fetching = FALSE,
                                            !.record = run[s].record]]
    BY <1>6, <2>1 DEF Runs, IInv, TypeOK
  <2>3. run[s].record \in {Absent, "log", "stdout"}  BY <2>1 DEF Runs
  <2>4. /\ run' \in [Sessions -> Runs \cup {Absent}]
        /\ \A t \in Sessions : SessionInv(t)'
    <3>1. /\ "stopped" \in {"name", "stopped", "put", "create", "show"}
          /\ "stopped" \notin {"put", "create", "show"}
          /\ "stopped" # "show" /\ "stopped" # "put"
          /\ failed' = failed /\ (stream => stream')
      BY <1>1, <1>6
    <3> QED  BY <1>1, <2>2, <2>3, <3>1, MoveKeeps
  <2> QED  BY <1>1, <1>6, <2>4 DEF IInv, TypeOK, CacheInv
<1> QED  BY <1>5, <1>6 DEF Fetch

\* Where a run that is no longer at a check stands, it fetches nothing.
LEMMA NoFetch ==
    ASSUME IInv, NEW s \in Sessions, run[s] # Absent, run[s].at \notin Checks
    PROVE  /\ run[s] \in Runs
           /\ run[s].fetching = FALSE
<1>1. run[s] \in Runs  BY RunTyped DEF IInv
<1>2. ~run[s].fetching  BY DEF IInv, SessionInv, FetchOf
<1> QED  BY <1>1, <1>2 DEF Runs

\* Behind the gate: a step that only moves the run, and one that says where
\* its record has gone.
LEMMA PlainMove ==
    ASSUME IInv, NEW s \in Sessions, NEW place, Move(s, place),
           run[s] # Absent, run[s].at \in {"lookup", "emit", "create", "put"},
           place \in {"name", "stopped", "put", "create"}, place = "put" => stream',
           place \in {"put", "create"} => run[s].at # "lookup",
           token' = token, env' = env, expired' = expired,
           failed' = failed, stream => stream'
    PROVE  /\ run' \in [Sessions -> Runs \cup {Absent}]
           /\ \A t \in Sessions : SessionInv(t)'
<1>1. run[s] \in Runs /\ run[s].fetching = FALSE  BY NoFetch DEF Checks
<1>2. run' = [run EXCEPT ![s] = [@ EXCEPT !.at = place, !.fetching = FALSE,
                                          !.record = run[s].record]]
  <2>1. [run[s] EXCEPT !.at = place] =
           [run[s] EXCEPT !.at = place, !.fetching = FALSE, !.record = run[s].record]
    BY <1>1 DEF Runs
  <2>2. run' = [run EXCEPT ![s] = [run[s] EXCEPT !.at = place]]
    BY DEF Move
  <2> QED  BY <2>1, <2>2
<1>3. run[s].record \in {Absent, "log", "stdout"}  BY <1>1 DEF Runs
<1> QED  BY <1>1, <1>2, <1>3, MoveKeeps

LEMMA RecordMove ==
    ASSUME IInv, NEW s \in Sessions, NEW place \in {"log", "stdout"}, Recorded(s, place),
           run[s] # Absent, run[s].at \in {"emit", "create", "put"},
           token' = token, env' = env, expired' = expired,
           failed' = failed, stream => stream'
    PROVE  /\ run' \in [Sessions -> Runs \cup {Absent}]
           /\ \A t \in Sessions : SessionInv(t)'
<1>1. run[s] \in Runs /\ run[s].fetching = FALSE  BY NoFetch DEF Checks
<1>2. run' = [run EXCEPT ![s] = [@ EXCEPT !.at = "show", !.fetching = FALSE, !.record = place]]
  <2>1. [run[s] EXCEPT !.at = "show", !.record = place] =
           [run[s] EXCEPT !.at = "show", !.fetching = FALSE, !.record = place]
    BY <1>1 DEF Runs
  <2>2. run' = [run EXCEPT ![s] = [run[s] EXCEPT !.at = "show", !.record = place]]
    BY DEF Recorded
  <2> QED  BY <2>1, <2>2
<1>3. place # Absent  BY AbsentAssumption
<1> QED  BY <1>1, <1>2, <1>3, MoveKeeps

LEMMA PageKeeps ==
    ASSUME IInv, NEW s \in Sessions, Lookup(s) \/ Emit(s) \/ EnsureStream(s) \/ Put(s)
    PROVE  IInv'
<1>1. /\ token' = token /\ env' = env /\ expired' = expired
      /\ cache' = cache /\ failed' = failed
  BY DEF Lookup, Emit, EnsureStream, Put, shared
<1>2. run[s] # Absent  BY DEF Lookup, Emit, EnsureStream, Put, At
<1>3. /\ flag' => stream'
      /\ stream => stream'
      /\ flag' \in BOOLEAN /\ stream' \in BOOLEAN
  <2>1. CASE flag' = flag /\ stream' = stream  BY <2>1 DEF IInv, TypeOK
  <2>2. CASE EnsureStream(s)
    <3>1. CASE flag' = TRUE /\ stream' = TRUE  BY <3>1
    <3>2. CASE flag' = flag /\ stream' \in {stream, TRUE}  BY <3>2 DEF IInv, TypeOK
    <3> QED  BY <2>2, <3>1, <3>2 DEF EnsureStream
  <2> QED  BY <2>1, <2>2 DEF Lookup, Emit, Put, shared
<1>4. /\ run' \in [Sessions -> Runs \cup {Absent}]
      /\ \A t \in Sessions : SessionInv(t)'
  <2>1. CASE Lookup(s)
    <3>1. PICK place \in {"name", "stopped"} : Move(s, place)  BY <2>1 DEF Lookup
    <3> QED  BY <1>1, <1>2, <1>3, <2>1, <3>1, PlainMove DEF Lookup, At
  <2>2. CASE Emit(s)
    <3>1. run[s].at = "emit"  BY <2>2 DEF Emit, At
    <3>2. CASE Recorded(s, "stdout")  BY <1>1, <1>2, <1>3, <3>1, <3>2, RecordMove
    <3>3. CASE flag /\ Move(s, "put")
      <4>1. stream'  BY <1>3, <3>3 DEF IInv
      <4> QED  BY <1>1, <1>2, <1>3, <3>1, <3>3, <4>1, PlainMove
    <3>4. CASE Move(s, "create")  BY <1>1, <1>2, <1>3, <3>1, <3>4, PlainMove
    <3> QED  BY <2>2, <3>2, <3>3, <3>4 DEF Emit
  <2>3. CASE EnsureStream(s)
    <3>1. run[s].at = "create"  BY <2>3 DEF EnsureStream, At
    <3>2. CASE Recorded(s, "stdout")  BY <1>1, <1>2, <1>3, <3>1, <3>2, RecordMove
    <3>3. CASE stream' = TRUE /\ Move(s, "put")
      BY <1>1, <1>2, <1>3, <3>1, <3>3, PlainMove
    <3> QED  BY <2>3, <3>2, <3>3 DEF EnsureStream
  <2>4. CASE Put(s)
    <3>1. run[s].at = "put"  BY <2>4 DEF Put, At
    <3>2. PICK place \in {"log", "stdout"} : Recorded(s, place)  BY <2>4 DEF Put
    <3> QED  BY <1>1, <1>2, <1>3, <3>1, <3>2, RecordMove
  <2> QED  BY <2>1, <2>2, <2>3, <2>4
<1> QED  BY <1>1, <1>3, <1>4 DEF IInv, TypeOK, CacheInv

-----------------------------------------------------------------------------
(* Sessions and the task.                                                  *)

LEMMA ConnectKeeps ==
    ASSUME IInv, NEW s \in Sessions, Connect(s)
    PROVE  IInv'
<1>1. /\ env' = env /\ cache' = cache /\ failed' = failed
      /\ flag' = flag /\ stream' = stream
      /\ expired' = expired \cup {s} \/ expired' = expired \ {s}
  BY DEF Connect, shared
<1>2. PICK t \in Tokens : token' = [token EXCEPT ![s] = t]  BY DEF Connect
<1>3. run' = [run EXCEPT ![s] = Absent]  BY DEF Connect
<1>4. TypeOK'  BY <1>1, <1>2, <1>3 DEF IInv, TypeOK
<1>5. ASSUME NEW u \in Sessions PROVE SessionInv(u)'
  <2>1. CASE u = s
    <3>1. run'[u] = Absent  BY <1>3, <2>1 DEF IInv, TypeOK
    <3> QED  BY <3>1 DEF SessionInv, GateOf, RefusalOf, LinkOf, StreamOf, FetchOf, NamedOf, Recording, Inside, At
  <2>2. CASE u # s
    <3>1. run'[u] = run[u] /\ token'[u] = token[u]
      BY <1>2, <1>3, <2>2 DEF IInv, TypeOK
    <3>2. u \in expired => u \in expired'  BY <1>1, <2>2
    <3> QED  BY <1>1, <3>1, <3>2, FrameAt DEF IInv
  <2> QED  BY <2>1, <2>2
<1> QED  BY <1>1, <1>4, <1>5 DEF IInv, CacheInv

LEMMA ExpireKeeps ==
    ASSUME IInv, NEW s \in Sessions, TokenExpires(s)
    PROVE  IInv'
<1>1. /\ env' = env /\ token' = token /\ run' = run /\ cache' = cache
      /\ failed' = failed /\ flag' = flag /\ stream' = stream
      /\ expired' = expired \cup {s}
  BY DEF TokenExpires, shared
<1>2. TypeOK'  BY <1>1 DEF IInv, TypeOK
<1>3. \A u \in Sessions : SessionInv(u)'  BY <1>1, FrameAt DEF IInv
<1> QED  BY <1>1, <1>2, <1>3 DEF IInv, CacheInv

LEMMA VisitKeeps ==
    ASSUME IInv, NEW s \in Sessions, NEW page \in Pages, Visit(s, page)
    PROVE  IInv'
<1> DEFINE new == [page |-> page, at |-> IF page = "home" THEN "caption" ELSE "gate",
                   fetching |-> FALSE, user |-> "unknown", record |-> Absent]
<1>1. /\ env' = env /\ token' = token /\ expired' = expired /\ cache' = cache
      /\ failed' = failed /\ flag' = flag /\ stream' = stream
      /\ run' = [run EXCEPT ![s] = new]
  BY DEF Visit, shared
<1>2. new \in Runs  BY DEF Runs, Busy, Checks
<1>3. new.at \in {"caption", "gate"} /\ new.fetching = FALSE /\ new.record = Absent
  OBVIOUS
<1> HIDE DEF new
<1>4. run'[s] = new  BY <1>1 DEF IInv, TypeOK
<1>5. SessionInv(s)'
  BY <1>3, <1>4
  DEF SessionInv, GateOf, RefusalOf, LinkOf, StreamOf, FetchOf, NamedOf, Recording, Inside, At
<1>6. expired \subseteq expired' /\ failed \subseteq failed' /\ (stream => stream')
  BY <1>1
<1>7. \A t \in Sessions : SessionInv(t)'  BY <1>1, <1>5, <1>6, Others
<1>8. TypeOK'  BY <1>1, <1>2 DEF IInv, TypeOK
<1> QED  BY <1>1, <1>7, <1>8 DEF IInv, CacheInv

LEMMA RestartKeeps ==
    ASSUME IInv, TaskRestart
    PROVE  IInv'
<1>1. TypeOK'  BY DEF TaskRestart, IInv, TypeOK
<1>2. CacheInv'  BY AbsentAssumption DEF TaskRestart, CacheInv
<1>3. ASSUME NEW s \in Sessions PROVE SessionInv(s)'
  <2>1. run'[s] = Absent  BY DEF TaskRestart
  <2> QED  BY <2>1 DEF SessionInv, GateOf, RefusalOf, LinkOf, StreamOf, FetchOf, NamedOf, Recording, Inside, At
<1> QED  BY <1>1, <1>2, <1>3 DEF IInv, TaskRestart

-----------------------------------------------------------------------------
(* Theorems.                                                               *)

LEMMA InitHolds == Init => IInv
<1> SUFFICES ASSUME Init PROVE IInv
  OBVIOUS
<1>1. TypeOK  BY DEF Init, TypeOK
<1>2. CacheInv  BY AbsentAssumption DEF Init, CacheInv
<1>3. \A s \in Sessions : run[s] = Absent  BY DEF Init
<1>4. \A s \in Sessions : SessionInv(s)  BY <1>3, NoRun
<1> QED  BY <1>1, <1>2, <1>4 DEF IInv, Init

LEMMA StepHolds == IInv /\ [Next]_vars => IInv'
<1> SUFFICES ASSUME IInv, [Next]_vars PROVE IInv'
  OBVIOUS
<1>1. ASSUME NEW s \in Sessions, Connect(s) PROVE IInv'  BY <1>1, ConnectKeeps
<1>2. ASSUME NEW s \in Sessions, TokenExpires(s) PROVE IInv'  BY <1>2, ExpireKeeps
<1>3. ASSUME NEW s \in Sessions, NEW page \in Pages, Visit(s, page) PROVE IInv'
  BY <1>3, VisitKeeps
<1>4. ASSUME NEW s \in Sessions, Verify(s) PROVE IInv'  BY <1>4, VerifyKeeps
<1>5. ASSUME NEW s \in Sessions, Fetch(s) PROVE IInv'  BY <1>5, FetchKeeps
<1>6. ASSUME NEW s \in Sessions, Lookup(s) \/ Emit(s) \/ EnsureStream(s) \/ Put(s)
      PROVE  IInv'
  BY <1>6, PageKeeps
<1>7. CASE TaskRestart  BY <1>7, RestartKeeps
<1>8. CASE UNCHANGED vars
  <2>1. /\ env' = env /\ token' = token /\ expired' = expired /\ cache' = cache
        /\ failed' = failed /\ flag' = flag /\ stream' = stream /\ run' = run
    BY <1>8 DEF vars, shared
  <2>2. TypeOK' /\ CacheInv'  BY <2>1 DEF IInv, TypeOK, CacheInv
  <2>3. \A s \in Sessions : SessionInv(s)'  BY <2>1, FrameAt DEF IInv
  <2> QED  BY <2>1, <2>2, <2>3 DEF IInv
<1> QED  BY <1>1, <1>2, <1>3, <1>4, <1>5, <1>6, <1>7, <1>8 DEF Next

LEMMA Inductive == Spec => []IInv
BY InitHolds, StepHolds, PTL DEF Spec

\* Every variable keeps its type, whatever the keys, tokens and environments.
THEOREM TypeCorrect == Spec => []TypeOK
<1>1. IInv => TypeOK  BY DEF IInv
<1> QED  BY <1>1, Inductive, PTL

\* require_group: no page is shown without a token that deserves it, however
\* the threads interleave and whatever the shared cache of keys holds.
THEOREM GateAlwaysHolds == Spec => []GateHolds
<1>1. IInv => GateHolds  BY DEF IInv, SessionInv, GateOf, GateHolds
<1> QED  BY <1>1, Inductive, PTL

\* An entitled user is turned away only for an expired token or for a failed
\* fetch of that very key.
THEOREM RefusalsHaveCauses == Spec => []RefusalHasCause
<1>1. IInv => RefusalHasCause  BY DEF IInv, SessionInv, RefusalOf, RefusalHasCause
<1> QED  BY <1>1, Inductive, PTL

\* The record of a link is written before the link is shown, and names nobody
\* only for a token that carries no email or has expired, or whose key has
\* failed.
THEOREM LinksAreOnRecord == Spec => []LinkIsOnRecord
<1>1. IInv => LinkIsOnRecord
  BY DEF IInv, SessionInv, LinkOf, NamedOf, Recording, LinkIsOnRecord
<1> QED  BY <1>1, Inductive, PTL

\* The flag of the threads promises a stream that is there.
THEOREM FlagsMeanStreams == Spec => []FlagMeansStream
<1>1. IInv => FlagMeansStream  BY DEF IInv, SessionInv, StreamOf, FlagMeansStream
<1> QED  BY <1>1, Inductive, PTL

=============================================================================
