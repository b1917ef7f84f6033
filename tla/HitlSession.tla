----------------------------- MODULE HitlSession -----------------------------
(***************************************************************************)
(* The script threads of the one Fargate task of the HITL UI: the group    *)
(* gate every page starts with, the ALB token and the cache of public keys *)
(* it is verified with, the compliance page that hands out a link, and the *)
(* log stream its audit records go to. Key cache and stream flag belong to *)
(* the task and are shared by the threads.                                 *)
(*                                                                         *)
(* Source: src/hitl_ui/hitl_lib/{auth,audit}.py, src/hitl_ui/streamlit_app *)
(* and src/hitl_ui/pages/{2_search,3_compliance}.py.                       *)
(***************************************************************************)
EXTENDS Naturals, FiniteSets

CONSTANTS
    Sessions,      \* browser sessions: one websocket, one script at a time
    Kids,          \* key ids that tokens name
    Tokens,        \* what the header x-amzn-oidc-data of a handshake can hold
    Environments,  \* environments the container can be started with
    CacheSize,     \* maxsize of the lru_cache
    Absent         \* no kid, cached key, script run or record

Groups == {"ops", "analyst", "compliance"}

\* A request without the header counts as a token without a kid. "signedBy" is
\* the kid whose key has made the ES256 signature, Absent if none of the region
\* has; "email" says whether the claims have one that is not empty.
TokenShape ==
    [kid : Kids \cup {Absent}, signer : {"own ALB", "other ALB"},
     signedBy : Kids \cup {Absent}, groups : SUBSET Groups, email : BOOLEAN]

ASSUME TokensAssumption == Tokens \subseteq TokenShape
ASSUME EnvironmentsAssumption ==
    Environments \subseteq [LOCAL_DEV : BOOLEAN, crypto : BOOLEAN,
                            ALB_ARN : BOOLEAN, AUDIT_LOG_GROUP : BOOLEAN]
ASSUME CacheAssumption == CacheSize \in Nat \ {0}
ASSUME AbsentAssumption ==
    /\ Absent \notin Kids \cup {"none", "log", "stdout"}
    /\ "none" \notin Kids

VARIABLES
    env,      \* environment of the container: which variables are set
    token,    \* header of each session's handshake
    expired,  \* sessions whose token has passed its exp
    cache,    \* _fetch_alb_public_key: what it keeps for each kid, "none" or a
              \* key, which goes by the kid it belongs to
    failed,   \* kids of which a fetch has failed in the life of this task
    flag,     \* _stream_initialized
    stream,   \* whether the log stream of this task exists
    run       \* script run of each session

shared == <<cache, failed, flag, stream>>
vars == <<env, token, expired, shared, run>>

Pages == {"home", "review", "search", "compliance"}

\* require_group of each page.
Allowed ==
    [home |-> Groups, review |-> {"ops"}, search |-> {"ops", "analyst"},
     compliance |-> {"compliance"}]

\* Where a script verifies the token: the caption of the home page, the gate,
\* and the user name in the audit record and on the compliance page.
Checks == {"caption", "gate", "name", "show"}
Ended  == {"open", "link", "refused", "stopped"}
Busy   == Checks \cup {"emit", "create", "put"}

\* "record" is where the audit record of this run has gone.
Runs ==
    [page : Pages, at : Busy \cup Ended \cup {"lookup"}, fetching : BOOLEAN,
     user : {"known", "unknown"}, record : {Absent, "log", "stdout"}]

TypeOK ==
    /\ env \in Environments
    /\ token \in [Sessions -> Tokens]
    /\ expired \subseteq Sessions
    /\ cache \in [Kids -> Kids \cup {Absent, "none"}]
    /\ failed \subseteq Kids
    /\ flag \in BOOLEAN /\ stream \in BOOLEAN
    /\ run \in [Sessions -> Runs \cup {Absent}]

At(s, place) == run[s] # Absent /\ run[s].at = place
Move(s, place) == run' = [run EXCEPT ![s].at = place]

-----------------------------------------------------------------------------
(* Sessions. Streamlit keeps the headers of the handshake as long as the   *)
(* websocket lives.                                                        *)

Connect(s) ==
    /\ token' \in {[token EXCEPT ![s] = t] : t \in Tokens}
    /\ expired' = expired \ {s}
    /\ run' = [run EXCEPT ![s] = Absent]
    /\ UNCHANGED <<env, shared>>

TokenExpires(s) ==
    /\ expired' = expired \cup {s}
    /\ UNCHANGED <<env, token, shared, run>>

\* A rerun takes the place of the last run when that has ended, waits for a
\* callId, or comes by the next st call.
Replaceable(s) ==
    run[s] # Absent =>
        \/ run[s].at \in Ended \cup {"lookup"}
        \/ run[s].at = "show" /\ ~run[s].fetching

Visit(s, page) ==
    /\ Replaceable(s)
    /\ run' = [run EXCEPT ![s] =
          [page |-> page, at |-> IF page = "home" THEN "caption" ELSE "gate",
           fetching |-> FALSE, user |-> "unknown", record |-> Absent]]
    /\ UNCHANGED <<env, token, expired, shared>>

-----------------------------------------------------------------------------
(* Verification of the token.                                              *)

\* Where _verify_signature returns no claims before it asks for a key.
Refused(s) ==
    \/ ~env.crypto
    \/ token[s].kid = Absent
    \/ env.ALB_ARN /\ token[s].signer # "own ALB"

\* What _jwt.decode makes of the token with the key it is given.
Verified(s, key) == key \in Kids /\ key = token[s].signedBy /\ s \notin expired

\* current_groups and the test in require_group.
MayEnter(s, verified) ==
    \/ env.LOCAL_DEV
    \/ verified /\ token[s].groups \cap Allowed[run[s].page] # {}

\* The script goes on with the claims of a verified token, or with none. For
\* claims without an email current_user answers "unknown" as well.
Answer(s, verified) ==
    LET next == CASE run[s].at = "caption" -> "gate"
                  [] run[s].at = "gate" ->
                        IF ~MayEnter(s, verified) THEN "refused"
                        ELSE IF run[s].page = "compliance" THEN "lookup" ELSE "open"
                  [] run[s].at = "name" -> "emit"
                  [] run[s].at = "show" -> "link"
        user == IF run[s].at # "name" THEN run[s].user
                ELSE IF env.LOCAL_DEV \/ (verified /\ token[s].email) THEN "known"
                ELSE "unknown"
    IN run' = [run EXCEPT ![s] = [@ EXCEPT !.at = next, !.user = user, !.fetching = FALSE]]

\* current_user or current_groups, up to the answer of the cache.
Verify(s) ==
    /\ run[s] # Absent /\ run[s].at \in Checks /\ ~run[s].fetching
    /\ LET key == cache[token[s].kid]
       IN \/ env.LOCAL_DEV /\ Answer(s, TRUE)
          \/ ~env.LOCAL_DEV /\ Refused(s) /\ Answer(s, FALSE)
          \/ ~env.LOCAL_DEV /\ ~Refused(s) /\ key # Absent /\ Answer(s, Verified(s, key))
          \/ ~env.LOCAL_DEV /\ ~Refused(s) /\ key = Absent
                /\ run' = [run EXCEPT ![s].fetching = TRUE]
    /\ UNCHANGED <<env, token, expired, shared>>

Cached == {k \in Kids : cache[k] # Absent}

\* Mutant of Kept: the result is kept under every kid.
KeptForAll(kid, result) == {[k \in Kids |-> result]}

\* Mutant of Kept: the exception itself is kept.
KeptRaw(kid, result) == {[cache EXCEPT ![kid] = IF result = "none" THEN "URLError" ELSE result]}

\* lru_cache when a call returns: the result is kept unless another thread
\* has been faster, and a full cache loses an entry. Which one is the least
\* recently used is left open.
Kept(kid, result) ==
    IF kid \in Cached THEN {cache}
    ELSE IF Cardinality(Cached) < CacheSize THEN {[cache EXCEPT ![kid] = result]}
    ELSE {[cache EXCEPT ![kid] = result, ![k] = Absent] : k \in Cached}

\* urlopen of _fetch_alb_public_key answers: with the key of the kid it asked
\* for, with a URLError or
\* a text that is no key, both of which are cached, or with another exception,
\* which is not and leaves the script.
Fetch(s) ==
    /\ run[s] # Absent /\ run[s].fetching
    /\ \/ \E result \in {token[s].kid, "none"} :
             /\ cache' \in Kept(token[s].kid, result)
             /\ failed' = IF result = "none" THEN failed \cup {token[s].kid} ELSE failed
             /\ Answer(s, Verified(s, result))
       \/ /\ run' = [run EXCEPT ![s] = [@ EXCEPT !.at = "stopped", !.fetching = FALSE]]
          /\ UNCHANGED <<cache, failed>>
    /\ UNCHANGED <<env, token, expired, flag, stream>>

-----------------------------------------------------------------------------
(* The compliance page behind the gate.                                    *)

\* get_call and generate_presigned_url for the callId typed in. Without a row
\* or a rawSttRef the page stops, an exception ends it.
Lookup(s) ==
    /\ At(s, "lookup")
    /\ \E next \in {"name", "stopped"} : Move(s, next)
    /\ UNCHANGED <<env, token, expired, shared>>

Recorded(s, place) ==
    run' = [run EXCEPT ![s] = [@ EXCEPT !.at = "show", !.record = place]]

\* emit_audit: which way the record goes.
Emit(s) ==
    /\ At(s, "emit")
    /\ \/ ~env.AUDIT_LOG_GROUP /\ Recorded(s, "stdout")
       \/ env.AUDIT_LOG_GROUP /\ flag /\ Move(s, "put")
       \/ env.AUDIT_LOG_GROUP /\ ~flag /\ Move(s, "create")
    /\ UNCHANGED <<env, token, expired, shared>>

\* Mutant of EnsureStream: any error counts as a stream that is there.
EnsureAnyhow(s) ==
    /\ At(s, "create")
    /\ flag' = TRUE
    /\ stream' \in {stream, TRUE}
    /\ Move(s, "put")
    /\ UNCHANGED <<env, token, expired, cache, failed>>

\* create_log_stream of _ensure_stream. A stream that is there already, by
\* another thread or a call whose response was lost, is as good as a new one.
\* After any other error, a lost response included, the record is printed.
EnsureStream(s) ==
    /\ At(s, "create")
    /\ \/ /\ stream' = TRUE /\ flag' = TRUE
          /\ Move(s, "put")
       \/ /\ stream' \in {stream, TRUE}
          /\ UNCHANGED flag
          /\ Recorded(s, "stdout")
    /\ UNCHANGED <<env, token, expired, cache, failed>>

\* Mutant of Put: an error of put_log_events is passed over.
PutQuietly(s) ==
    /\ At(s, "put")
    /\ \/ stream /\ Recorded(s, "log")
       \/ Move(s, "show")
    /\ UNCHANGED <<env, token, expired, shared>>

\* put_log_events, or its AUDIT_FALLBACK line.
Put(s) ==
    /\ At(s, "put")
    /\ \/ stream /\ Recorded(s, "log")
       \/ Recorded(s, "stdout")
    /\ UNCHANGED <<env, token, expired, shared>>

-----------------------------------------------------------------------------

\* A new task has a stream name, a flag and a cache of its own.
TaskRestart ==
    /\ run' = [s \in Sessions |-> Absent]
    /\ cache' = [k \in Kids |-> Absent]
    /\ failed' = {}
    /\ flag' = FALSE /\ stream' = FALSE
    /\ UNCHANGED <<env, token, expired>>

Init ==
    /\ env \in Environments
    /\ token \in [Sessions -> Tokens]
    /\ expired = {} /\ failed = {}
    /\ cache = [k \in Kids |-> Absent]
    /\ flag = FALSE /\ stream = FALSE
    /\ run = [s \in Sessions |-> Absent]

Next ==
    \/ \E s \in Sessions :
          \/ Connect(s) \/ TokenExpires(s)
          \/ \E page \in Pages : Visit(s, page)
          \/ Verify(s) \/ Fetch(s)
          \/ Lookup(s) \/ Emit(s) \/ EnsureStream(s) \/ Put(s)
    \/ TaskRestart

Spec == Init /\ [][Next]_vars

-----------------------------------------------------------------------------
(* Properties.                                                             *)

\* The token's holder may open the page, as far as the token goes.
Entitled(s) ==
    /\ token[s].kid # Absent /\ token[s].signedBy = token[s].kid
    /\ env.ALB_ARN => token[s].signer = "own ALB"
    /\ token[s].groups \cap Allowed[run[s].page] # {}

Inside(s) ==
    /\ run[s] # Absent
    /\ run[s].at \in {"open", "lookup", "name", "emit", "create", "put", "show", "link"}

\* Outside of LOCAL_DEV nobody gets past the gate of a page without a token
\* that is signed by the key it names, comes from the load balancer the task
\* knows, and has a group of that page, whatever the threads share; without
\* the crypto packages nobody gets past any.
GateHolds ==
    \A s \in Sessions : Inside(s) /\ ~env.LOCAL_DEV => Entitled(s) /\ env.crypto

\* A gate that turns an entitled user away has a reason: the token has expired
\* since the handshake, or a fetch of this very key has failed in the life of
\* the task. The failure of another key shuts nobody out.
RefusalHasCause ==
    \A s \in Sessions :
        At(s, "refused") /\ env.crypto /\ Entitled(s) =>
            s \in expired \/ token[s].kid \in failed

\* No link is shown before the intent to download is on record, in the log or
\* on stdout, however the creation of the stream and the put fail. The record
\* names the user the gate has let in, unless the token carries no email, which
\* the gate does not ask for, has expired, or its key could not be fetched
\* again in between.
LinkIsOnRecord ==
    \A s \in Sessions :
        /\ At(s, "show") \/ At(s, "link") => run[s].record # Absent
        /\ run[s] # Absent /\ run[s].record # Absent /\ run[s].user = "unknown" =>
              ~token[s].email \/ s \in expired \/ token[s].kid \in failed

\* The flag that the threads share never promises a stream that is not there:
\* no thread puts its record into nothing.
FlagMeansStream ==
    /\ flag => stream
    /\ \A s \in Sessions : At(s, "put") => stream

=============================================================================
