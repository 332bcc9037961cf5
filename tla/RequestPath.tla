---------------------------- MODULE RequestPath ----------------------------
(***************************************************************************)
(* The way of a request through the service: authentication with the       *)
(* bootstrap of the credential table (CredentialStore), the catalog and    *)
(* its best-effort metadata (CatalogRegistry), and the HTTP status that    *)
(* an exception becomes.  What create_decision and record_outcome do with  *)
(* quotas and decisions is the subject of ControlPlane; here they succeed  *)
(* or are refused, and the service's own exceptions get their status.      *)
(*                                                                         *)
(* Concurrent tasks in several processes, a catalog file edited under      *)
(* them, failing metadata writes, process restarts.                        *)
(***************************************************************************)
EXTENDS CredentialStore, CatalogRegistry

CONSTANTS
    Homes,        \* possible placements of the tasks in the processes
    Requests,     \* requests: [kind, key, policy_id], key and policy_id possibly None
    OwnPolicy,    \* OwnPolicy[k]: default_policy_id of the credential with key k, None when ""
    InitialRows,  \* possible contents of agent_credentials at the start
    InitialFiles, \* texts the catalog file may hold at the start
    MaxRequests,  \* bound on requests
    MaxChanges,   \* bound on what operators do: edits of the file, blocked credentials
    MaxFaults     \* bound on restarts and failed database accesses

\* build_default_policies: all of them active.
PolicyIds == {"balanced", "cheap-first", "latency-first", "reasoning-first", "safe-fallback"}
DefaultPolicyId == "balanced"

RequiredScopes(kind) ==
    CASE kind = "decide" -> {"routing:decide"}
      [] kind = "outcome" -> {"routing:outcome"}
      [] kind \in {"catalog", "policies"} -> {"control:read"}

\* The endpoints without a principal.
Public == {"ready", "live"}

Kinds == {"decide", "outcome", "catalog", "policies"} \cup Public

ASSUME RequestAssumption ==
    /\ Homes \subseteq [Tasks -> Processes]
    /\ Processes = Registries
    /\ \A r \in Requests : r.kind \in Kinds /\ r.key \in Keys \cup {None}
    /\ None \notin Requests /\ DOMAIN OwnPolicy = Keys
    /\ InitialRows \subseteq [Keys -> Records \cup {None}]
    /\ InitialFiles \subseteq Files
    /\ MaxRequests \in Nat /\ MaxChanges \in Nat /\ MaxFaults \in Nat

VARIABLES
    home,     \* home[t]: the process task t runs in
    pc,       \* pc[t]: the next step of task t
    request,  \* request[t]: the request t is serving, None when idle
    catalog,  \* catalog[t]: the local variable catalog
    answer,   \* history: the last answer when it was an error: cause, status, key, current
    current,  \* history: current[t]: what the file has held during t's request
    held,     \* history: what the file has ever held
    decided,  \* history: the catalogs decisions were made on
    requests, changes, faults

taskVars == <<home, pc, request, catalog, answer, current>>
counters == <<requests, changes, faults>>
vars == <<credentialVars, catalogVars, taskVars, held, decided, counters>>

Steps == {"bootstrap", "mark", "lookup", "catalog", "version", "insert_version",
          "policies", "insert_policies", "update_policies", "route"}
Causes == ParseErrors \cup {"AuthenticationError", "AuthorizationError", "NotFoundError",
                           "QuotaExceededError", "IntegrityError", "OperationalError"}
Statuses == {400, 401, 403, 404, 429, 500}

Init ==
    /\ \E rows \in InitialRows : CredentialInit(rows)
    /\ \E f \in InitialFiles : CatalogInit(f)
    /\ home \in Homes
    /\ pc = [t \in Tasks |-> "idle"]
    /\ request = [t \in Tasks |-> None]
    /\ catalog = [t \in Tasks |-> NoSnapshot]
    /\ answer = None
    /\ current = [t \in Tasks |-> {}]
    /\ held = {file}
    /\ decided = {}
    /\ requests = 0 /\ changes = 0 /\ faults = 0

-----------------------------------------------------------------------------
(* Answers *)

\* _authenticate maps its two exceptions; the routing endpoints map whatever
\* their handler raises; every other exception is FastAPI's 500.
Status(cause, kind) ==
    CASE cause = "AuthenticationError" -> 401
      [] cause = "AuthorizationError" -> 403
      [] cause = "NotFoundError" -> 404
      [] cause = "QuotaExceededError" -> 429
      [] cause = "ValueError" /\ kind \in {"decide", "outcome"} -> 400
      [] OTHER -> 500

Idle(tasks) ==
    /\ UNCHANGED home
    /\ pc' = [t \in Tasks |-> IF t \in tasks THEN "idle" ELSE pc[t]]
    /\ request' = [t \in Tasks |-> IF t \in tasks THEN None ELSE request[t]]
    /\ catalog' = [t \in Tasks |-> IF t \in tasks THEN NoSnapshot ELSE catalog[t]]
    /\ current' = [t \in Tasks |-> IF t \in tasks THEN {} ELSE current[t]]

\* The task answers; what it answered is kept when it is an error.
Answer(t, cause) ==
    /\ Idle({t})
    /\ answer' = IF cause = "ok" THEN None
                 ELSE [cause |-> cause, status |-> Status(cause, request[t].kind),
                       key |-> request[t].key, current |-> current[t]]

GoTo(t, step) == pc' = [pc EXCEPT ![t] = step] /\ UNCHANGED <<home, request, catalog, answer, current>>

-----------------------------------------------------------------------------
(* Authentication *)

FirstStep(r, p) ==
    CASE r.kind = "ready" -> "catalog"
      [] r.kind = "live" -> "route"
      [] OTHER -> IF r.key # None /\ NeedsBootstrap(p) THEN "bootstrap" ELSE "lookup"

\* A request arrives.
Begin(t, r) ==
    /\ pc[t] = "idle"
    /\ requests < MaxRequests /\ requests' = requests + 1
    /\ pc' = [pc EXCEPT ![t] = FirstStep(r, home[t])]
    /\ request' = [request EXCEPT ![t] = r]
    /\ current' = [current EXCEPT ![t] = {file}]
    /\ IF FirstStep(r, home[t]) = "bootstrap" THEN OpenTransaction(t, home[t]) ELSE UNCHANGED credentialVars
    /\ UNCHANGED <<catalogVars, home, catalog, answer, held, decided, changes, faults>>

BootstrapStep(t) ==
    /\ \/ /\ pc[t] = "bootstrap"
          /\ \/ (SelectEntry(t) \/ FlushEntry(t)) /\ GoTo(t, "bootstrap")
             \/ CommitBootstrap(t) /\ GoTo(t, "mark")
             \/ FlushFails(t) /\ Answer(t, "IntegrityError")
       \/ pc[t] = "mark" /\ MarkBootstrapped(home[t]) /\ GoTo(t, "lookup")
    /\ UNCHANGED <<catalogVars, held, decided, counters>>

\* A request without a key fails before the bootstrap and before any lookup.
Lookup(t) ==
    LET r == request[t]
        cause == IF r.key = None THEN "AuthenticationError" ELSE Authenticate(r.key, RequiredScopes(r.kind))
    IN /\ pc[t] = "lookup"
       /\ IF cause = "ok" THEN GoTo(t, IF r.kind \in {"decide", "catalog"} THEN "catalog" ELSE "route")
          ELSE Answer(t, cause)
       /\ UNCHANGED <<credentialVars, catalogVars, held, decided, counters>>

-----------------------------------------------------------------------------
(* Handlers *)

\* The request's policy, or the credential's, or that of the settings.
PolicyOf(r) ==
    IF r.policy_id # None THEN r.policy_id
    ELSE IF OwnPolicy[r.key] # None THEN OwnPolicy[r.key] ELSE DefaultPolicyId

\* get_snapshot, in create_decision, get_catalog and ready_health; in the
\* first the policy is looked up in the same step.
ReadCatalog(t) ==
    LET p == home[t]
        r == request[t]
        cause == IF Raised(p) # "ok" THEN Raised(p)
                 ELSE IF r.kind = "decide" /\ PolicyOf(r) \notin PolicyIds THEN "NotFoundError" ELSE "ok"
    IN /\ pc[t] = "catalog"
       /\ ReadSnapshot(p)
       /\ \/ cause # "ok" /\ Answer(t, cause)
          \/ /\ cause = "ok"
             /\ pc' = [pc EXCEPT ![t] = IF r.kind = "decide" THEN "version" ELSE "route"]
             /\ catalog' = [catalog EXCEPT ![t] = Snapshot(p)]
             /\ UNCHANGED <<home, request, answer, current>>
       /\ UNCHANGED <<credentialVars, held, decided, counters>>

\* ensure_catalog_version: SELECT.
SelectVersion(t) ==
    /\ pc[t] = "version"
    /\ GoTo(t, IF VersionStored(catalog[t]) THEN "policies" ELSE "insert_version")
    /\ UNCHANGED <<credentialVars, catalogVars, held, decided, counters>>

\* ensure_catalog_version: INSERT.  Losing the race raises inside the try
\* block, which also skips ensure_policies.
StoreVersion(t) ==
    /\ pc[t] = "insert_version"
    /\ \/ InsertVersion(catalog[t]) /\ GoTo(t, "policies")
       \/ VersionStored(catalog[t]) /\ GoTo(t, "route") /\ UNCHANGED catalogVars
    /\ UNCHANGED <<credentialVars, held, decided, counters>>

\* ensure_policies: session.get of each.
SelectPolicies(t) ==
    /\ pc[t] = "policies"
    /\ GoTo(t, IF policiesStored THEN "update_policies" ELSE "insert_policies")
    /\ UNCHANGED <<credentialVars, catalogVars, held, decided, counters>>

\* ensure_policies: the flush.  An INSERT of rows that have appeared since
\* fails on the primary key.
StorePolicies(t) ==
    /\ pc[t] \in {"insert_policies", "update_policies"}
    /\ IF pc[t] = "insert_policies" /\ policiesStored THEN UNCHANGED catalogVars ELSE WritePolicies
    /\ GoTo(t, "route")
    /\ UNCHANGED <<credentialVars, held, decided, counters>>

\* The rest of the handler.
Route(t) ==
    /\ pc[t] = "route"
    /\ Answer(t, "ok")
    /\ decided' = IF request[t].kind = "decide" THEN decided \cup {catalog[t]} ELSE decided
    /\ UNCHANGED <<credentialVars, catalogVars, held, counters>>

\* What the handlers refuse: another agent's name, the request rate and the
\* spend before the catalog is read, the concurrency limit after the metadata;
\* an outcome also for the decision it names.
Refusals(step, kind) ==
    CASE kind = "decide" /\ step = "catalog" -> {"AuthorizationError", "QuotaExceededError"}
      [] kind = "decide" /\ step = "route" -> {"QuotaExceededError"}
      [] kind = "outcome" -> {"AuthorizationError", "QuotaExceededError", "NotFoundError"}
      [] OTHER -> {}

Refuse(t) ==
    /\ pc[t] \in {"catalog", "route"}
    /\ \E cause \in Refusals(pc[t], request[t].kind) : Answer(t, cause)
    /\ UNCHANGED <<credentialVars, catalogVars, held, decided, counters>>

-----------------------------------------------------------------------------
(* Faults and operators *)

Fault == faults < MaxFaults /\ faults' = faults + 1 /\ UNCHANGED <<requests, changes>>
Change == changes < MaxChanges /\ changes' = changes + 1 /\ UNCHANGED <<requests, faults>>

\* A metadata statement fails: a warning is logged and the decision goes on.
MetadataFails(t) ==
    /\ pc[t] \in {"version", "insert_version", "policies", "insert_policies", "update_policies"}
    /\ Fault
    /\ GoTo(t, "route")
    /\ UNCHANGED <<credentialVars, catalogVars, held, decided>>

\* A statement or a commit of the authentication fails, or its task is
\* cancelled: an open transaction rolls back.  One that was committed stays,
\* and its process does not mark it.
DatabaseFails(t) ==
    /\ pc[t] \in {"bootstrap", "mark", "lookup"} /\ request[t].key # None
    /\ Fault
    /\ Rollback(t)
    /\ Answer(t, "OperationalError")
    /\ UNCHANGED <<catalogVars, held, decided>>

Restart(p) ==
    LET tasks == {t \in Tasks : home[t] = p} IN
    /\ Fault
    /\ CredentialsRestart(p, tasks)
    /\ CatalogRestart(p)
    /\ Idle(tasks)
    /\ UNCHANGED <<answer, held, decided>>

Edit(f) ==
    /\ f # file
    /\ Change
    /\ EditCatalog(f)
    /\ held' = held \cup {f}
    /\ current' = [t \in Tasks |-> IF pc[t] = "idle" THEN current[t] ELSE current[t] \cup {f}]
    /\ UNCHANGED <<credentialVars, home, pc, request, catalog, answer, decided>>

Block(k) ==
    /\ Change
    /\ BlockCredential(k)
    /\ UNCHANGED <<catalogVars, taskVars, held, decided>>

-----------------------------------------------------------------------------

TaskStep(t) ==
    \/ BootstrapStep(t) \/ Lookup(t) \/ ReadCatalog(t)
    \/ SelectVersion(t) \/ StoreVersion(t) \/ SelectPolicies(t) \/ StorePolicies(t)
    \/ Route(t)

Next ==
    \/ \E t \in Tasks :
          \/ \E r \in Requests : Begin(t, r)
          \/ TaskStep(t) \/ Refuse(t) \/ MetadataFails(t) \/ DatabaseFails(t)
    \/ \E p \in Processes : Restart(p)
    \/ \E f \in Files : Edit(f)
    \/ \E k \in Keys : Block(k)

Spec == Init /\ [][Next]_vars

\* The event loop runs every task that can go on, and the database serves it.
FairSpec == Spec /\ \A t \in Tasks : WF_vars(TaskStep(t))

-----------------------------------------------------------------------------
(* Properties *)

\* Every variable has its type, and no two transactions hold the same key.
TypeOK ==
    /\ CredentialTypeOK /\ CatalogTypeOK
    /\ home \in [Tasks -> Processes]
    /\ pc \in [Tasks -> Steps \cup {"idle"}]
    /\ request \in [Tasks -> Requests \cup {None}]
    /\ catalog \in [Tasks -> Files \cup {NoSnapshot}]
    /\ answer # None => answer.cause \in Causes /\ answer.status \in Statuses
    /\ \A t \in Tasks : pc[t] = "bootstrap" <=> txn[t] # None
    /\ current \in [Tasks -> SUBSET Files] /\ decided \subseteq held /\ held \subseteq Files
    /\ requests \in 0..MaxRequests /\ changes \in 0..MaxChanges /\ faults \in 0..MaxFaults

\* authenticate never answers 401 to a configured key, in whatever order the
\* processes start, bootstrap, fail and restart.
KnownKeyNever401 ==
    answer # None /\ answer.status = 401 => answer.key \notin BootstrapKeys

\* A request that loses the race for the bootstrap is answered 500, but then
\* the winner has committed the whole list: the same request can be retried
\* at once and will not lose again.
LoserFindsRows ==
    answer # None /\ answer.cause = "IntegrityError" =>
       \A k \in BootstrapKeys : credentials[k] # None

\* Neither a bootstrap nor a restart gives a blocked credential back: rows
\* that exist are not touched by the settings.
BlockedStaysBlocked ==
    [][\A k \in Keys :
          credentials[k] # None /\ credentials[k].status = "blocked" => credentials'[k] = credentials[k]]_vars

\* What a request is told of the catalog is what the file held while the
\* request ran: neither the cache nor an edit that failed to parse makes
\* get_snapshot return an older catalog, or raise once the file is repaired.
CatalogIsCurrent ==
    /\ \A t \in Tasks : catalog[t] # NoSnapshot => catalog[t] \in current[t]
    /\ answer # None /\ answer.cause \in ParseErrors =>
          \E f \in answer.current : ParseOf[f] = answer.cause

\* Without faults the catalog version a decision names has a row, even for
\* the request that lost the insertion of that row; and the row holds the
\* decision's catalog unless the file was edited without a new version.
DecidedVersionIsStored ==
    faults = 0 =>
       \A f \in decided :
          /\ VersionStored(f)
          /\ (\A g \in held : VersionOf[g] = VersionOf[f] => g = f) => versions[VersionOf[f]] = f

\* Without faults the policies are stored once a decision was made: the
\* requests that skip ensure_policies do so because another one gets there.
PoliciesGetStored == (decided # {}) ~> (policiesStored \/ faults > 0)

\* Every request is answered: no two bootstraps wait for each other.
RequestsAnswered == \A t \in Tasks : pc[t] # "idle" ~> pc[t] = "idle"
=============================================================================
