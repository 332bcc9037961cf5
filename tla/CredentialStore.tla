-------------------------- MODULE CredentialStore --------------------------
(***************************************************************************)
(* SqlAlchemyCredentialStore: the table agent_credentials, seeded by the   *)
(* first requests of every process, and the check of a key against it.     *)
(* The steps are composed into requests by RequestPath.                    *)
(*                                                                         *)
(* A transaction of the bootstrap runs one SQL statement per step.  Its    *)
(* INSERT of a key waits while another open transaction has inserted that  *)
(* key, and fails once that transaction has committed.                     *)
(***************************************************************************)
EXTENDS Naturals, Sequences

CONSTANTS
    Tasks,       \* asyncio tasks, in any number of processes
    Processes,   \* uvicorn processes, each with its own service singleton
    Keys,        \* api keys (their hashes are as distinct as they are)
    Bootstrap,   \* settings.bootstrap_agent_credentials: a key may occur twice
    None

\* A row, reduced to what authenticate decides on.
Records == [status : {"active", "blocked"}, scopes : SUBSET {"routing:decide", "routing:outcome", "control:read"}]

Entries == 1..Len(Bootstrap)
KeyAt(i) == Bootstrap[i].api_key
BootstrapKeys == {KeyAt(i) : i \in Entries}

VARIABLES
    bootstrapped,  \* bootstrapped[p]: the flag _bootstrapped of process p
    credentials,   \* table agent_credentials by key, None where there is no row
    txn            \* txn[t]: the open bootstrap transaction of task t, None without one

credentialVars == <<bootstrapped, credentials, txn>>

\* next: the next entry to look up; pending: the entry added to the session
\* and not yet flushed; flushed: the entries inserted but not committed.
Transactions == [next : Nat, pending : Entries \cup {None}, flushed : SUBSET Entries]

ASSUME BootstrapAssumption ==
    /\ Bootstrap \in Seq([api_key : Keys, record : Records])
    /\ None \notin Keys \cup Records \cup Entries \cup Transactions

\* The table is what earlier deployments and operators have left.
CredentialInit(rows) ==
    /\ bootstrapped = [p \in Processes |-> FALSE]
    /\ credentials = rows
    /\ txn = [t \in Tasks |-> None]

WrongKeyOf(t, i) == KeyAt(IF t = CHOOSE u \in Tasks : TRUE THEN i ELSE Len(Bootstrap) + 1 - i)

\* Every process goes through the list in the same order.
KeyOf(t, i) == KeyAt(i)

Inserted(t, k) == txn[t] # None /\ \E i \in txn[t].flushed : KeyOf(t, i) = k

NeedsBootstrap(p) == ~bootstrapped[p] /\ Bootstrap # <<>>

WrongOpenTransaction(t, p) ==
    /\ txn' = [txn EXCEPT ![t] = [next |-> 1, pending |-> None, flushed |-> {}]]
    /\ bootstrapped' = [bootstrapped EXCEPT ![p] = TRUE]
    /\ UNCHANGED credentials

OpenTransaction(t, p) ==
    /\ txn' = [txn EXCEPT ![t] = [next |-> 1, pending |-> None, flushed |-> {}]]
    /\ UNCHANGED <<bootstrapped, credentials>>

\* SELECT of the next entry: an existing row is left as it is.
SelectEntry(t) ==
    LET i == txn[t].next
        existing == credentials[KeyOf(t, i)] # None \/ Inserted(t, KeyOf(t, i))
    IN /\ txn[t].pending = None
       /\ i \in Entries
       /\ txn' = [txn EXCEPT ![t] = [@ EXCEPT !.next = i + 1,
                                              !.pending = IF existing THEN None ELSE i]]
       /\ UNCHANGED <<bootstrapped, credentials>>

PendingKey(t) == KeyOf(t, txn[t].pending)

WrongUnclaimed(k) == TRUE

Unclaimed(k) == \A u \in Tasks : ~Inserted(u, k)

WrongFlushed(t) == [credentials EXCEPT ![PendingKey(t)] = Bootstrap[txn[t].pending].record]

\* An INSERT shows to nobody else before its commit.
Flushed(t) == credentials

\* Autoflush, before the next SELECT or at the commit: the INSERT goes through.
FlushEntry(t) ==
    /\ txn[t].pending # None
    /\ credentials[PendingKey(t)] = None
    /\ Unclaimed(PendingKey(t))
    /\ txn' = [txn EXCEPT ![t] = [@ EXCEPT !.pending = None,
                                              !.flushed = txn[t].flushed \cup {txn[t].pending}]]
    /\ credentials' = Flushed(t)
    /\ UNCHANGED bootstrapped

\* The end of a task whose transaction has not been committed.
Rollback(t) == txn' = [txn EXCEPT ![t] = None] /\ UNCHANGED <<bootstrapped, credentials>>

\* The unique index on api_key_hash refuses the INSERT: IntegrityError, the
\* transaction rolls back.
FlushFails(t) ==
    /\ txn[t].pending # None
    /\ credentials[PendingKey(t)] # None
    /\ Rollback(t)

WrongSeeds(t) == Entries

\* The entries a commit makes rows of.
Seeds(t) == txn[t].flushed

CommitBootstrap(t) ==
    /\ txn[t].pending = None
    /\ txn[t].next > Len(Bootstrap)
    /\ credentials' = [k \in Keys |-> IF \E i \in Seeds(t) : KeyOf(t, i) = k
                                      THEN Bootstrap[CHOOSE i \in Seeds(t) : KeyOf(t, i) = k].record
                                      ELSE credentials[k]]
    /\ txn' = [txn EXCEPT ![t] = None]
    /\ UNCHANGED bootstrapped

MarkBootstrapped(p) ==
    /\ bootstrapped' = [bootstrapped EXCEPT ![p] = TRUE]
    /\ UNCHANGED <<credentials, txn>>

\* SELECT of the key's row and the checks of ControlPlaneService.authenticate.
Authenticate(key, required) ==
    IF credentials[key] = None THEN "AuthenticationError"
    ELSE IF credentials[key].status = "active" /\ required \subseteq credentials[key].scopes
    THEN "ok" ELSE "AuthorizationError"

\* The process ends: open transactions of its tasks roll back.
CredentialsRestart(p, tasks) ==
    /\ bootstrapped' = [bootstrapped EXCEPT ![p] = FALSE]
    /\ txn' = [t \in Tasks |-> IF t \in tasks THEN None ELSE txn[t]]
    /\ UNCHANGED credentials

\* An operator blocks a credential in the table.
BlockCredential(k) ==
    /\ credentials[k] # None
    /\ credentials' = [credentials EXCEPT ![k] = [@ EXCEPT !.status = "blocked"]]
    /\ UNCHANGED <<bootstrapped, txn>>

CredentialTypeOK ==
    /\ bootstrapped \in [Processes -> BOOLEAN]
    /\ credentials \in [Keys -> Records \cup {None}]
    /\ txn \in [Tasks -> Transactions \cup {None}]
    \* Two open transactions never hold the same key.
    /\ \A t, u \in Tasks, k \in Keys : Inserted(t, k) /\ Inserted(u, k) => t = u
=============================================================================
