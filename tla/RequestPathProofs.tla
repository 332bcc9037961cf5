------------------------- MODULE RequestPathProofs -------------------------
(***************************************************************************)
(* Theorems about RequestPath, for any number of tasks, processes, keys,   *)
(* bootstrap entries and texts of the catalog file.  Two invariants carry  *)
(* them: one of the credential table and the transactions that seed it,    *)
(* one of the catalog, its cache and its rows.                             *)
(***************************************************************************)
EXTENDS RequestPath, TLAPS

Seeded == \A k \in BootstrapKeys : credentials[k] # None

\* Every entry a transaction has been over has a row or will get one.
Progress(t) ==
    \A i \in Entries : i < txn[t].next =>
       \/ credentials[KeyAt(i)] # None
       \/ \E j \in txn[t].flushed : KeyAt(j) = KeyAt(i)
       \/ txn[t].pending # None /\ KeyAt(txn[t].pending) = KeyAt(i)

\* An INSERT finds a row only where another commit has seeded the table since
\* the SELECT; what it has inserted had no row, and nobody else makes it one.
Transaction(t) ==
    txn[t] # None =>
       /\ Progress(t)
       /\ txn[t].pending # None /\ credentials[KeyAt(txn[t].pending)] # None => Seeded
       /\ \A i \in txn[t].flushed : credentials[KeyAt(i)] = None

CredTypes ==
    /\ CredentialTypeOK
    /\ home \in [Tasks -> Processes]
    /\ pc \in [Tasks -> Steps \cup {"idle"}]
    /\ request \in [Tasks -> Requests \cup {None}]
    /\ \A t \in Tasks : pc[t] = "bootstrap" <=> txn[t] # None

\* Whoever skips the bootstrap or has done it finds the whole list in the table.
SeedInv ==
    /\ \A p \in Processes : bootstrapped[p] => Seeded
    /\ \A t \in Tasks : pc[t] = "mark" => Seeded
    /\ \A t \in Tasks : pc[t] = "lookup" /\ request[t].key # None => Seeded
    /\ \A t \in Tasks : Transaction(t)

CredInv == CredTypes /\ SeedInv /\ KnownKeyNever401 /\ LoserFindsRows

-----------------------------------------------------------------------------

Recording == {"insert_version", "version"}
Recorded == {"policies", "insert_policies", "update_policies"}

\* A decision has its catalog before it looks at the tables.
HasCatalog(t) ==
    pc[t] \in Recording \cup Recorded \/ (pc[t] = "route" /\ request[t].kind = "decide")
       => catalog[t] # NoSnapshot

\* Without faults it has found or stored its version before it is made.
HasVersion(t) ==
    faults = 0 /\ (pc[t] \in Recorded \/ (pc[t] = "route" /\ request[t].kind = "decide"))
       => VersionStored(catalog[t])

Counted ==
    requests \in 0..MaxRequests /\ changes \in 0..MaxChanges /\ faults \in 0..MaxFaults

CatTypes ==
    /\ CatalogTypeOK
    /\ home \in [Tasks -> Processes]
    /\ pc \in [Tasks -> Steps \cup {"idle"}]
    /\ request \in [Tasks -> Requests \cup {None}]
    /\ catalog \in [Tasks -> Files \cup {NoSnapshot}]
    /\ current \in [Tasks -> SUBSET Files]
    /\ file \in held /\ held \subseteq Files /\ decided \subseteq held
    /\ Counted

\* A cached snapshot is the parse of the text whose checksum it is kept under.
CacheInv ==
    \A p \in Registries : cache[p].snapshot # NoSnapshot =>
       cache[p].snapshot = cache[p].checksum /\ ParseOf[cache[p].snapshot] = "ok"

\* A task's catalog is one the file held while the task ran.
TaskInv ==
    \A t \in Tasks :
       /\ current[t] \subseteq held
       /\ IF pc[t] = "idle" THEN catalog[t] = NoSnapshot ELSE file \in current[t]
       /\ catalog[t] # NoSnapshot => catalog[t] \in current[t]
       /\ HasCatalog(t)
       /\ HasVersion(t)

\* A row of a version holds a catalog with that version that the file has held.
VersionsInv ==
    /\ \A v \in Versions : versions[v] # NoSnapshot =>
          versions[v] \in held /\ VersionOf[versions[v]] = v
    /\ faults = 0 => \A f \in decided : VersionStored(f)

\* An answer says what a parse of the task's own catalogs raised.
AnswerInv ==
    answer # None =>
       /\ answer.cause \in Causes /\ answer.status \in Statuses
       /\ answer.cause \in ParseErrors =>
             \E f \in answer.current : ParseOf[f] = answer.cause

CatInv == CatTypes /\ CacheInv /\ TaskInv /\ VersionsInv /\ AnswerInv

-----------------------------------------------------------------------------
(* The credential table *)

\* The list holds keys and rows, and every entry's key is one of its keys.
LEMMA ListOfKeys ==
    /\ Len(Bootstrap) \in Nat /\ Entries = 1..Len(Bootstrap)
    /\ \A i \in Entries : KeyAt(i) \in Keys /\ KeyAt(i) \in BootstrapKeys /\ Bootstrap[i].record \in Records
    /\ \A k \in BootstrapKeys : k \in Keys /\ \E i \in Entries : KeyAt(i) = k
    /\ \A r \in Records : r # None
    /\ \A i \in Entries : i # None
    /\ \A x \in Transactions : x # None
    /\ Bootstrap = <<>> => BootstrapKeys = {}
    /\ None \notin Keys
<1> DEFINE E == [api_key : Keys, record : Records]
<1>1. Bootstrap \in Seq(E)
    BY BootstrapAssumption
<1> HIDE DEF E
<1>2. Len(Bootstrap) \in Nat /\ (Bootstrap = <<>> => Len(Bootstrap) = 0)
      /\ \A i \in 1..Len(Bootstrap) : Bootstrap[i] \in E
    BY <1>1
<1>3. \A i \in Entries : KeyAt(i) \in Keys /\ Bootstrap[i].record \in Records
    BY <1>2 DEF Entries, KeyAt, E
<1>4. Bootstrap = <<>> => Entries = {}
    BY <1>2 DEF Entries
<1> QED
    BY <1>2, <1>3, <1>4, BootstrapAssumption DEF BootstrapKeys, Entries

\* Rows do not disappear, so a seeded table stays seeded.
LEMMA StaysSeeded ==
    ASSUME Seeded, \A k \in Keys : credentials[k] # None => credentials'[k] # None
    PROVE  Seeded'
<1> QED
    BY ListOfKeys DEF Seeded

\* A step that touches neither the table nor a transaction, and answers
\* neither 401 nor a lost race.
LEMMA CredQuiet ==
    ASSUME CredInv, UNCHANGED <<bootstrapped, credentials, txn, home>>,
           pc' \in [Tasks -> Steps \cup {"idle"}],
           request' \in [Tasks -> Requests \cup {None}],
           \A t \in Tasks :
              \/ pc'[t] = pc[t] /\ request'[t] = request[t]
              \/ pc[t] # "bootstrap" /\ pc'[t] \notin {"bootstrap", "mark", "lookup"},
           \/ answer' = answer
           \/ answer' = None
           \/ answer'.status # 401 /\ answer'.cause # "IntegrityError"
    PROVE  CredInv'
<1> USE DEF CredInv
<1>1. Seeded' = Seeded /\ \A t : Transaction(t)' = Transaction(t)
    BY DEF Seeded, Transaction, Progress
<1>2. CredTypes'
  <2>1. CredentialTypeOK'
      BY DEF CredTypes, CredentialTypeOK, Inserted
  <2> QED
      BY <2>1 DEF CredTypes
<1>3. SeedInv'
    BY <1>1 DEF SeedInv
<1>4. KnownKeyNever401' /\ LoserFindsRows'
    BY DEF KnownKeyNever401, LoserFindsRows
<1> QED
    BY <1>2, <1>3, <1>4

\* A request of a process that has not marked its bootstrap opens a transaction;
\* any other finds the list in the table.
LEMMA CredBegin ==
    ASSUME CredInv, NEW t \in Tasks, NEW r \in Requests, Begin(t, r)
    PROVE  CredInv'
<1> USE DEF CredInv
<1> DEFINE step == FirstStep(r, home[t])
           new == [next |-> 1, pending |-> None, flushed |-> {}]
<1>1. /\ pc[t] = "idle" /\ pc' = [pc EXCEPT ![t] = step] /\ request' = [request EXCEPT ![t] = r]
      /\ IF step = "bootstrap" THEN OpenTransaction(t, home[t]) ELSE UNCHANGED credentialVars
      /\ UNCHANGED <<home, answer>>
    BY DEF Begin
<1>2. UNCHANGED <<bootstrapped, credentials>>
      /\ txn' = IF step = "bootstrap" THEN [txn EXCEPT ![t] = new] ELSE txn
    BY <1>1 DEF OpenTransaction, credentialVars
<1>3. /\ home[t] \in Processes /\ txn[t] = None /\ new \in Transactions /\ new # None
      /\ new.flushed = {} /\ new.pending = None /\ new.next = 1
    BY <1>1, ListOfKeys DEF CredTypes, Transactions
<1>4. step \in Steps /\ step # "mark"
      /\ (step = "lookup" /\ r.key # None => ~NeedsBootstrap(home[t]))
    BY DEF FirstStep, Steps
<1>5. step = "lookup" /\ r.key # None => Seeded
    BY <1>3, <1>4, ListOfKeys DEF NeedsBootstrap, SeedInv, Seeded
<1> HIDE DEF step, new
<1>6. /\ pc'[t] = step /\ request'[t] = r
      /\ \A u \in Tasks : u # t => pc'[u] = pc[u] /\ request'[u] = request[u]
      /\ \A u \in Tasks : txn'[u] = IF u = t /\ step = "bootstrap" THEN new ELSE txn[u]
    BY <1>1, <1>2 DEF CredTypes, CredentialTypeOK
<1>7. CredTypes'
  <2>1. \A u \in Tasks : \A k : Inserted(u, k)' => Inserted(u, k)
      BY <1>2, <1>3, <1>6 DEF Inserted, KeyOf
  <2>2. CredentialTypeOK'
      BY <1>2, <1>3, <2>1 DEF CredTypes, CredentialTypeOK
  <2>3. \A u \in Tasks : pc'[u] = "bootstrap" <=> txn'[u] # None
      BY <1>3, <1>6 DEF CredTypes
  <2> QED
      BY <1>1, <1>4, <2>2, <2>3 DEF CredTypes
<1>8. SeedInv'
  <2>1. Seeded' = Seeded
      BY <1>2 DEF Seeded
  <2>2. ASSUME NEW u \in Tasks PROVE Transaction(u)'
    <3>1. CASE txn'[u] = txn[u]
        BY <1>2, <3>1 DEF SeedInv, Transaction, Progress, Seeded
    <3>2. CASE txn'[u] = new
      <4>1. \A i \in Entries : ~(i < 1)
          BY ListOfKeys
      <4> QED
          BY <1>3, <3>2, <4>1 DEF Transaction, Progress
    <3> QED
        BY <1>6, <3>1, <3>2
  <2> QED
      BY <1>2, <1>4, <1>5, <1>6, <2>1, <2>2 DEF SeedInv
<1>9. KnownKeyNever401' /\ LoserFindsRows'
    BY <1>1, <1>2 DEF KnownKeyNever401, LoserFindsRows
<1> QED
    BY <1>7, <1>8, <1>9

\* A step inside one transaction, which leaves it open with the keys it held
\* and those that nobody else holds.
LEMMA CredInside ==
    ASSUME CredInv, NEW t \in Tasks, NEW x \in Transactions,
           pc[t] = "bootstrap", GoTo(t, "bootstrap"),
           txn' = [txn EXCEPT ![t] = x], UNCHANGED <<bootstrapped, credentials>>,
           \A k \in Keys : (\E i \in x.flushed : KeyAt(i) = k) =>
              Inserted(t, k) \/ \A u \in Tasks : ~Inserted(u, k),
           Transaction(t)'
    PROVE  CredInv'
<1> USE DEF CredInv
<1>1. /\ \A u \in Tasks : txn'[u] = IF u = t THEN x ELSE txn[u]
      /\ pc' = pc /\ UNCHANGED <<home, request, answer>> /\ x # None /\ txn[t] # None
    BY ListOfKeys DEF CredTypes, CredentialTypeOK, GoTo
<1>2. CredTypes'
  <2>1. ASSUME NEW u \in Tasks, NEW v \in Tasks, NEW k \in Keys, Inserted(u, k)', Inserted(v, k)' PROVE u = v
    <3>1. \A w \in Tasks : w # t /\ Inserted(w, k)' => Inserted(w, k)
        BY <1>1 DEF Inserted, KeyOf
    <3>2. Inserted(t, k)' => Inserted(t, k) \/ \A w \in Tasks : ~Inserted(w, k)
        BY <1>1 DEF Inserted, KeyOf
    <3> QED
        BY <2>1, <3>1, <3>2 DEF CredTypes, CredentialTypeOK
  <2>2. CredentialTypeOK'
      BY <2>1 DEF CredTypes, CredentialTypeOK
  <2> QED
      BY <1>1, <2>2 DEF CredTypes
<1>3. SeedInv'
  <2>1. \A u \in Tasks : Transaction(u)'
      BY <1>1 DEF SeedInv, Transaction, Progress, Seeded
  <2> QED
      BY <1>1, <2>1 DEF SeedInv, Seeded
<1>4. KnownKeyNever401' /\ LoserFindsRows'
    BY <1>1 DEF KnownKeyNever401, LoserFindsRows
<1> QED
    BY <1>2, <1>3, <1>4

\* SELECT of an entry: it has a row, or is inserted already, or becomes pending.
LEMMA CredSelect ==
    ASSUME CredInv, NEW t \in Tasks, pc[t] = "bootstrap", SelectEntry(t), GoTo(t, "bootstrap")
    PROVE  CredInv'
<1> USE DEF CredInv
<1> DEFINE i == txn[t].next
           existing == credentials[KeyAt(i)] # None \/ Inserted(t, KeyAt(i))
           pending == IF existing THEN None ELSE i
           x == [txn[t] EXCEPT !.next = i + 1, !.pending = pending]
<1>1. /\ txn[t].pending = None /\ i \in Entries /\ txn' = [txn EXCEPT ![t] = x]
      /\ UNCHANGED <<bootstrapped, credentials>>
    BY DEF SelectEntry, KeyOf
<1>2. txn[t] \in Transactions /\ txn[t] # None /\ Transaction(t)
    BY DEF CredTypes, CredentialTypeOK, SeedInv
<1>3. i \in Nat /\ pending \in Entries \cup {None}
    BY <1>1, ListOfKeys
<1>4. existing => credentials[KeyAt(i)] # None \/ \E j \in txn[t].flushed : KeyAt(j) = KeyAt(i)
    BY <1>2 DEF Inserted, KeyOf
<1>5. pending # None => pending = i /\ credentials[KeyAt(i)] = None
    BY <1>1, ListOfKeys
<1>6. pending # None \/ existing
    BY <1>1, ListOfKeys
<1> HIDE DEF pending, existing
<1>7. /\ x \in Transactions /\ x.next = i + 1 /\ x.pending = pending
      /\ x.flushed = txn[t].flushed
  <2>1. x.next = i + 1 /\ x.pending = pending /\ x.flushed = txn[t].flushed
      BY <1>2 DEF Transactions
  <2>2. i + 1 \in Nat
      BY <1>3
  <2>3. x \in Transactions
      BY <1>2, <1>3, <2>2 DEF Transactions
  <2> QED
      BY <2>1, <2>3
<1> HIDE DEF x
<1>8. txn'[t] = x
    BY <1>1 DEF CredTypes, CredentialTypeOK
<1>9. Transaction(t)'
  <2> SUFFICES ASSUME NEW j \in Entries, j < i + 1
               PROVE  \/ credentials[KeyAt(j)] # None
                      \/ \E m \in txn[t].flushed : KeyAt(m) = KeyAt(j)
                      \/ pending # None /\ KeyAt(pending) = KeyAt(j)
    <3>1. \A m \in txn[t].flushed : credentials[KeyAt(m)] = None
        BY <1>2 DEF Transaction
    <3> QED
        BY <1>1, <1>5, <1>7, <1>8, <3>1 DEF Transaction, Progress
  <2>1. j = i \/ j < i
      BY <1>3, ListOfKeys
  <2>2. CASE j < i
      BY <1>1, <1>2, <2>2 DEF Transaction, Progress
  <2>3. CASE j = i
      BY <1>4, <1>5, <1>6, <2>3
  <2> QED
      BY <2>1, <2>2, <2>3
<1>10. \A k \in Keys : (\E j \in x.flushed : KeyAt(j) = k) => Inserted(t, k)
    BY <1>2, <1>7 DEF Inserted, KeyOf
<1> QED
    BY <1>1, <1>7, <1>9, <1>10, CredInside

\* INSERT of the pending entry's key, which nobody else holds.
LEMMA CredFlush ==
    ASSUME CredInv, NEW t \in Tasks, pc[t] = "bootstrap", FlushEntry(t), GoTo(t, "bootstrap")
    PROVE  CredInv'
<1> USE DEF CredInv
<1> DEFINE i == txn[t].pending
           x == [txn[t] EXCEPT !.pending = None, !.flushed = txn[t].flushed \cup {i}]
<1>1. /\ i # None /\ txn' = [txn EXCEPT ![t] = x]
      /\ \A u \in Tasks : ~Inserted(u, KeyAt(i))
      /\ credentials[KeyAt(i)] = None /\ UNCHANGED <<bootstrapped, credentials>>
    BY DEF FlushEntry, Flushed, Unclaimed, PendingKey, KeyOf
<1>2. txn[t] \in Transactions /\ txn[t] # None /\ Transaction(t)
    BY DEF CredTypes, CredentialTypeOK, SeedInv
<1>3. i \in Entries
    BY <1>1, <1>2 DEF Transactions
<1>4. /\ x \in Transactions /\ x.next = txn[t].next /\ x.pending = None
      /\ x.flushed = txn[t].flushed \cup {i}
  <2>1. x.next = txn[t].next /\ x.pending = None /\ x.flushed = txn[t].flushed \cup {i}
      BY <1>2 DEF Transactions
  <2>2. txn[t].flushed \cup {i} \in SUBSET Entries
      BY <1>2, <1>3 DEF Transactions
  <2>3. x \in Transactions
      BY <1>2, <2>2 DEF Transactions
  <2> QED
      BY <2>1, <2>3
<1> HIDE DEF x
<1>5. txn'[t] = x
    BY <1>1 DEF CredTypes, CredentialTypeOK
<1>6. Transaction(t)'
    BY <1>1, <1>2, <1>4, <1>5 DEF Transaction, Progress
<1>7. \A k \in Keys : (\E j \in x.flushed : KeyAt(j) = k) =>
         Inserted(t, k) \/ \A u \in Tasks : ~Inserted(u, k)
    BY <1>1, <1>2, <1>4 DEF Inserted, KeyOf
<1> QED
    BY <1>1, <1>4, <1>6, <1>7, CredInside

\* The other transactions when some end: their own steps are to come.
LEMMA CredEnds ==
    ASSUME CredInv, NEW S \in SUBSET Tasks,
           txn' = [t \in Tasks |-> IF t \in S THEN None ELSE txn[t]],
           pc' \in [Tasks -> Steps \cup {"idle"}],
           \A t \in Tasks : IF t \in S THEN pc'[t] # "bootstrap" ELSE pc'[t] = pc[t],
           bootstrapped' \in [Processes -> BOOLEAN],
           credentials' \in [Keys -> Records \cup {None}],
           request' \in [Tasks -> Requests \cup {None}],
           UNCHANGED home
    PROVE  CredTypes'
<1> USE DEF CredInv
<1>1. \A t \in Tasks : txn'[t] = IF t \in S THEN None ELSE txn[t]
    OBVIOUS
<1>2. \A t \in Tasks, k \in Keys : Inserted(t, k)' => Inserted(t, k)
    BY <1>1 DEF Inserted, KeyOf
<1>3. CredentialTypeOK'
    BY <1>1, <1>2 DEF CredTypes, CredentialTypeOK
<1> QED
    BY <1>1, <1>3 DEF CredTypes

\* The commit seeds the table: every entry had a row, or gets one now.
LEMMA CredCommit ==
    ASSUME CredInv, NEW t \in Tasks, pc[t] = "bootstrap", CommitBootstrap(t), GoTo(t, "mark")
    PROVE  CredInv'
<1> USE DEF CredInv
<1> DEFINE has(k) == \E i \in txn[t].flushed : KeyAt(i) = k
           row(k) == Bootstrap[CHOOSE i \in txn[t].flushed : KeyAt(i) = k].record
<1>1. /\ txn[t].pending = None /\ txn[t].next > Len(Bootstrap) /\ UNCHANGED bootstrapped
      /\ credentials' = [k \in Keys |-> IF has(k) THEN row(k) ELSE credentials[k]]
      /\ txn' = [txn EXCEPT ![t] = None]
    BY DEF CommitBootstrap, Seeds, KeyOf
<1>2. txn[t] \in Transactions /\ txn[t] # None /\ Transaction(t)
    BY DEF CredTypes, CredentialTypeOK, SeedInv
<1>3. \A k \in Keys : has(k) => row(k) \in Records /\ row(k) # None
  <2> SUFFICES ASSUME NEW k \in Keys, has(k) PROVE row(k) \in Records
      BY ListOfKeys
  <2>1. (CHOOSE i \in txn[t].flushed : KeyAt(i) = k) \in txn[t].flushed
      OBVIOUS
  <2>2. txn[t].flushed \subseteq Entries
      BY <1>2 DEF Transactions
  <2> QED
      BY <2>1, <2>2, ListOfKeys
<1> HIDE DEF row
<1>4. credentials' \in [Keys -> Records \cup {None}]
    BY <1>1, <1>3 DEF CredTypes, CredentialTypeOK
<1>5. Seeded'
  <2> SUFFICES ASSUME NEW i \in Entries PROVE credentials'[KeyAt(i)] # None
      BY ListOfKeys DEF Seeded
  <2>1. i < txn[t].next
    <3>1. txn[t].next \in Nat
        BY <1>2 DEF Transactions
    <3> QED
        BY <1>1, <3>1, ListOfKeys
  <2>2. credentials[KeyAt(i)] # None \/ has(KeyAt(i))
      BY <1>1, <1>2, <2>1 DEF Transaction, Progress
  <2> QED
      BY <1>1, <1>3, <2>2, ListOfKeys
<1>6. \A k \in Keys : credentials[k] # None => credentials'[k] # None
    BY <1>1, <1>3
<1> HIDE DEF has
<1>7. pc' = [pc EXCEPT ![t] = "mark"] /\ UNCHANGED <<home, request, answer>>
    BY DEF GoTo
<1>8. CredTypes'
  <2>1. txn' = [u \in Tasks |-> IF u \in {t} THEN None ELSE txn[u]]
    <3>1. txn \in [Tasks -> Transactions \cup {None}]
        BY DEF CredTypes, CredentialTypeOK
    <3> QED
        BY <1>1, <3>1
  <2>2. pc' \in [Tasks -> Steps \cup {"idle"}]
        /\ \A u \in Tasks : IF u \in {t} THEN pc'[u] # "bootstrap" ELSE pc'[u] = pc[u]
      BY <1>7 DEF CredTypes, Steps
  <2>3. bootstrapped' \in [Processes -> BOOLEAN] /\ request' \in [Tasks -> Requests \cup {None}]
      BY <1>1, <1>7 DEF CredTypes, CredentialTypeOK
  <2> DEFINE S == {t}
  <2>4. S \in SUBSET Tasks
      OBVIOUS
  <2>5. UNCHANGED home
      BY <1>7
  <2> HIDE DEF S
  <2>6. /\ txn' = [u \in Tasks |-> IF u \in S THEN None ELSE txn[u]]
        /\ \A u \in Tasks : IF u \in S THEN pc'[u] # "bootstrap" ELSE pc'[u] = pc[u]
      BY <2>1, <2>2 DEF S
  <2> QED
      BY <1>4, <2>2, <2>3, <2>4, <2>5, <2>6, CredEnds
<1>9. SeedInv'
  <2>1. \A u \in Tasks : txn'[u] = IF u = t THEN None ELSE txn[u]
      BY <1>1 DEF CredTypes, CredentialTypeOK
  <2>2. \A u \in Tasks : txn'[u] # None => txn[u] \in Transactions /\ txn'[u] = txn[u]
      BY <2>1 DEF CredTypes, CredentialTypeOK
  <2>3. \A i \in Entries : KeyAt(i) \in Keys
      BY ListOfKeys
  <2>4. ASSUME NEW u \in Tasks, txn'[u] # None, NEW i \in txn'[u].flushed
        PROVE  credentials'[KeyAt(i)] = None
    <3>1. u # t /\ txn[u] # None /\ i \in txn[u].flushed /\ KeyAt(i) \in Keys
        BY <2>1, <2>2, <2>3, <2>4 DEF Transactions
    <3>2. Inserted(u, KeyAt(i)) /\ ~Inserted(t, KeyAt(i))
        BY <3>1 DEF Inserted, KeyOf, CredTypes, CredentialTypeOK
    <3>3. ~has(KeyAt(i)) /\ credentials[KeyAt(i)] = None
        BY <1>2, <3>1, <3>2 DEF Inserted, KeyOf, SeedInv, Transaction, has
    <3> QED
        BY <1>1, <3>1, <3>3
  <2>5. \A u \in Tasks : Transaction(u)'
      BY <1>5, <1>6, <2>2, <2>3, <2>4 DEF SeedInv, Transaction, Progress
  <2> QED
      BY <1>5, <2>5 DEF SeedInv
<1>10. KnownKeyNever401' /\ LoserFindsRows'
  <2>1. UNCHANGED answer
      BY <1>7
  <2> QED
      BY <1>5, <2>1 DEF KnownKeyNever401, LoserFindsRows, Seeded
<1> QED
    BY <1>8, <1>9, <1>10

\* A task of the authentication is answered 500, and its transaction, if it
\* has one, rolls back.
LEMMA CredRollback ==
    ASSUME CredInv, NEW t \in Tasks, Rollback(t),
           NEW cause \in {"IntegrityError", "OperationalError"}, Answer(t, cause),
           cause = "IntegrityError" => Seeded
    PROVE  CredInv'
<1> USE DEF CredInv
<1>1. txn' = [txn EXCEPT ![t] = None] /\ UNCHANGED <<bootstrapped, credentials>>
    BY DEF Rollback
<1>2. /\ UNCHANGED home
      /\ pc' = [u \in Tasks |-> IF u \in {t} THEN "idle" ELSE pc[u]]
      /\ request' = [u \in Tasks |-> IF u \in {t} THEN None ELSE request[u]]
      /\ answer'.cause = cause /\ answer'.status = 500
    BY DEF Answer, Idle, Status
<1>3. CredTypes'
  <2> DEFINE S == {t}
  <2>1. /\ txn' = [u \in Tasks |-> IF u \in S THEN None ELSE txn[u]]
        /\ S \in SUBSET Tasks
    <3>1. txn \in [Tasks -> Transactions \cup {None}]
        BY DEF CredTypes, CredentialTypeOK
    <3> QED
        BY <1>1, <3>1
  <2>2. /\ pc' \in [Tasks -> Steps \cup {"idle"}] /\ request' \in [Tasks -> Requests \cup {None}]
        /\ \A u \in Tasks : IF u \in S THEN pc'[u] # "bootstrap" ELSE pc'[u] = pc[u]
      BY <1>2 DEF CredTypes
  <2>3. /\ bootstrapped' \in [Processes -> BOOLEAN] /\ credentials' \in [Keys -> Records \cup {None}]
        /\ UNCHANGED home
      BY <1>1, <1>2 DEF CredTypes, CredentialTypeOK
  <2> HIDE DEF S
  <2> QED
      BY <2>1, <2>2, <2>3, CredEnds
<1>4. Seeded' = Seeded
    BY <1>1 DEF Seeded
<1>5. SeedInv'
  <2>1. \A u \in Tasks : txn'[u] = IF u = t THEN None ELSE txn[u]
      BY <1>1 DEF CredTypes, CredentialTypeOK
  <2>2. \A u \in Tasks : Transaction(u)'
      BY <1>1, <1>4, <2>1 DEF SeedInv, Transaction, Progress
  <2> QED
      BY <1>1, <1>2, <1>4, <2>2 DEF SeedInv
<1>6. LoserFindsRows' /\ KnownKeyNever401'
    BY <1>1, <1>2, <1>4 DEF LoserFindsRows, KnownKeyNever401, Seeded
<1> QED
    BY <1>3, <1>5, <1>6

\* An INSERT that the unique index refuses: the list is in the table by then.
LEMMA CredFlushFails ==
    ASSUME CredInv, NEW t \in Tasks, pc[t] = "bootstrap", FlushFails(t), Answer(t, "IntegrityError")
    PROVE  CredInv'
<1>1. txn[t].pending # None /\ credentials[KeyAt(txn[t].pending)] # None /\ Rollback(t)
    BY DEF FlushFails, PendingKey, KeyOf
<1>2. txn[t] # None /\ Transaction(t)
    BY DEF CredInv, CredTypes, SeedInv
<1>3. Seeded
    BY <1>1, <1>2 DEF Transaction
<1> QED
    BY <1>1, <1>3, CredRollback

\* The flag is set only after the list is in the table.
LEMMA CredMark ==
    ASSUME CredInv, NEW t \in Tasks, pc[t] = "mark", MarkBootstrapped(home[t]), GoTo(t, "lookup")
    PROVE  CredInv'
<1> USE DEF CredInv
<1>1. /\ bootstrapped' = [bootstrapped EXCEPT ![home[t]] = TRUE] /\ UNCHANGED <<credentials, txn>>
      /\ pc' = [pc EXCEPT ![t] = "lookup"] /\ UNCHANGED <<home, request, answer>>
    BY DEF MarkBootstrapped, GoTo
<1>2. Seeded /\ Seeded' = Seeded
    BY <1>1 DEF SeedInv, Seeded
<1>3. CredTypes'
  <2>1. CredentialTypeOK'
      BY <1>1 DEF CredTypes, CredentialTypeOK, Inserted
  <2> QED
      BY <1>1, <2>1 DEF CredTypes, Steps
<1>4. SeedInv'
  <2>1. \A u \in Tasks : Transaction(u)'
      BY <1>1, <1>2 DEF SeedInv, Transaction, Progress
  <2> QED
      BY <1>2, <2>1 DEF SeedInv
<1>5. KnownKeyNever401' /\ LoserFindsRows'
    BY <1>1 DEF KnownKeyNever401, LoserFindsRows
<1> QED
    BY <1>3, <1>4, <1>5

\* authenticate finds the row of every configured key.
LEMMA CredLookup ==
    ASSUME CredInv, NEW t \in Tasks, Lookup(t)
    PROVE  CredInv'
<1> USE DEF CredInv
<1> DEFINE r == request[t]
           cause == IF r.key = None THEN "AuthenticationError"
                    ELSE Authenticate(r.key, RequiredScopes(r.kind))
           step == IF r.kind \in {"decide", "catalog"} THEN "catalog" ELSE "route"
<1>1. /\ pc[t] = "lookup" /\ UNCHANGED <<bootstrapped, credentials, txn>>
      /\ IF cause = "ok" THEN GoTo(t, step) ELSE Answer(t, cause)
    BY DEF Lookup, credentialVars
<1>2. CASE cause = "ok"
  <2>1. /\ pc' = [pc EXCEPT ![t] = step] /\ UNCHANGED <<home, request, answer>>
        /\ step \in {"catalog", "route"}
      BY <1>1, <1>2 DEF GoTo
  <2> HIDE DEF step
  <2>2. pc' \in [Tasks -> Steps \cup {"idle"}] /\ request' \in [Tasks -> Requests \cup {None}]
      BY <2>1 DEF CredTypes, Steps
  <2>3. \A u \in Tasks :
           \/ pc'[u] = pc[u] /\ request'[u] = request[u]
           \/ pc[u] # "bootstrap" /\ pc'[u] \notin {"bootstrap", "mark", "lookup"}
      BY <1>1, <2>1 DEF CredTypes
  <2> QED
      BY <1>1, <2>1, <2>2, <2>3, CredQuiet
<1>3. CASE cause # "ok"
  <2>1. /\ UNCHANGED home
        /\ pc' = [u \in Tasks |-> IF u \in {t} THEN "idle" ELSE pc[u]]
        /\ request' = [u \in Tasks |-> IF u \in {t} THEN None ELSE request[u]]
        /\ answer'.cause = cause /\ answer'.key = r.key
      BY <1>1, <1>3 DEF Answer, Idle
  <2>2. cause = "AuthenticationError" \/ cause = "AuthorizationError"
      BY <1>3 DEF Authenticate
  <2>3. r.key # None /\ credentials[r.key] = None => r.key \notin BootstrapKeys
      BY <1>1 DEF SeedInv, Seeded
  <2>4. cause = "AuthenticationError" => r.key \notin BootstrapKeys
    <3>1. cause = "AuthenticationError" => r.key = None \/ credentials[r.key] = None
        BY DEF Authenticate
    <3>2. None \notin BootstrapKeys
        BY ListOfKeys
    <3> QED
        BY <2>3, <3>1, <3>2
  <2>5. answer'.status = 401 => cause = "AuthenticationError"
    <3>1. answer'.status = Status(cause, r.kind)
        BY <1>1, <1>3 DEF Answer
    <3>2. cause = "AuthorizationError" => Status(cause, r.kind) = 403
        BY DEF Status
    <3> QED
        BY <2>2, <3>1, <3>2
  <2> HIDE DEF cause
  <2>6. KnownKeyNever401' /\ LoserFindsRows'
      BY <1>1, <2>1, <2>2, <2>4, <2>5 DEF KnownKeyNever401, LoserFindsRows
  <2>7. Seeded' = Seeded /\ \A u : Transaction(u)' = Transaction(u)
      BY <1>1 DEF Seeded, Transaction, Progress
  <2>8. CredTypes'
    <3>1. CredentialTypeOK'
        BY <1>1 DEF CredTypes, CredentialTypeOK, Inserted
    <3> QED
        BY <1>1, <2>1, <3>1 DEF CredTypes
  <2>9. SeedInv'
      BY <1>1, <2>1, <2>7 DEF SeedInv, CredTypes
  <2> QED
      BY <2>6, <2>8, <2>9
<1> QED
    BY <1>2, <1>3

\* A restart rolls open transactions back and clears the flag; the table stays.
LEMMA CredRestart ==
    ASSUME CredInv, NEW p \in Processes, Restart(p)
    PROVE  CredInv'
<1> USE DEF CredInv
<1> DEFINE S == {t \in Tasks : home[t] = p}
<1>1. /\ bootstrapped' = [bootstrapped EXCEPT ![p] = FALSE]
      /\ txn' = [t \in Tasks |-> IF t \in S THEN None ELSE txn[t]]
      /\ UNCHANGED <<credentials, home, answer>>
      /\ pc' = [u \in Tasks |-> IF u \in S THEN "idle" ELSE pc[u]]
      /\ request' = [u \in Tasks |-> IF u \in S THEN None ELSE request[u]]
    BY DEF Restart, CredentialsRestart, Idle
<1>2. S \in SUBSET Tasks
    OBVIOUS
<1> HIDE DEF S
<1>3. CredTypes'
  <2>1. /\ pc' \in [Tasks -> Steps \cup {"idle"}] /\ request' \in [Tasks -> Requests \cup {None}]
        /\ \A u \in Tasks : IF u \in S THEN pc'[u] # "bootstrap" ELSE pc'[u] = pc[u]
      BY <1>1 DEF CredTypes
  <2>2. /\ bootstrapped' \in [Processes -> BOOLEAN] /\ credentials' \in [Keys -> Records \cup {None}]
      BY <1>1 DEF CredTypes, CredentialTypeOK
  <2> QED
      BY <1>1, <1>2, <2>1, <2>2, CredEnds
<1>4. Seeded' = Seeded
    BY <1>1 DEF Seeded
<1>5. ASSUME NEW t \in Tasks PROVE Transaction(t)'
  <2>1. txn'[t] = None \/ txn'[t] = txn[t]
      BY <1>1
  <2> QED
      BY <1>1, <1>4, <2>1 DEF SeedInv, Transaction, Progress
<1>6. SeedInv'
  <2>1. \A q \in Processes : bootstrapped'[q] => bootstrapped[q]
      BY <1>1 DEF CredTypes, CredentialTypeOK
  <2>2. \A t \in Tasks : pc'[t] # "idle" => pc'[t] = pc[t] /\ request'[t] = request[t]
      BY <1>1
  <2> QED
      BY <1>4, <1>5, <2>1, <2>2 DEF SeedInv
<1>7. KnownKeyNever401' /\ LoserFindsRows'
    BY <1>1 DEF KnownKeyNever401, LoserFindsRows
<1> QED
    BY <1>3, <1>6, <1>7

\* A blocked row is still a row.
LEMMA CredBlock ==
    ASSUME CredInv, NEW k \in Keys, Block(k)
    PROVE  CredInv'
<1> USE DEF CredInv
<1>1. /\ credentials[k] # None
      /\ credentials' = [credentials EXCEPT ![k] = [@ EXCEPT !.status = "blocked"]]
      /\ UNCHANGED <<bootstrapped, txn, home, pc, request, answer>>
    BY DEF Block, BlockCredential, taskVars
<1>2. [credentials[k] EXCEPT !.status = "blocked"] \in Records
    BY <1>1 DEF CredTypes, CredentialTypeOK, Records
<1>3. /\ credentials' \in [Keys -> Records \cup {None}]
      /\ \A j \in Keys : credentials[j] # None <=> credentials'[j] # None
    BY <1>1, <1>2, ListOfKeys DEF CredTypes, CredentialTypeOK
<1>4. Seeded' = Seeded
    BY <1>3, ListOfKeys DEF Seeded
<1>5. ASSUME NEW t \in Tasks PROVE Transaction(t)'
  <2>1. txn[t] # None => txn[t] \in Transactions
      BY DEF CredTypes, CredentialTypeOK
  <2>2. txn[t] # None /\ txn[t].pending # None => KeyAt(txn[t].pending) \in Keys
      BY <2>1, ListOfKeys DEF Transactions
  <2>3. \A i \in Entries : KeyAt(i) \in Keys
      BY ListOfKeys
  <2>4. txn[t] # None => \A i \in txn[t].flushed : KeyAt(i) \in Keys
      BY <2>1, <2>3 DEF Transactions
  <2> QED
      BY <1>1, <1>3, <1>4, <2>2, <2>3, <2>4 DEF SeedInv, Transaction, Progress
<1>6. CredTypes'
  <2>1. CredentialTypeOK'
      BY <1>1, <1>3 DEF CredTypes, CredentialTypeOK, Inserted
  <2> QED
      BY <1>1, <2>1 DEF CredTypes
<1>7. SeedInv'
    BY <1>1, <1>4, <1>5 DEF SeedInv
<1>8. KnownKeyNever401' /\ LoserFindsRows'
    BY <1>1, <1>3, ListOfKeys DEF KnownKeyNever401, LoserFindsRows
<1> QED
    BY <1>6, <1>7, <1>8

\* A step of a handler past authentication goes on,
LEMMA CredGoesOn ==
    ASSUME CredInv, NEW t \in Tasks, pc[t] # "bootstrap", UNCHANGED credentialVars,
           NEW step \in Steps \ {"bootstrap", "mark", "lookup"}, GoTo(t, step)
    PROVE  CredInv'
<1>1. pc' = [pc EXCEPT ![t] = step] /\ UNCHANGED <<bootstrapped, credentials, txn, home, request, answer>>
    BY DEF GoTo, credentialVars
<1>2. pc \in [Tasks -> Steps \cup {"idle"}] /\ request \in [Tasks -> Requests \cup {None}]
    BY DEF CredInv, CredTypes
<1>3. pc' \in [Tasks -> Steps \cup {"idle"}]
      /\ \A u \in Tasks :
           \/ pc'[u] = pc[u] /\ request'[u] = request[u]
           \/ pc[u] # "bootstrap" /\ pc'[u] \notin {"bootstrap", "mark", "lookup"}
    BY <1>1, <1>2
<1> QED
    BY <1>1, <1>2, <1>3, CredQuiet

\* or answers, and neither touches a row.
LEMMA CredAnswers ==
    ASSUME CredInv, NEW t \in Tasks, pc[t] # "bootstrap", UNCHANGED credentialVars,
           NEW cause \in ParseErrors \cup {"ok", "NotFoundError", "AuthorizationError", "QuotaExceededError"}, Answer(t, cause)
    PROVE  CredInv'
<1>1. /\ UNCHANGED <<bootstrapped, credentials, txn, home>>
      /\ pc' = [u \in Tasks |-> IF u \in {t} THEN "idle" ELSE pc[u]]
      /\ request' = [u \in Tasks |-> IF u \in {t} THEN None ELSE request[u]]
    BY DEF Answer, Idle, credentialVars
<1>2. answer' = None \/ (answer'.status # 401 /\ answer'.cause # "IntegrityError")
  <2>1. CASE cause = "ok"
      BY <2>1 DEF Answer
  <2>2. CASE cause # "ok"
    <3>1. answer'.cause = cause /\ answer'.status = Status(cause, request[t].kind)
        BY <2>2 DEF Answer
    <3>2. Status(cause, request[t].kind) # 401 /\ cause # "IntegrityError"
        BY DEF Status, ParseErrors
    <3> QED
        BY <3>1, <3>2
  <2> QED
      BY <2>1, <2>2
<1>3. pc \in [Tasks -> Steps \cup {"idle"}] /\ request \in [Tasks -> Requests \cup {None}]
    BY DEF CredInv, CredTypes
<1>4. /\ pc' \in [Tasks -> Steps \cup {"idle"}] /\ request' \in [Tasks -> Requests \cup {None}]
      /\ \A u \in Tasks :
           \/ pc'[u] = pc[u] /\ request'[u] = request[u]
           \/ pc[u] # "bootstrap" /\ pc'[u] \notin {"bootstrap", "mark", "lookup"}
    BY <1>1, <1>3
<1> QED
    BY <1>1, <1>2, <1>4, CredQuiet

\* What get_snapshot raises in any process is what parsing raises.
LEMMA RaisedCauses == file \in Files => \A p : Raised(p) \in ParseErrors \cup {"ok"}
<1> QED
    BY ParseAssumption DEF Raised

\* At the start nobody has answered, and no process has marked a bootstrap.
LEMMA CredInitially == Init => CredInv
<1> SUFFICES ASSUME Init PROVE CredInv
    OBVIOUS
<1>1. /\ bootstrapped = [p \in Processes |-> FALSE] /\ txn = [t \in Tasks |-> None]
      /\ credentials \in [Keys -> Records \cup {None}]
      /\ home \in [Tasks -> Processes] /\ pc = [t \in Tasks |-> "idle"]
      /\ request = [t \in Tasks |-> None] /\ answer = None
    BY RequestAssumption DEF Init, CredentialInit
<1>2. CredTypes
    BY <1>1 DEF CredTypes, CredentialTypeOK, Inserted
<1>3. SeedInv /\ KnownKeyNever401 /\ LoserFindsRows
    BY <1>1 DEF SeedInv, KnownKeyNever401, LoserFindsRows, Transaction
<1> QED
    BY <1>2, <1>3 DEF CredInv

\* Every step keeps the credential table's invariant.
LEMMA CredNext == CredInv /\ file \in Files /\ [Next]_vars => CredInv'
<1> SUFFICES ASSUME CredInv, file \in Files, [Next]_vars PROVE CredInv'
    OBVIOUS
<1> USE DEF Steps
<1>1. ASSUME NEW t \in Tasks, BootstrapStep(t) PROVE CredInv'
    BY <1>1, CredSelect, CredFlush, CredCommit, CredFlushFails, CredMark DEF BootstrapStep
<1>2. ASSUME NEW t \in Tasks, ReadCatalog(t) PROVE CredInv'
  <2> DEFINE p == home[t]
             cause == IF Raised(p) # "ok" THEN Raised(p)
                      ELSE IF request[t].kind = "decide" /\ PolicyOf(request[t]) \notin PolicyIds
                           THEN "NotFoundError" ELSE "ok"
             step == IF request[t].kind = "decide" THEN "version" ELSE "route"
  <2>1. pc[t] = "catalog" /\ UNCHANGED credentialVars
      BY <1>2 DEF ReadCatalog
  <2>2. \/ cause # "ok" /\ Answer(t, cause)
        \/ /\ pc' = [pc EXCEPT ![t] = step] /\ UNCHANGED <<home, request, answer>>
      BY <1>2 DEF ReadCatalog
  <2>3. cause \in ParseErrors \cup {"ok", "NotFoundError", "AuthorizationError", "QuotaExceededError"}
      BY RaisedCauses
  <2> HIDE DEF cause
  <2>4. CASE cause # "ok" /\ Answer(t, cause)
      BY <2>1, <2>3, <2>4, CredAnswers
  <2>5. CASE pc' = [pc EXCEPT ![t] = step] /\ UNCHANGED <<home, request, answer>>
    <3>1. step \in {"version", "route"}
        OBVIOUS
    <3> HIDE DEF step
    <3>2. pc \in [Tasks -> Steps \cup {"idle"}] /\ request \in [Tasks -> Requests \cup {None}]
        BY DEF CredInv, CredTypes
    <3>3. /\ pc' \in [Tasks -> Steps \cup {"idle"}] /\ request' \in [Tasks -> Requests \cup {None}]
          /\ \A u \in Tasks :
               \/ pc'[u] = pc[u] /\ request'[u] = request[u]
               \/ pc[u] # "bootstrap" /\ pc'[u] \notin {"bootstrap", "mark", "lookup"}
        BY <2>1, <2>5, <3>1, <3>2
    <3> QED
        BY <2>1, <2>5, <3>3, CredQuiet DEF credentialVars
  <2> QED
      BY <2>2, <2>4, <2>5
<1>3. ASSUME NEW t \in Tasks, SelectVersion(t) \/ StoreVersion(t) \/ SelectPolicies(t)
                              \/ StorePolicies(t) \/ MetadataFails(t)
      PROVE  CredInv'
  <2>1. PICK step \in {"policies", "insert_version", "route", "update_policies", "insert_policies"} :
           GoTo(t, step)
      BY <1>3 DEF SelectVersion, StoreVersion, SelectPolicies, StorePolicies, MetadataFails
  <2>2. pc[t] # "bootstrap" /\ UNCHANGED credentialVars
      BY <1>3 DEF SelectVersion, StoreVersion, SelectPolicies, StorePolicies, MetadataFails
  <2> QED
      BY <2>1, <2>2, CredGoesOn
<1>4. ASSUME NEW t \in Tasks, Route(t) PROVE CredInv'
    BY <1>4, CredAnswers DEF Route
<1>5. ASSUME (\E f \in Files : Edit(f)) \/ UNCHANGED vars PROVE CredInv'
  <2>1. UNCHANGED <<bootstrapped, credentials, txn, home, pc, request, answer>>
      BY <1>5 DEF Edit, vars, credentialVars, taskVars
  <2>2. pc' \in [Tasks -> Steps \cup {"idle"}] /\ request' \in [Tasks -> Requests \cup {None}]
      BY <2>1 DEF CredInv, CredTypes
  <2> QED
      BY <2>1, <2>2, CredQuiet
<1>6. ASSUME NEW t \in Tasks, Refuse(t) PROVE CredInv'
  <2>1. PICK cause \in {"AuthorizationError", "QuotaExceededError", "NotFoundError"} : Answer(t, cause)
      BY <1>6 DEF Refuse, Refusals
  <2>2. pc[t] # "bootstrap" /\ UNCHANGED credentialVars
      BY <1>6 DEF Refuse
  <2> QED
      BY <2>1, <2>2, CredAnswers
<1>7. ASSUME NEW t \in Tasks, DatabaseFails(t) PROVE CredInv'
  <2>1. Rollback(t) /\ Answer(t, "OperationalError")
      BY <1>7 DEF DatabaseFails
  <2> QED
      BY <2>1, CredRollback
<1> QED
    BY <1>1, <1>2, <1>3, <1>4, <1>5, <1>6, <1>7, CredBegin, CredLookup, CredRestart, CredBlock
       DEF Next, TaskStep

-----------------------------------------------------------------------------
(* The catalog *)

\* The bounds count up, and a step without a fault leaves the faults.
LEMMA Counting ==
    ASSUME Counted,
           \/ UNCHANGED counters
           \/ requests < MaxRequests /\ requests' = requests + 1 /\ UNCHANGED <<changes, faults>>
           \/ Fault
           \/ Change
    PROVE  Counted' /\ (faults' = 0 => faults = 0)
<1> USE RequestAssumption DEF Counted
<1>1. CASE UNCHANGED counters
    BY <1>1 DEF counters
<1>2. CASE requests < MaxRequests /\ requests' = requests + 1 /\ UNCHANGED <<changes, faults>>
    BY <1>2
<1>3. CASE Fault
    BY <1>3 DEF Fault
<1>4. CASE Change
    BY <1>4 DEF Change
<1> QED
    BY <1>1, <1>2, <1>3, <1>4

\* A task goes on: it has its catalog where the next step needs it, and its
\* version is stored before its decision.
LEMMA CatGoesOn ==
    ASSUME CatInv, NEW t \in Tasks, NEW step \in Steps, GoTo(t, step), pc[t] # "idle",
           UNCHANGED <<file, cache, held, decided>>, Counted', faults' = 0 => faults = 0,
           versions' \in [Versions -> Files \cup {NoSnapshot}], policiesStored' \in BOOLEAN,
           \A f : VersionStored(f) => VersionStored(f)',
           \A v \in Versions : versions'[v] # NoSnapshot =>
              versions'[v] \in held /\ VersionOf[versions'[v]] = v,
           step \in Recording \cup Recorded \/ (step = "route" /\ request[t].kind = "decide")
              => catalog[t] # NoSnapshot,
           faults' = 0 /\ (step \in Recorded \/ (step = "route" /\ request[t].kind = "decide"))
              => VersionStored(catalog[t])'
    PROVE  CatInv'
<1> USE DEF CatInv
<1>1. pc' = [pc EXCEPT ![t] = step] /\ UNCHANGED <<home, request, catalog, answer, current>>
    BY DEF GoTo
<1>2. step # "idle" /\ pc'[t] = step /\ \A u \in Tasks : u # t => pc'[u] = pc[u]
    BY <1>1 DEF CatTypes, Steps
<1>3. CatTypes'
    BY <1>1 DEF CatTypes, CatalogTypeOK
<1>4. CacheInv'
    BY DEF CacheInv
<1>5. TaskInv'
  <2> SUFFICES ASSUME NEW u \in Tasks
               PROVE  /\ current[u] \subseteq held
                      /\ IF pc'[u] = "idle" THEN catalog[u] = NoSnapshot ELSE file \in current[u]
                      /\ catalog[u] # NoSnapshot => catalog[u] \in current[u]
                      /\ HasCatalog(u)' /\ HasVersion(u)'
      BY <1>1 DEF TaskInv
  <2>1. CASE u = t
      BY <1>1, <1>2, <2>1 DEF TaskInv, HasCatalog, HasVersion, VersionStored
  <2>2. CASE u # t
      BY <1>1, <1>2, <2>2 DEF TaskInv, HasCatalog, HasVersion, VersionStored
  <2> QED
      BY <2>1, <2>2
<1>6. VersionsInv'
    BY DEF VersionsInv
<1>7. AnswerInv'
    BY <1>1 DEF AnswerInv
<1> QED
    BY <1>3, <1>4, <1>5, <1>6, <1>7

\* Tasks end, with an answer or with their process.
LEMMA CatEnds ==
    ASSUME CatInv, NEW S \in SUBSET Tasks, Idle(S),
           UNCHANGED <<file, versions, policiesStored, held>>, Counted', faults' = 0 => faults = 0,
           cache' \in [Registries -> [snapshot : Files \cup {NoSnapshot}, checksum : Files \cup {NoSnapshot}]],
           CacheInv', AnswerInv', decided' \subseteq held,
           faults' = 0 => \A f \in decided' : VersionStored(f)
    PROVE  CatInv'
<1> USE DEF CatInv
<1>1. /\ UNCHANGED home
      /\ pc' = [t \in Tasks |-> IF t \in S THEN "idle" ELSE pc[t]]
      /\ request' = [t \in Tasks |-> IF t \in S THEN None ELSE request[t]]
      /\ catalog' = [t \in Tasks |-> IF t \in S THEN NoSnapshot ELSE catalog[t]]
      /\ current' = [t \in Tasks |-> IF t \in S THEN {} ELSE current[t]]
    BY DEF Idle
<1>2. CatTypes'
    BY <1>1 DEF CatTypes, CatalogTypeOK
<1>3. TaskInv'
  <2> SUFFICES ASSUME NEW u \in Tasks
               PROVE  /\ current'[u] \subseteq held
                      /\ IF pc'[u] = "idle" THEN catalog'[u] = NoSnapshot ELSE file \in current'[u]
                      /\ catalog'[u] # NoSnapshot => catalog'[u] \in current'[u]
                      /\ HasCatalog(u)' /\ HasVersion(u)'
      BY DEF TaskInv
  <2>1. CASE u \in S
      BY <1>1, <2>1 DEF HasCatalog, HasVersion, Recording, Recorded
  <2>2. CASE u \notin S
      BY <1>1, <2>2 DEF TaskInv, HasCatalog, HasVersion, VersionStored
  <2> QED
      BY <2>1, <2>2
<1>4. VersionsInv'
    BY DEF VersionsInv, VersionStored
<1> QED
    BY <1>2, <1>3, <1>4

\* A request starts with what the file holds, and without a catalog.
LEMMA CatBegin ==
    ASSUME CatInv, NEW t \in Tasks, NEW r \in Requests, Begin(t, r)
    PROVE  CatInv'
<1> USE DEF CatInv
<1> DEFINE step == FirstStep(r, home[t])
<1>1. /\ pc[t] = "idle" /\ pc' = [pc EXCEPT ![t] = step] /\ request' = [request EXCEPT ![t] = r]
      /\ current' = [current EXCEPT ![t] = {file}]
      /\ UNCHANGED <<file, cache, versions, policiesStored, home, catalog, answer, held, decided>>
      /\ requests < MaxRequests /\ requests' = requests + 1 /\ UNCHANGED <<changes, faults>>
    BY DEF Begin, catalogVars
<1>2. step \in Steps \ (Recording \cup Recorded) /\ (step = "route" => r.kind = "live" \/ r.kind = "ready")
    BY DEF FirstStep, Steps, Recording, Recorded
<1>3. Counted' /\ (faults' = 0 => faults = 0)
    BY <1>1, Counting DEF CatTypes
<1> HIDE DEF step
<1>4. /\ pc'[t] = step /\ current'[t] = {file} /\ step # "idle" /\ catalog[t] = NoSnapshot
      /\ file \in held /\ file \in Files
      /\ \A u \in Tasks : u # t => pc'[u] = pc[u] /\ current'[u] = current[u] /\ request'[u] = request[u]
    BY <1>1, <1>2 DEF CatTypes, CatalogTypeOK, TaskInv, Steps
<1>5. CatTypes'
    BY <1>1, <1>2, <1>3, <1>4 DEF CatTypes, CatalogTypeOK
<1>6. TaskInv'
  <2> SUFFICES ASSUME NEW u \in Tasks
               PROVE  /\ current'[u] \subseteq held
                      /\ IF pc'[u] = "idle" THEN catalog[u] = NoSnapshot ELSE file \in current'[u]
                      /\ catalog[u] # NoSnapshot => catalog[u] \in current'[u]
                      /\ HasCatalog(u)' /\ HasVersion(u)'
      BY <1>1 DEF TaskInv
  <2>1. CASE u = t
    <3>1. request'[t].kind # "decide" \/ step # "route"
        BY <1>1, <1>2 DEF CatTypes
    <3> QED
        BY <1>1, <1>2, <1>4, <2>1, <3>1 DEF HasCatalog, HasVersion
  <2>2. CASE u # t
      BY <1>1, <1>4, <2>2 DEF TaskInv, HasCatalog, HasVersion, VersionStored
  <2> QED
      BY <2>1, <2>2
<1>7. CacheInv' /\ VersionsInv' /\ AnswerInv'
    BY <1>1 DEF CacheInv, VersionsInv, AnswerInv, VersionStored
<1> QED
    BY <1>5, <1>6, <1>7

\* The cache is used only while the file still holds the text it was made of.
LEMMA SnapshotIsTheFile ==
    ASSUME CatTypes, CacheInv, NEW p \in Registries
    PROVE  /\ Snapshot(p) = file
           /\ Raised(p) = "ok" \/ (Raised(p) \in ParseErrors /\ ParseOf[file] = Raised(p))
           /\ Raised(p) = "ok" => ParseOf[file] = "ok"
           /\ ReadSnapshot(p) =>
                 /\ UNCHANGED <<file, versions, policiesStored>>
                 /\ cache' \in [Registries -> [snapshot : Files \cup {NoSnapshot},
                                               checksum : Files \cup {NoSnapshot}]]
                 /\ CacheInv'
<1>1. Hit(p) => cache[p].snapshot = file /\ ParseOf[file] = "ok"
    BY DEF Hit, CacheInv
<1>2. file \in Files /\ ParseOf[file] \in ParseErrors \cup {"ok"}
    BY ParseAssumption DEF CatTypes, CatalogTypeOK
<1>3. /\ Snapshot(p) = file
      /\ Raised(p) = "ok" \/ (Raised(p) \in ParseErrors /\ ParseOf[file] = Raised(p))
      /\ Raised(p) = "ok" => ParseOf[file] = "ok"
    BY <1>1, <1>2 DEF Snapshot, Raised
<1>4. ASSUME ReadSnapshot(p)
      PROVE  /\ UNCHANGED <<file, versions, policiesStored>>
             /\ cache' \in [Registries -> [snapshot : Files \cup {NoSnapshot},
                                           checksum : Files \cup {NoSnapshot}]]
             /\ CacheInv'
  <2> DEFINE c == [snapshot |-> file, checksum |-> file]
             d == IF Raised(p) = "ok" THEN c ELSE cache[p]
  <2>1. cache' = [cache EXCEPT ![p] = d] /\ UNCHANGED <<file, versions, policiesStored>>
      BY <1>3, <1>4 DEF ReadSnapshot, Cached
  <2>2. cache \in [Registries -> [snapshot : Files \cup {NoSnapshot}, checksum : Files \cup {NoSnapshot}]]
      BY DEF CatTypes, CatalogTypeOK
  <2>3. /\ d \in [snapshot : Files \cup {NoSnapshot}, checksum : Files \cup {NoSnapshot}]
        /\ d.snapshot # NoSnapshot => d.snapshot = d.checksum /\ ParseOf[d.snapshot] = "ok"
      BY <1>2, <1>3, <2>2 DEF CacheInv
  <2> HIDE DEF d
  <2> QED
      BY <2>1, <2>2, <2>3 DEF CacheInv
<1> QED
    BY <1>3, <1>4

\* An error is answered with a status, and with the catalogs the request saw.
LEMMA AnswerTells ==
    ASSUME AnswerInv, NEW t \in Tasks, NEW cause \in Causes \cup {"ok"}, Answer(t, cause),
           cause \in ParseErrors => \E f \in current[t] : ParseOf[f] = cause
    PROVE  AnswerInv' /\ Idle({t})
<1>1. CASE cause = "ok"
    BY <1>1 DEF Answer, AnswerInv
<1>2. CASE cause # "ok"
  <2>1. /\ answer'.cause = cause /\ answer'.status = Status(cause, request[t].kind)
        /\ answer'.current = current[t]
      BY <1>2 DEF Answer
  <2>2. Status(cause, request[t].kind) \in Statuses
      BY DEF Status, Statuses
  <2> QED
      BY <1>2, <2>1, <2>2 DEF AnswerInv, Answer
<1> QED
    BY <1>1, <1>2

\* A task that answers leaves the catalog and its tables as they are.
LEMMA CatAnswers ==
    ASSUME CatInv, NEW t \in Tasks, NEW cause \in Causes \cup {"ok"}, Answer(t, cause),
           cause \in ParseErrors => \E f \in current[t] : ParseOf[f] = cause,
           UNCHANGED <<file, versions, policiesStored, held, counters>>,
           cache' \in [Registries -> [snapshot : Files \cup {NoSnapshot}, checksum : Files \cup {NoSnapshot}]],
           CacheInv', decided' \subseteq held,
           faults = 0 => \A f \in decided' : VersionStored(f)
    PROVE  CatInv'
<1> DEFINE S == {t}
<1>1. AnswerInv' /\ Idle(S) /\ S \in SUBSET Tasks
    BY AnswerTells DEF CatInv
<1>2. Counted' /\ faults' = faults
    BY Counting DEF CatInv, CatTypes, counters
<1> HIDE DEF S
<1> QED
    BY <1>1, <1>2, CatEnds

\* get_snapshot gives a request the catalog of this moment, or the exception
\* its parsing raises.
LEMMA CatRead ==
    ASSUME CatInv, NEW t \in Tasks, ReadCatalog(t)
    PROVE  CatInv'
<1> USE DEF CatInv
<1> DEFINE p == home[t]
           unknown == request[t].kind = "decide" /\ PolicyOf(request[t]) \notin PolicyIds
           cause == IF Raised(p) # "ok" THEN Raised(p) ELSE IF unknown THEN "NotFoundError" ELSE "ok"
           step == IF request[t].kind = "decide" THEN "version" ELSE "route"
<1>1. /\ pc[t] = "catalog" /\ ReadSnapshot(p) /\ UNCHANGED <<held, decided, counters>>
      /\ \/ cause # "ok" /\ Answer(t, cause)
         \/ /\ pc' = [pc EXCEPT ![t] = step] /\ catalog' = [catalog EXCEPT ![t] = Snapshot(p)]
            /\ UNCHANGED <<home, request, answer, current>>
    BY DEF ReadCatalog
<1>2. p \in Registries
    BY RequestAssumption DEF CatTypes
<1>3. file \in current[t] /\ file \in Files /\ current[t] \subseteq held
    BY <1>1 DEF TaskInv, CatTypes, CatalogTypeOK
<1> HIDE DEF p
<1>4. /\ Snapshot(p) = file
      /\ Raised(p) = "ok" \/ (Raised(p) \in ParseErrors /\ ParseOf[file] = Raised(p))
      /\ UNCHANGED <<file, versions, policiesStored>>
      /\ cache' \in [Registries -> [snapshot : Files \cup {NoSnapshot}, checksum : Files \cup {NoSnapshot}]]
      /\ CacheInv'
    BY <1>1, <1>2, SnapshotIsTheFile
<1>5. /\ cause \in Causes \cup {"ok"}
      /\ cause \in ParseErrors => \E f \in current[t] : ParseOf[f] = cause
    BY <1>3, <1>4 DEF Causes, ParseErrors
<1> HIDE DEF cause
<1>6. CASE Answer(t, cause)
  <2>1. decided' \subseteq held /\ (faults = 0 => \A f \in decided' : VersionStored(f))
      BY <1>1 DEF CatTypes, VersionsInv
  <2> QED
      BY <1>1, <1>4, <1>5, <1>6, <2>1, CatAnswers
<1>7. CASE /\ pc' = [pc EXCEPT ![t] = step] /\ catalog' = [catalog EXCEPT ![t] = Snapshot(p)]
           /\ UNCHANGED <<home, request, answer, current>>
  <2>1. step \in {"version", "route"} /\ (step = "route" => request[t].kind # "decide")
      OBVIOUS
  <2> HIDE DEF step
  <2>2. /\ pc'[t] = step /\ catalog'[t] = file /\ file # NoSnapshot
        /\ \A u \in Tasks : u # t => pc'[u] = pc[u] /\ catalog'[u] = catalog[u]
      BY <1>3, <1>4, <1>7, ParseAssumption DEF CatTypes
  <2>3. CatTypes'
      BY <1>1, <1>3, <1>4, <1>7, <2>1 DEF CatTypes, CatalogTypeOK, Counted, counters, Steps
  <2>4. TaskInv'
    <3> SUFFICES ASSUME NEW u \in Tasks
                 PROVE  /\ current[u] \subseteq held
                        /\ IF pc'[u] = "idle" THEN catalog'[u] = NoSnapshot ELSE file \in current[u]
                        /\ catalog'[u] # NoSnapshot => catalog'[u] \in current[u]
                        /\ HasCatalog(u)' /\ HasVersion(u)'
        BY <1>1, <1>4, <1>7 DEF TaskInv
    <3>1. CASE u = t
        BY <1>3, <1>7, <2>1, <2>2, <3>1 DEF HasCatalog, HasVersion, Recorded
    <3>2. CASE u # t
        BY <1>1, <1>4, <1>7, <2>2, <3>2 DEF TaskInv, HasCatalog, HasVersion, VersionStored, counters
    <3> QED
        BY <3>1, <3>2
  <2>5. VersionsInv' /\ AnswerInv'
      BY <1>1, <1>4, <1>7 DEF VersionsInv, AnswerInv, VersionStored, counters
  <2> QED
      BY <1>4, <2>3, <2>4, <2>5
<1> QED
    BY <1>1, <1>6, <1>7

\* A task goes on and nothing is written to the catalog's tables.
LEMMA CatPasses ==
    ASSUME CatInv, NEW t \in Tasks, NEW step \in Steps, GoTo(t, step), pc[t] # "idle",
           UNCHANGED <<catalogVars, held, decided>>, Counted', faults' = 0 => faults = 0,
           step \in Recording \cup Recorded \/ (step = "route" /\ request[t].kind = "decide")
              => catalog[t] # NoSnapshot,
           faults' = 0 /\ (step \in Recorded \/ (step = "route" /\ request[t].kind = "decide"))
              => VersionStored(catalog[t])
    PROVE  CatInv'
<1>1. UNCHANGED <<file, cache, versions, policiesStored>>
    BY DEF catalogVars
<1>2. /\ versions' \in [Versions -> Files \cup {NoSnapshot}] /\ policiesStored' \in BOOLEAN
      /\ \A f : VersionStored(f)' = VersionStored(f)
      /\ \A v \in Versions : versions'[v] # NoSnapshot =>
            versions'[v] \in held /\ VersionOf[versions'[v]] = v
    BY <1>1 DEF CatInv, CatTypes, CatalogTypeOK, VersionsInv, VersionStored
<1>3. UNCHANGED <<file, cache, held, decided>>
    BY <1>1
<1>4. VersionStored(catalog[t])' = VersionStored(catalog[t])
    BY <1>1 DEF VersionStored, GoTo
<1> QED
    BY <1>2, <1>3, <1>4, CatGoesOn

\* Authentication is over before a request has a catalog.
LEMMA CatAuthenticates ==
    ASSUME CatInv, NEW t \in Tasks, BootstrapStep(t) \/ Lookup(t)
    PROVE  CatInv'
<1>1. /\ UNCHANGED <<catalogVars, held, decided, counters>> /\ pc[t] \in {"bootstrap", "mark", "lookup"}
    BY DEF BootstrapStep, Lookup
<1>2. UNCHANGED <<file, cache, versions, policiesStored>>
    BY <1>1 DEF catalogVars
<1>3. Counted' /\ (faults' = 0 => faults = 0)
    BY <1>1, Counting DEF CatInv, CatTypes
<1>4. \/ \E step \in {"bootstrap", "mark", "lookup", "catalog"} : GoTo(t, step)
      \/ request[t].kind # "decide" /\ GoTo(t, "route")
      \/ \E cause \in {"IntegrityError", "AuthenticationError", "AuthorizationError"} : Answer(t, cause)
    BY DEF BootstrapStep, Lookup, Authenticate
<1>5. ASSUME NEW step \in Steps \ (Recording \cup Recorded), GoTo(t, step),
             step = "route" => request[t].kind # "decide"
      PROVE  CatInv'
  <2>1. ~(step \in Recording \cup Recorded \/ (step = "route" /\ request[t].kind = "decide"))
      BY <1>5
  <2> QED
      BY <1>1, <1>3, <1>5, <2>1, CatPasses
<1>6. ASSUME NEW cause \in {"IntegrityError", "AuthenticationError", "AuthorizationError"}, Answer(t, cause)
      PROVE  CatInv'
  <2>1. cause \in Causes \cup {"ok"} /\ cause \notin ParseErrors
      BY DEF Causes, ParseErrors
  <2>2. /\ cache' \in [Registries -> [snapshot : Files \cup {NoSnapshot}, checksum : Files \cup {NoSnapshot}]]
        /\ CacheInv' /\ decided' \subseteq held /\ (faults = 0 => \A f \in decided' : VersionStored(f))
      BY <1>1, <1>2 DEF CatInv, CatTypes, CatalogTypeOK, CacheInv, VersionsInv
  <2> QED
      BY <1>1, <1>2, <1>6, <2>1, <2>2, CatAnswers
<1> QED
    BY <1>4, <1>5, <1>6 DEF Steps, Recording, Recorded

\* ensure_catalog_version and ensure_policies: the row is there, was inserted,
\* or was inserted by a faster request.
LEMMA CatRecords ==
    ASSUME CatInv, NEW t \in Tasks,
           SelectVersion(t) \/ StoreVersion(t) \/ SelectPolicies(t) \/ StorePolicies(t)
    PROVE  CatInv'
<1> USE DEF CatInv
<1>1. /\ UNCHANGED <<held, decided, counters>> /\ pc[t] \in Recording \cup Recorded
    BY DEF SelectVersion, StoreVersion, SelectPolicies, StorePolicies, Recording, Recorded
<1>2. Counted' /\ (faults' = 0 => faults = 0) /\ faults' = faults
    BY <1>1, Counting DEF CatTypes, counters
<1>3. catalog[t] # NoSnapshot /\ catalog[t] \in held /\ catalog[t] \in Files /\ pc[t] # "idle"
    BY <1>1 DEF TaskInv, HasCatalog, CatTypes, Recording, Recorded
<1>4. pc[t] \in Recorded /\ faults = 0 => VersionStored(catalog[t])
    BY DEF TaskInv, HasVersion
<1>5. CASE SelectVersion(t)
    BY <1>1, <1>2, <1>3, <1>5, CatPasses DEF SelectVersion, Steps, Recorded
<1>6. CASE SelectPolicies(t)
    BY <1>1, <1>2, <1>3, <1>4, <1>6, CatPasses DEF SelectPolicies, Steps, Recorded
<1>7. CASE StoreVersion(t) /\ VersionStored(catalog[t]) /\ GoTo(t, "route") /\ UNCHANGED catalogVars
    BY <1>1, <1>2, <1>3, <1>7, CatPasses DEF Steps
<1>8. CASE InsertVersion(catalog[t]) /\ GoTo(t, "policies")
  <2> DEFINE f == catalog[t]
             v == VersionOf[f]
  <2>1. /\ versions[v] = NoSnapshot /\ versions' = [versions EXCEPT ![v] = f]
        /\ UNCHANGED <<file, cache, policiesStored>>
      BY <1>8 DEF InsertVersion, VersionStored
  <2>2. v \in Versions
      BY <1>3 DEF Versions
  <2>3. versions \in [Versions -> Files \cup {NoSnapshot}] /\ policiesStored \in BOOLEAN
      BY DEF CatTypes, CatalogTypeOK
  <2> HIDE DEF v
  <2>4. /\ versions' \in [Versions -> Files \cup {NoSnapshot}]
        /\ \A w \in Versions : versions'[w] = IF w = v THEN f ELSE versions[w]
      BY <1>3, <2>1, <2>2, <2>3
  <2>5. \A w \in Versions : versions'[w] # NoSnapshot =>
           versions'[w] \in held /\ VersionOf[versions'[w]] = w
      BY <1>3, <2>4 DEF VersionsInv, v
  <2>6. \A g : versions[VersionOf[g]] # NoSnapshot => versions'[VersionOf[g]] # NoSnapshot
      BY <1>3, <2>1, <2>2, <2>3
  <2>7. versions'[v] = f
      BY <2>2, <2>4
  <2>8. VersionStored(f)' /\ \A g : VersionStored(g) => VersionStored(g)'
    <3>1. catalog' = catalog
        BY <1>8 DEF GoTo
    <3> QED
        BY <1>3, <2>6, <2>7, <3>1 DEF VersionStored, v
  <2>9. "policies" \in Steps /\ GoTo(t, "policies") /\ UNCHANGED <<file, cache, held, decided>>
        /\ policiesStored' \in BOOLEAN
      BY <1>1, <1>8, <2>1, <2>3 DEF Steps
  <2> QED
      BY <1>2, <1>3, <2>4, <2>5, <2>8, <2>9, CatGoesOn
<1>9. CASE StorePolicies(t)
  <2>1. /\ pc[t] \in Recorded /\ GoTo(t, "route") /\ UNCHANGED <<file, cache, versions>>
        /\ policiesStored' \in BOOLEAN
      BY <1>9 DEF StorePolicies, WritePolicies, PoliciesAfter, catalogVars, Recorded, CatTypes, CatalogTypeOK
  <2>2. /\ versions' \in [Versions -> Files \cup {NoSnapshot}]
        /\ \A f : VersionStored(f)' = VersionStored(f)
        /\ \A v \in Versions : versions'[v] # NoSnapshot =>
              versions'[v] \in held /\ VersionOf[versions'[v]] = v
      BY <2>1 DEF CatTypes, CatalogTypeOK, VersionsInv, VersionStored
  <2>3. "route" \in Steps /\ UNCHANGED <<file, cache, held, decided>>
      BY <1>1, <2>1 DEF Steps
  <2>4. faults' = 0 => VersionStored(catalog[t])'
    <3>1. catalog' = catalog
        BY <2>1 DEF GoTo
    <3> QED
        BY <1>2, <1>4, <2>1, <3>1 DEF VersionStored
  <2> QED
      BY <1>2, <1>3, <2>1, <2>2, <2>3, <2>4, CatGoesOn
<1> QED
    BY <1>5, <1>6, <1>7, <1>8, <1>9 DEF StoreVersion

\* A decision is made on a catalog whose version has its row.
LEMMA CatRoute ==
    ASSUME CatInv, NEW t \in Tasks, Route(t)
    PROVE  CatInv'
<1> USE DEF CatInv
<1>1. /\ pc[t] = "route" /\ Answer(t, "ok") /\ UNCHANGED <<file, cache, versions, policiesStored, held, counters>>
      /\ decided' = IF request[t].kind = "decide" THEN decided \cup {catalog[t]} ELSE decided
    BY DEF Route, catalogVars
<1>2. request[t].kind = "decide" => catalog[t] \in held /\ (faults = 0 => VersionStored(catalog[t]))
    BY <1>1 DEF TaskInv, HasCatalog, HasVersion
<1>3. decided' \subseteq held /\ (faults = 0 => \A f \in decided' : VersionStored(f))
    BY <1>1, <1>2 DEF CatTypes, VersionsInv
<1>4. /\ cache' \in [Registries -> [snapshot : Files \cup {NoSnapshot}, checksum : Files \cup {NoSnapshot}]]
      /\ CacheInv'
    BY <1>1 DEF CatTypes, CatalogTypeOK, CacheInv
<1>5. "ok" \in Causes \cup {"ok"} /\ "ok" \notin ParseErrors
    BY DEF ParseErrors
<1> QED
    BY <1>1, <1>3, <1>4, <1>5, CatAnswers

\* A refusal names no exception of the parser.
LEMMA CatRefuse ==
    ASSUME CatInv, NEW t \in Tasks, Refuse(t)
    PROVE  CatInv'
<1>1. PICK cause \in {"AuthorizationError", "QuotaExceededError", "NotFoundError"} : Answer(t, cause)
    BY DEF Refuse, Refusals
<1>2. UNCHANGED <<file, cache, versions, policiesStored, held, decided, counters>>
    BY DEF Refuse, catalogVars
<1>3. cause \in Causes \cup {"ok"} /\ cause \notin ParseErrors
    BY DEF Causes, ParseErrors
<1>4. /\ cache' \in [Registries -> [snapshot : Files \cup {NoSnapshot}, checksum : Files \cup {NoSnapshot}]]
      /\ CacheInv' /\ decided' \subseteq held /\ (faults = 0 => \A f \in decided' : VersionStored(f))
    BY <1>2 DEF CatInv, CatTypes, CatalogTypeOK, CacheInv, VersionsInv
<1> QED
    BY <1>1, <1>2, <1>3, <1>4, CatAnswers

\* Neither does a failure of the database, and it writes no row.
LEMMA CatDatabase ==
    ASSUME CatInv, NEW t \in Tasks, DatabaseFails(t)
    PROVE  CatInv'
<1> DEFINE S == {t}
<1>1. Fault /\ Answer(t, "OperationalError") /\ UNCHANGED <<file, cache, versions, policiesStored, held, decided>>
    BY DEF DatabaseFails, catalogVars
<1>2. Counted' /\ (faults' = 0 => faults = 0)
    BY <1>1, Counting DEF CatInv, CatTypes
<1>3. "OperationalError" \in Causes \cup {"ok"} /\ "OperationalError" \notin ParseErrors
    BY DEF Causes, ParseErrors
<1>4. AnswerInv' /\ Idle(S) /\ S \in SUBSET Tasks
    BY <1>1, <1>3, AnswerTells DEF CatInv
<1>5. /\ cache' \in [Registries -> [snapshot : Files \cup {NoSnapshot}, checksum : Files \cup {NoSnapshot}]]
      /\ CacheInv' /\ decided' \subseteq held
      /\ (faults' = 0 => \A f \in decided' : VersionStored(f))
    BY <1>1, <1>2 DEF CatInv, CatTypes, CatalogTypeOK, CacheInv, VersionsInv
<1> HIDE DEF S
<1> QED
    BY <1>1, <1>2, <1>4, <1>5, CatEnds

\* A restart empties the cache of its process.
LEMMA CatRestart ==
    ASSUME CatInv, NEW p \in Processes, Restart(p)
    PROVE  CatInv'
<1> USE DEF CatInv
<1> DEFINE S == {t \in Tasks : home[t] = p}
<1>1. /\ Idle(S) /\ cache' = [cache EXCEPT ![p] = Empty]
      /\ UNCHANGED <<file, versions, policiesStored, held, decided, answer>> /\ Fault
    BY DEF Restart, CatalogRestart
<1>2. Counted' /\ (faults' = 0 => faults = 0)
    BY <1>1, Counting DEF CatTypes
<1>3. /\ cache' \in [Registries -> [snapshot : Files \cup {NoSnapshot}, checksum : Files \cup {NoSnapshot}]]
      /\ CacheInv'
  <2>1. Empty \in [snapshot : {NoSnapshot}, checksum : {NoSnapshot}] /\ Empty.snapshot = NoSnapshot
      BY DEF Empty
  <2>2. cache \in [Registries -> [snapshot : Files \cup {NoSnapshot}, checksum : Files \cup {NoSnapshot}]]
      BY DEF CatTypes, CatalogTypeOK
  <2> HIDE DEF Empty
  <2>3. Empty \in [snapshot : Files \cup {NoSnapshot}, checksum : Files \cup {NoSnapshot}]
      BY <2>1
  <2>4. \A q \in Registries : cache'[q] = IF q = p THEN Empty ELSE cache[q]
      BY <1>1, <2>2
  <2>5. CacheInv'
      BY <2>1, <2>4 DEF CacheInv
  <2> QED
      BY <1>1, <2>2, <2>3, <2>5
<1>4. /\ AnswerInv' /\ decided' \subseteq held
      /\ faults' = 0 => \A f \in decided' : VersionStored(f)
    BY <1>1, <1>2 DEF AnswerInv, CatTypes, VersionsInv
<1>5. S \in SUBSET Tasks
    OBVIOUS
<1> HIDE DEF S
<1> QED
    BY <1>1, <1>2, <1>3, <1>4, <1>5, CatEnds

\* An edit is something the file holds while the running requests run.
LEMMA CatEdit ==
    ASSUME CatInv, NEW f \in Files, Edit(f)
    PROVE  CatInv'
<1> USE DEF CatInv
<1>1. /\ file' = f /\ held' = held \cup {f} /\ Change
      /\ current' = [t \in Tasks |-> IF pc[t] = "idle" THEN current[t] ELSE current[t] \cup {f}]
      /\ UNCHANGED <<cache, versions, policiesStored, home, pc, request, catalog, answer, decided>>
    BY DEF Edit, EditCatalog
<1>2. Counted' /\ (faults' = 0 => faults = 0) /\ faults' = faults
    BY <1>1, Counting DEF CatTypes, Change
<1>3. CatTypes'
    BY <1>1, <1>2 DEF CatTypes, CatalogTypeOK
<1>4. TaskInv'
  <2> SUFFICES ASSUME NEW u \in Tasks
               PROVE  /\ current'[u] \subseteq held'
                      /\ IF pc[u] = "idle" THEN catalog[u] = NoSnapshot ELSE f \in current'[u]
                      /\ catalog[u] # NoSnapshot => catalog[u] \in current'[u]
                      /\ HasCatalog(u)' /\ HasVersion(u)'
      BY <1>1 DEF TaskInv
  <2>1. HasCatalog(u)' /\ HasVersion(u)'
      BY <1>1, <1>2 DEF TaskInv, HasCatalog, HasVersion, VersionStored
  <2> QED
      BY <1>1, <2>1 DEF TaskInv
<1>5. CacheInv' /\ VersionsInv' /\ AnswerInv'
    BY <1>1, <1>2 DEF CacheInv, VersionsInv, AnswerInv, VersionStored
<1> QED
    BY <1>3, <1>4, <1>5

\* At the start the cache is empty and the file has held what it holds.
LEMMA CatInitially == Init => CatInv
<1> SUFFICES ASSUME Init PROVE CatInv
    OBVIOUS
<1>1. /\ file \in Files /\ held = {file} /\ decided = {} /\ cache = [p \in Registries |-> Empty]
      /\ versions = [v \in Versions |-> NoSnapshot] /\ policiesStored = FALSE
      /\ home \in [Tasks -> Processes] /\ pc = [t \in Tasks |-> "idle"]
      /\ request = [t \in Tasks |-> None] /\ catalog = [t \in Tasks |-> NoSnapshot]
      /\ answer = None /\ current = [t \in Tasks |-> {}]
    BY RequestAssumption DEF Init, CatalogInit
<1>2. Counted
    BY RequestAssumption DEF Init, Counted
<1>3. CatTypes
    BY <1>1, <1>2 DEF CatTypes, CatalogTypeOK, Empty
<1>4. CacheInv /\ AnswerInv /\ VersionsInv
    BY <1>1 DEF CacheInv, AnswerInv, VersionsInv, Empty
<1>5. TaskInv
    BY <1>1 DEF TaskInv, HasCatalog, HasVersion, Recording, Recorded
<1> QED
    BY <1>3, <1>4, <1>5 DEF CatInv

\* Every step keeps the catalog's invariant.
LEMMA CatNext == CatInv /\ [Next]_vars => CatInv'
<1> SUFFICES ASSUME CatInv, [Next]_vars PROVE CatInv'
    OBVIOUS
<1>1. ASSUME NEW t \in Tasks, MetadataFails(t) PROVE CatInv'
  <2>1. /\ pc[t] \in Recording \cup Recorded /\ Fault /\ GoTo(t, "route")
        /\ UNCHANGED <<catalogVars, held, decided>>
      BY <1>1 DEF MetadataFails, Recording, Recorded
  <2>2. Counted' /\ faults' # 0
    <3>1. Counted' /\ faults \in 0..MaxFaults /\ faults' = faults + 1
        BY <2>1, Counting DEF CatInv, CatTypes, Counted, Fault
    <3>2. \A n \in 0..MaxFaults : n + 1 # 0
        BY RequestAssumption
    <3> QED
        BY <3>1, <3>2
  <2>3. catalog[t] # NoSnapshot /\ pc[t] # "idle" /\ "route" \in Steps
      BY <2>1 DEF CatInv, TaskInv, HasCatalog, Recording, Recorded, Steps
  <2> QED
      BY <2>1, <2>2, <2>3, CatPasses
<1>2. ASSUME (\E k \in Keys : Block(k)) \/ UNCHANGED vars PROVE CatInv'
  <2>1. /\ UNCHANGED <<file, cache, versions, policiesStored, held, decided, home, pc, request,
                       catalog, answer, current>>
        /\ UNCHANGED counters \/ Change
      BY <1>2 DEF Block, vars, catalogVars, taskVars
  <2>2. Counted' /\ faults' = faults
      BY <2>1, Counting DEF CatInv, CatTypes, counters, Change
  <2>3. CatTypes' /\ CacheInv' /\ AnswerInv' /\ VersionsInv'
      BY <2>1, <2>2 DEF CatInv, CatTypes, CatalogTypeOK, CacheInv, AnswerInv, VersionsInv, VersionStored
  <2>4. TaskInv'
      BY <2>1, <2>2 DEF CatInv, TaskInv, HasCatalog, HasVersion, VersionStored
  <2> QED
      BY <2>3, <2>4 DEF CatInv
<1> QED
    BY <1>1, <1>2, CatBegin, CatAuthenticates, CatRead, CatRecords, CatRoute, CatRefuse, CatDatabase,
       CatRestart, CatEdit
       DEF Next, TaskStep

-----------------------------------------------------------------------------
(* Theorems *)

\* Both invariants hold in every state of every behaviour.
LEMMA PathInvariant == Spec => [](CredInv /\ CatInv)
<1>1. CatInv => file \in Files
    BY DEF CatInv, CatTypes, CatalogTypeOK
<1> QED
    BY <1>1, CredInitially, CatInitially, CredNext, CatNext, PTL DEF Spec

\* Tasks, tables, cache and answers have their types, a task has a transaction
\* exactly while it bootstraps, and no two transactions hold the same key.
THEOREM PathTypes == Spec => []TypeOK
<1>1. CredInv /\ CatInv => TypeOK
    BY DEF CredInv, CredTypes, CatInv, CatTypes, AnswerInv, Counted, TypeOK
<1> QED
    BY <1>1, PathInvariant, PTL

\* authenticate never answers 401 to a key of the bootstrap list.
THEOREM ConfiguredKeysAreKnown == Spec => []KnownKeyNever401
<1>1. CredInv => KnownKeyNever401
    BY DEF CredInv
<1> QED
    BY <1>1, PathInvariant, PTL

\* The request that loses the race for the bootstrap finds the whole list in the
\* table when it is answered.
THEOREM RaceLeavesTheList == Spec => []LoserFindsRows
<1>1. CredInv => LoserFindsRows
    BY DEF CredInv
<1> QED
    BY <1>1, PathInvariant, PTL

\* get_snapshot gives a request a catalog the file has held while the request
\* ran, and raises only for a text it has held then.
THEOREM SnapshotsAreCurrent == Spec => []CatalogIsCurrent
<1>1. CatInv => CatalogIsCurrent
    BY DEF CatInv, TaskInv, AnswerInv, CatalogIsCurrent
<1> QED
    BY <1>1, PathInvariant, PTL

\* Without faults ensure_catalog_version leaves a row for the version of every
\* decision, also where the insertion lost the race; the row holds the decision's
\* catalog unless another text carried the same version.
THEOREM DecisionsHaveTheirVersion == Spec => []DecidedVersionIsStored
<1>1. CatInv => DecidedVersionIsStored
  <2> SUFFICES ASSUME CatInv, faults = 0, NEW f \in decided
               PROVE  /\ VersionStored(f)
                      /\ (\A g \in held : VersionOf[g] = VersionOf[f] => g = f)
                            => versions[VersionOf[f]] = f
      BY DEF DecidedVersionIsStored
  <2>1. VersionStored(f) /\ f \in Files
      BY DEF CatInv, VersionsInv, CatTypes
  <2>2. VersionOf[f] \in Versions
      BY <2>1 DEF Versions
  <2> QED
      BY <2>1, <2>2 DEF CatInv, VersionsInv, VersionStored
<1> QED
    BY <1>1, PathInvariant, PTL

\* A row that an operator has blocked is not changed by a bootstrap, a restart
\* or anything else.
THEOREM BlockedRowsStay == Spec => BlockedStaysBlocked
<1> DEFINE Kept ==
       \A k \in Keys : credentials[k] # None /\ credentials[k].status = "blocked"
          => credentials'[k] = credentials[k]
<1>1. CredInv /\ [Next]_vars => [Kept]_vars
  <2> SUFFICES ASSUME CredInv, Next PROVE Kept
      OBVIOUS
  <2>1. credentials \in [Keys -> Records \cup {None}]
      BY DEF CredInv, CredTypes, CredentialTypeOK
  <2>2. ASSUME NEW t \in Tasks, pc[t] = "bootstrap", CommitBootstrap(t) PROVE Kept
    <3> SUFFICES ASSUME NEW k \in Keys, credentials[k] # None PROVE credentials'[k] = credentials[k]
        OBVIOUS
    <3>1. \A i \in txn[t].flushed : KeyAt(i) # k
        BY <2>2 DEF CredInv, CredTypes, SeedInv, Transaction
    <3> QED
        BY <2>2, <3>1 DEF CommitBootstrap, Seeds, KeyOf
  <2>3. ASSUME NEW j \in Keys, BlockCredential(j) PROVE Kept
    <3>1. \A r \in Records : r.status = "blocked" => [r EXCEPT !.status = "blocked"] = r
        BY DEF Records
    <3>2. /\ credentials[j] \in Records
          /\ credentials' = [credentials EXCEPT ![j] = [credentials[j] EXCEPT !.status = "blocked"]]
        BY <2>1, <2>3 DEF BlockCredential
    <3> QED
        BY <2>1, <3>1, <3>2
  <2>4. ASSUME UNCHANGED credentials PROVE Kept
      BY <2>4
  <2>5. ASSUME NEW t \in Tasks, BootstrapStep(t) PROVE Kept
      BY <2>2, <2>4, <2>5
         DEF BootstrapStep, SelectEntry, FlushEntry, Flushed, FlushFails, Rollback, MarkBootstrapped
  <2>6. ASSUME NEW t \in Tasks, NEW r \in Requests, Begin(t, r) PROVE Kept
      BY <2>4, <2>6 DEF Begin, OpenTransaction, credentialVars
  <2>7. ASSUME NEW t \in Tasks,
               \/ Lookup(t) \/ ReadCatalog(t) \/ SelectVersion(t) \/ StoreVersion(t)
               \/ SelectPolicies(t) \/ StorePolicies(t) \/ Route(t) \/ MetadataFails(t)
               \/ Refuse(t) \/ DatabaseFails(t)
        PROVE  Kept
      BY <2>4, <2>7 DEF Lookup, ReadCatalog, SelectVersion, StoreVersion, SelectPolicies,
                        StorePolicies, Route, MetadataFails, Refuse, DatabaseFails, Rollback,
                        credentialVars
  <2>8. ASSUME (\E p \in Processes : Restart(p)) \/ (\E f \in Files : Edit(f)) PROVE Kept
      BY <2>4, <2>8 DEF Restart, CredentialsRestart, Edit, credentialVars
  <2> QED
      BY <2>3, <2>5, <2>6, <2>7, <2>8 DEF Next, TaskStep, Block
<1> QED
    BY <1>1, PathInvariant, PTL DEF Spec, BlockedStaysBlocked
=============================================================================
