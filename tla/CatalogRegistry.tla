-------------------------- MODULE CatalogRegistry --------------------------
(***************************************************************************)
(* CatalogRegistry.get_snapshot with its cache by checksum, and the rows   *)
(* SqlAlchemyMetadataStore keeps of catalog versions and policies.  The    *)
(* steps are composed into requests by RequestPath.                        *)
(*                                                                         *)
(* A file is identified with its text, so equal checksums mean equal       *)
(* files; a snapshot is identified with the file it was parsed from.       *)
(***************************************************************************)
EXTENDS FiniteSets

CONSTANTS
    Registries,      \* the processes, each with a CatalogRegistry of its own
    Files,           \* texts the catalog file may hold; one may stand for its absence
    ParseOf,         \* ParseOf[f]: "ok", or the exception reading or parsing raises
    VersionOf,       \* VersionOf[f]: its catalog_version, or its checksum's prefix
    NoSnapshot

\* No file; no JSON, or a value a schema refuses; a missing member; a member
\* of another JSON type than the parser takes it for.
ParseErrors == {"FileNotFoundError", "ValueError", "KeyError", "AttributeError", "TypeError"}

ASSUME ParseAssumption ==
    /\ ParseOf \in [Files -> ParseErrors \cup {"ok"}]
    /\ DOMAIN VersionOf = Files
    /\ NoSnapshot \notin Files

VARIABLES
    file,           \* the text of settings.catalog_path
    cache,          \* cache[p]: _snapshot and _checksum of process p
    versions,       \* table model_catalog_versions: the snapshot stored per version
    policiesStored  \* the rows of routing_policies hold the built-in policies

catalogVars == <<file, cache, versions, policiesStored>>

Versions == {VersionOf[f] : f \in Files}
Empty == [snapshot |-> NoSnapshot, checksum |-> NoSnapshot]

CatalogInit(f) ==
    /\ file = f
    /\ cache = [p \in Registries |-> Empty]
    /\ versions = [v \in Versions |-> NoSnapshot]
    /\ policiesStored = FALSE

\* The cached snapshot is used when the file still has its checksum.
Hit(p) == cache[p].snapshot # NoSnapshot /\ cache[p].checksum = file

\* What get_snapshot returns, or the exception it raises.
Snapshot(p) == IF Hit(p) THEN cache[p].snapshot ELSE file
Raised(p) == IF Hit(p) THEN "ok" ELSE ParseOf[file]

WrongCached(p) ==
    [snapshot |-> IF Raised(p) = "ok" THEN Snapshot(p) ELSE cache[p].snapshot, checksum |-> file]

\* A text that cannot be parsed leaves the cache as it was.
Cached(p) == IF Raised(p) = "ok" THEN [snapshot |-> Snapshot(p), checksum |-> file] ELSE cache[p]

\* One step: there is no await in it, and one read of the file.
ReadSnapshot(p) ==
    /\ cache' = [cache EXCEPT ![p] = Cached(p)]
    /\ UNCHANGED <<file, versions, policiesStored>>

VersionStored(f) == versions[VersionOf[f]] # NoSnapshot

WrongInsertVersion(f) == UNCHANGED catalogVars

\* INSERT and commit of a version whose SELECT found no row; the unique index
\* refuses it when another request was faster.
InsertVersion(f) ==
    /\ ~VersionStored(f)
    /\ versions' = [versions EXCEPT ![VersionOf[f]] = f]
    /\ UNCHANGED <<file, cache, policiesStored>>

WrongPoliciesAfter == policiesStored

\* The flush of all policies in one transaction: rows that were missing are
\* inserted, rows that were found are updated.
PoliciesAfter == TRUE

WritePolicies ==
    /\ policiesStored' = PoliciesAfter
    /\ UNCHANGED <<file, cache, versions>>

\* The file is replaced or removed, or a reader meets it half written.
EditCatalog(f) == file' = f /\ UNCHANGED <<cache, versions, policiesStored>>

CatalogRestart(p) == cache' = [cache EXCEPT ![p] = Empty] /\ UNCHANGED <<file, versions, policiesStored>>

CatalogTypeOK ==
    /\ file \in Files
    /\ cache \in [Registries -> [snapshot : Files \cup {NoSnapshot}, checksum : Files \cup {NoSnapshot}]]
    /\ versions \in [Versions -> Files \cup {NoSnapshot}]
    /\ policiesStored \in BOOLEAN
=============================================================================
