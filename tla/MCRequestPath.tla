--------------------------- MODULE MCRequestPath ---------------------------
(* Two tasks in one process or in two, a list of three entries that names *)
(* one key twice, and a catalog edited without a new version.              *)
EXTENDS RequestPath

All == {"routing:decide", "routing:outcome", "control:read"}
Entry(k, scopes) == [api_key |-> k, record |-> [status |-> "active", scopes |-> scopes]]

MCBootstrap == <<Entry("k1", All), Entry("k2", {"control:read"}), Entry("k2", {})>>
MCHomes == {[t1 |-> "p1", t2 |-> "p1"], [t1 |-> "p1", t2 |-> "p2"]}
MCRows == {[k1 |-> None, k2 |-> None, k3 |-> None]}

Request(kind, key, policy) == [kind |-> kind, key |-> key, policy_id |-> policy]

\* k3 is in no list: its requests are refused after they have waited for the
\* bootstrap like the others.
MCRequests ==
    {Request("decide", "k1", None), Request("policies", "k3", None)}

MCOwnPolicy == [k1 |-> "cheap-first", k2 |-> None, k3 |-> None]

\* b is an edit of a without a new catalog_version; torn is half of a file.
MCParseOf == [f \in Files |-> IF f = "torn" THEN "ValueError" ELSE "ok"]
MCVersionOf == [f \in Files |-> IF f \in {"a", "b"} THEN "v1" ELSE "v2"]
=============================================================================
