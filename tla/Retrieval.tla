------------------------------- MODULE Retrieval -------------------------------
(***************************************************************************)
(* The documents that agents search (retrieval): what may be ingested, by  *)
(* whom, and what a search finds.  Of a document the model has the         *)
(* namespace and the tenant its chunks carry, and of a query which of them *)
(* it matches.                                                             *)
(***************************************************************************)
EXTENDS Naturals, FiniteSets

Tenants    == {"none", "acme", "bolt"}        \* "none": no tenant is named
Namespaces == {"system_docs", "client_docs", "brand_voice", "attribution_memory", "audit_memory"}

\* DEFAULT_RETRIEVAL_POLICY; tool_docs are as system_docs, and the namespaces without a rule
\* as brand_voice.
requireTenantId      == {"client_docs", "attribution_memory"}
readOnlyNamespaces   == {"audit_memory", "attribution_memory"}
globalNamespaces     == {"system_docs"}

Ingests  == [tenant : Tenants, namespace : Namespaces, production : BOOLEAN,
             supported : BOOLEAN, empty : BOOLEAN]
Searches == [tenant : Tenants, namespaces : SUBSET Namespaces, production : BOOLEAN,
             maxResults : 0..2]

evaluateIngestPolicy(req) ==
    /\ req.namespace \notin readOnlyNamespaces
    /\ req.namespace \in requireTenantId => req.tenant # "none"
    /\ req.production /\ req.tenant = "none" => req.namespace \in globalNamespaces

\* The chunks a request adds: of a kind of source that is supported, and of some content.
ingestDocument(req) ==
    IF req.supported /\ ~req.empty /\ evaluateIngestPolicy(req)
    THEN {[tenant |-> req.tenant, namespace |-> req.namespace]} ELSE {}

evaluateRetrievalPolicy(req) ==
    req.production \/ req.namespaces \cap requireTenantId # {} => req.tenant # "none"

\* Chunks by namespace, all of them if none is named, and by tenant if one is.
listChunks(chunks, req) ==
    {c \in chunks : /\ req.namespaces # {} => c.namespace \in req.namespaces
                    /\ req.tenant # "none" => c.tenant \in {req.tenant, "none"}}

\* The two rules of the code, for global namespaces and for the others, are one.
isChunkReadable(chunk, tenant) == chunk.tenant \in {"none", tenant}

\* The sets of chunks a search may return: those that match and are readable, up to the limit.
searchRetrieval(chunks, req, matching) ==
    LET Candidates == {c \in listChunks(chunks, req) :
                          isChunkReadable(c, req.tenant) /\ c \in matching}
    IN  IF ~evaluateRetrievalPolicy(req) THEN {{}}
        ELSE {R \in SUBSET Candidates :
                 \/ R = Candidates /\ Cardinality(R) <= req.maxResults
                 \/ Cardinality(R) = req.maxResults /\ Cardinality(Candidates) > req.maxResults}

\* What ingesting can ever have stored.
Stored == UNION {ingestDocument(req) : req \in Ingests}

-----------------------------------------------------------------------------
(* What the policy is for.                                                 *)

\* A search returns what is the searcher's own or nobody's, and of clients' documents only its
\* own, even one that names no namespace and so escapes the rule for them
\* (retrieval-search.ts:92-111, retrieval-policy.ts:46-79).
FindsOnlyOwn(req) ==
    \A found \in searchRetrieval(Stored, req, Stored) : \A c \in found :
        /\ c.tenant \in {"none", req.tenant}
        /\ c.namespace = "client_docs" => c.tenant = req.tenant /\ req.tenant # "none"

\* In production nobody searches or adds to what is not global without a name.
NamedInProduction(req, ingest) ==
    /\ req.production /\ req.tenant = "none" => searchRetrieval(Stored, req, Stored) = {{}}
    /\ \A c \in ingestDocument(ingest) :
          ingest.production /\ c.tenant = "none" => c.namespace \in globalNamespaces

\* The two memories are written by no ingest, so that the flag a search for
\* the restricted one gets has nothing to guard.
MemoriesAreReadOnly == \A c \in Stored : c.namespace \notin readOnlyNamespaces

\* A document of one's own is found again by a search that names its namespace or none and
\* has room for it, if the search is let through.
OwnIsFound(ingest, req) ==
    LET mine == ingestDocument(ingest)
    IN  /\ ingest.tenant = req.tenant
        /\ req.namespaces = {} \/ ingest.namespace \in req.namespaces
        /\ req.maxResults > 0
        /\ evaluateRetrievalPolicy(req)
        => searchRetrieval(mine, req, Stored) = {mine}

\* "tenant-scoped namespaces: chunk readable if its tenantId matches the request's tenantId"
\* (retrieval-policy.ts:147-148); but what is ingested there without a tenant, outside
\* production, every tenant reads, in production too.
SharedByOmission(ingest, req) ==
    /\ ~ingest.production /\ ingest.tenant = "none" /\ req.tenant # "none" /\ req.production
    /\ \E c \in ingestDocument(ingest) :
          /\ c.namespace \notin globalNamespaces
          /\ {c} \in searchRetrieval({c}, req, {c})
=============================================================================
