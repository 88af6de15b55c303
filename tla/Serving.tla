------------------------------ MODULE Serving -------------------------------
(***************************************************************************)
(* The two ways a page leaves a proveKV process: PageTransfer              *)
(* (transport.rs), which sends a page of a committed state to an endpoint  *)
(* and fetches one from it, and the MCP server (mcp_server.rs), with the   *)
(* page headers (page_format.rs) and the manifests (hybrid_manifest.rs)    *)
(* they are checked by.                                                    *)
(*                                                                         *)
(* A digest is the value it is the digest of.  A state id is the digest of *)
(* its manifest, so a state is its manifest here.  The page files are      *)
(* those PageStore leaves: each is whole, and named by the payload it was  *)
(* written with.  The disk may move or lose a file.  The endpoint is       *)
(* external: it may change one thing in an envelope, and may answer with   *)
(* the envelope of another transfer.                                       *)
(*                                                                         *)
(* A definition whose name starts with Wrong is a mistake the definition   *)
(* after it could have had.                                                *)
(***************************************************************************)
EXTENDS Integers, Sequences, SequencesExt, Functions, KvShape

CONSTANTS
    Payload,    \* the payloads of pages
    Length,     \* payload -> its bytes
    HeaderArgs, \* arguments of build_page_header other than the payload
    Manifest,   \* the manifests the process may commit
    Layer, Kind, \* what send_page is asked for
    NoFile,     \* a page file that does not exist
    Word,       \* u64 counts modulo Word
    MaxPayload, \* MAX_PAYLOAD_BYTES
    Request     \* what clients send to the MCP server

ASSUME ServingAssumption ==
    /\ \A s \in HeaderArgs : s.dims \in Seq(Nat)
    /\ Word \in Nat /\ Word > 1

VARIABLES
    files,      \* payload digest -> the content of the page file of that name
    committed,  \* the states of the store PageTransfer is bound to
    endpoint,   \* transfer id -> the envelope the endpoint keeps for it
    received,   \* what the last receive_page returned
    served,     \* the states of the MCP server's own store
    reply       \* the server's last response

servingVars == <<files, committed, endpoint, received, served, reply>>

-----------------------------------------------------------------------------
(* Page headers.                                                           *)

Product(dims) == FoldLeft(LAMBDA a, d : a * d, 1, dims)

(* element_count multiplies without a check: it wraps around. *)
ElementCount(h) == Product(h.dims) % Word

(* Mistake: the product of the dimensions is not checked. *)
WrongDimsFit(dims) == \A i \in DOMAIN dims : dims[i] # 0

DimsFit(dims) ==
    /\ \A i \in DOMAIN dims : dims[i] # 0
    /\ \A i \in DOMAIN dims : Product(SubSeq(dims, 1, i)) < Word

(* form stands for the fields that are checked on their own: magic, schema *)
(* version, rank, the strings' lengths, endianness and the digests' form.  *)
(* The header's digest is only checked for its length.                     *)
ValidHeader(h) ==
    /\ h.form
    /\ DimsFit(h.dims)
    /\ h.start < h.end
    /\ h.length =< MaxPayload

BytesPerElement(dtype) ==
    CASE dtype = "float32" -> 4
      [] dtype \in {"float16", "bfloat16"} -> 2
      [] dtype \in {"int8", "int4"} -> 1

(* verify_payload_size; checked_mul, and an error for another dtype. *)
SizeVerified(h) ==
    /\ h.dtype \in {"float32", "float16", "bfloat16", "int8", "int4"}
    /\ ElementCount(h) * BytesPerElement(h.dtype) < Word
    /\ h.length = ElementCount(h) * BytesPerElement(h.dtype)

BuildHeader(s, p) ==
    [form |-> s.form, kind |-> s.kind, dims |-> s.dims, dtype |-> s.dtype,
     start |-> s.start, end |-> s.end, payload |-> p, length |-> Length[p]]

(* read_page: it returns the header and the payload, or fails. *)
Readable(d) ==
    /\ files[d] # NoFile
    /\ ValidHeader(files[d].header)
    /\ files[d].header.length = Length[files[d].body]
    /\ files[d].header.payload = files[d].body

-----------------------------------------------------------------------------
(* Manifests and transfers.                                                *)

(* named: the schema is known and no identity field is empty. *)
ValidManifest(m) == m.named /\ ValidShape(m.shape)

(* The references of a manifest whose page is the one asked for.  find_page *)
(* takes a layer for the start of a page's token span.                      *)
Matching(m, layer, kind) ==
    {i \in DOMAIN m.pages :
        LET h == files[m.pages[i]].header IN h.kind = kind /\ h.start = layer}

(* Mistake: what the file of a reference holds is not compared with it. *)
WrongFindable(m, layer, kind) ==
    /\ \A i \in DOMAIN m.pages : Readable(m.pages[i])
    /\ \E i \in DOMAIN m.pages : Matching(m, layer, kind) = {i}

(* find_page: every page of the state must be readable and be the one the  *)
(* manifest names, and exactly one must match.                             *)
Findable(m, layer, kind) ==
    /\ \A i \in DOMAIN m.pages :
           /\ Readable(m.pages[i])
           /\ files[m.pages[i]].header.payload = m.pages[i]
    /\ \E i \in DOMAIN m.pages : Matching(m, layer, kind) = {i}

(* receive_page looks at the envelope alone: not at the id it asked for.   *)
Acceptable(e) ==
    /\ e.payload = e.digest
    /\ e.payload = e.header.payload
    /\ ValidHeader(e.header)
    /\ e.header.length = Length[e.payload]

-----------------------------------------------------------------------------
(* The MCP server: call_tool on the server's store.                        *)

AdvertisedTools == {"get_page", "list_pages", "fork", "get_receipt"}

(* The names the match knows.  "get_page" is matched under two spellings,  *)
(* neither of them the advertised one.                                     *)
MatchedTools == AdvertisedTools \ {"get_page"}

Forkable(parent, child) == parent \in served /\ child \notin served

ForkManifest(m, reason) ==
    [m EXCEPT !.lineage = Append(@, m), !.components = Append(@, reason)]

(* What a tool answers; every argument of a matched tool is required. *)
ToolReply(q) ==
    IF \/ q.tool \notin MatchedTools
       \/ ~q.complete
       \/ q.tool = "fork" /\ ~Forkable(q.state, ForkManifest(q.state, q.reason))
       \/ q.tool # "fork" /\ q.state \notin served
    THEN "-32000" ELSE "result"

Reply(q) ==
    CASE q.version # "2.0" -> "-32600"
      [] q.version = "2.0" /\ q.method = "tools/call" -> ToolReply(q)
      [] q.version = "2.0" /\ q.method \in {"initialize", "tools/list"} -> "result"
      [] q.version = "2.0" /\ q.method = "notifications/initialized" -> "none"
      [] OTHER -> "-32601"

Forks(q) == /\ q.version = "2.0"
            /\ q.method = "tools/call"
            /\ q.tool = "fork"
            /\ ToolReply(q) = "result"

-----------------------------------------------------------------------------
ServingInit ==
    /\ files = [p \in Payload |-> NoFile]
    /\ committed = {}
    /\ endpoint = [t \in {} |-> NoFile]
    /\ received = NoFile
    /\ served = {}
    /\ reply = "none"

(* A page is built and written; a page of the same payload is replaced,    *)
(* header and all.                                                         *)
Persist(s, p) ==
    /\ ValidHeader(BuildHeader(s, p))
    /\ files' = [files EXCEPT ![p] = [header |-> BuildHeader(s, p), body |-> p]]
    /\ UNCHANGED <<committed, endpoint, received, served, reply>>

MoveFile(p, q) ==
    /\ p # q
    /\ files' = [files EXCEPT ![p] = files[q]]
    /\ UNCHANGED <<committed, endpoint, received, served, reply>>

(* The store takes a valid manifest without asking for its pages. *)
Commit(m) ==
    /\ m \notin committed
    /\ ValidManifest(m)
    /\ committed' = committed \cup {m}
    /\ UNCHANGED <<files, endpoint, received, served, reply>>

SendPage(m, layer, kind) ==
    /\ m \in committed
    /\ Findable(m, layer, kind)
    /\ LET i == CHOOSE i \in Matching(m, layer, kind) : TRUE
           f == files[m.pages[i]]
           t == [state |-> m, layer |-> layer, kind |-> kind]
           e == [header |-> f.header, digest |-> f.body, payload |-> f.body,
                 intact |-> TRUE]
       IN  endpoint' = [u \in DOMAIN endpoint \cup {t} |->
                           IF u = t THEN e ELSE endpoint[u]]
    /\ UNCHANGED <<files, committed, received, served, reply>>

Damages(e) ==
    {[e EXCEPT !.payload = p] : p \in Payload}
    \cup {[e EXCEPT !.digest = p] : p \in Payload}
    \cup {[e EXCEPT !.header.payload = p] : p \in Payload}
    \cup {[e EXCEPT !.header.start = @ + 1]}

Tamper(t) ==
    /\ endpoint[t].intact
    /\ \E e \in Damages(endpoint[t]) :
           endpoint' = [endpoint EXCEPT ![t] = [e EXCEPT !.intact = FALSE]]
    /\ UNCHANGED <<files, committed, received, served, reply>>

(* Whatever id was asked for, the envelope the endpoint answers with is t's. *)
ReceivePage(t) ==
    /\ Acceptable(endpoint[t])
    /\ received' = [header |-> endpoint[t].header, payload |-> endpoint[t].payload]
    /\ UNCHANGED <<files, committed, endpoint, served, reply>>

Handle(q) ==
    /\ reply' = Reply(q)
    /\ served' = IF Forks(q)
                 THEN served \cup {ForkManifest(q.state, q.reason)}
                 ELSE served
    /\ UNCHANGED <<files, committed, endpoint, received>>

ServingNext ==
    \/ \E s \in HeaderArgs, p \in Payload : Persist(s, p)
    \/ \E p, q \in Payload : MoveFile(p, q)
    \/ \E m \in Manifest : Commit(m)
    \/ \E m \in Manifest, layer \in Layer, kind \in Kind : SendPage(m, layer, kind)
    \/ \E t \in DOMAIN endpoint : Tamper(t) \/ ReceivePage(t)
    \/ \E q \in Request : Handle(q)

ServingSpec == ServingInit /\ [][ServingNext]_servingVars

-----------------------------------------------------------------------------
(* Properties.                                                             *)

Lists(m, p) == p \in Range(m.pages)

(* A page leaves the process only for a committed state whose manifest     *)
(* lists it, whatever header its file has by now and wherever a file was   *)
(* moved (page_store.rs:128), and it is the page asked for; a receiver     *)
(* takes only such a page, whole, whichever one thing the endpoint changed *)
(* in the envelope; and the MCP server, which has no state of its own and  *)
(* no tool that commits one, hands out nothing.                            *)
OnlyListedPagesLeave ==
    /\ \A t \in DOMAIN endpoint : endpoint[t].intact =>
           /\ t.state \in committed /\ Lists(t.state, endpoint[t].payload)
           /\ endpoint[t].header.kind = t.kind
           /\ endpoint[t].header.start = t.layer
    /\ received # NoFile =>
           /\ \E m \in committed : Lists(m, received.payload)
           /\ received.header.payload = received.payload
           /\ received.header.length = Length[received.payload]
    /\ served = {}

(* If a header read from a file is valid and its payload size verifies,    *)
(* its dimensions really count its bytes, though element_count multiplies  *)
(* without a check (page_format.rs:178).                                   *)
AcceptedHeaderCountsItsBytes ==
    \A d \in Payload : Readable(d) =>
        LET h == files[d].header IN
        SizeVerified(h) =>
            Product(h.dims) * BytesPerElement(h.dtype) = Length[files[d].body]
=============================================================================
