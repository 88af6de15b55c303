--------------------------- MODULE MCApplications ---------------------------
(* The two-tier cache, the serving of pages, the application adapters and  *)
(* the agents' sessions: each is explored on its own, while the others     *)
(* stay as they start.                                                     *)
(* - TwoTierCache: two layers and two KV heads, two tokens, policies and   *)
(*   shapes of which some are refused.                                     *)
(* - Serving: two pages that can be written and one that is too large;     *)
(*   dimensions whose product wraps around to the payload's length.        *)
(* - AppSessions: windows of one and two tokens.                           *)
(* - AgentSessions: three states that have no pages, two leases, one agent *)
EXTENDS TwoTierCache, Serving, AppSessions, AgentSessions

VARIABLE part \* what this behaviour explores

CONSTANTS p1, p2, p3, s1, s2, s3, l1, l2, a1, mine, other

-----------------------------------------------------------------------------
Policy(shared, shell, bits, lossy) ==
    [shared |-> shared, shell |-> shell, k |-> 4, bits |-> bits, lossy |-> lossy,
     projections |-> 32]

MCPolicies ==
    {Policy("fib_k4_n32_batched", TurboId(4, FALSE), 4, FALSE),
     Policy("fib_k4_n32", TurboId(4, TRUE), 4, TRUE),
     Policy("fib_k4_n32_batched", TurboId(8, FALSE), 4, FALSE),
     Policy("fib_k4_n32_batched", <<"turbo", 8, FALSE>>, 8, FALSE),
     Policy(Exact, TurboId(4, FALSE), 4, FALSE),
     Policy("unknown", TurboId(4, FALSE), 4, FALSE)}

Shape(attention, heads, kv, dim) ==
    [attention |-> attention, layers |-> 2, heads |-> heads, kv |-> kv,
     dim |-> dim, hidden |-> heads * dim]

MCShapes ==
    {Shape("GQA", 4, 2, 4), Shape("MQA", 4, 1, 4), Shape("MHA", 4, 2, 4),
     Shape("GQA", 4, 2, 6)}

-----------------------------------------------------------------------------
MCLength == p1 :> 4 @@ p2 :> 8 @@ p3 :> 32

Header(kind, start, dims, dtype) ==
    [form |-> TRUE, kind |-> kind, dims |-> dims, dtype |-> dtype,
     start |-> start, end |-> 2]

MCHeaderArgs ==
    {Header("k", 0, <<2, 2>>, "int8"), Header("k", 1, <<4, 5>>, "int8"),
     Header("k", 0, <<2, 2>>, "float16"), Header("k", 2, <<2>>, "float32"),
     [Header("k", 0, <<0, 4>>, "other") EXCEPT !.form = FALSE]}

Manifest0(pages) ==
    [named |-> TRUE, shape |-> Shape("GQA", 4, 2, 4), pages |-> pages,
     lineage |-> <<>>, components |-> <<>>]

MCManifest ==
    {Manifest0(<<p1>>), Manifest0(<<p1, p2>>), [Manifest0(<<p3>>) EXCEPT !.shape.kv = 4]}

MCRequest ==
    [version : {"2.0"}, method : {"tools/call"}, tool : AdvertisedTools,
     complete : BOOLEAN, state : {Manifest0(<<p1>>)}, reason : {"why"}]
    \cup [version : {"1.0", "2.0"},
          method : {"initialize", "tools/list", "notifications/initialized", "ping"}]

-----------------------------------------------------------------------------
MCDocument ==
    {[document |-> "d", cache |-> <<1, 2>>], [document |-> "d", cache |-> <<3>>],
     [document |-> "e", cache |-> <<>>]}

MCMemory == {[identity |-> i, pages |-> s] : i \in {"m", "n"}, s \in {<<1, 2>>, <<3, 1>>}}

MCTolerance == {<<0, 1>>, <<1, 2>>, <<2, 1>>}

-----------------------------------------------------------------------------
MCPageRefs == [i \in StateId |-> {}]

(* A short lease, one that may not fork and whose expiry overflows once    *)
(* the clock has moved, one of another principal for a later epoch, and    *)
(* arguments that are refused.                                             *)
MCGrant ==
    {[principal |-> mine, rights |-> {"Fork"}, ttl |-> 1, epoch |-> 0],
     [principal |-> mine, rights |-> {"Inspect"}, ttl |-> 3, epoch |-> 0],
     [principal |-> other, rights |-> {"Fork"}, ttl |-> None, epoch |-> 1],
     [principal |-> mine, rights |-> {}, ttl |-> None, epoch |-> 0]}

MCCaller == [principal : {mine}, epoch : {0}] \cup [principal : {other}, epoch : {1, 2}]

(* The states differ in nothing but their ids, nor do the leases. *)
Symmetry == Permutations(StateId) \cup Permutations(LeaseId)

-----------------------------------------------------------------------------
agentVars == <<vars, sessionVars>>

MCInit ==
    /\ TierInit /\ ServingInit /\ AppInit /\ SessionInit
    /\ part \in {"cache", "serving", "windows", "workflow", "chat", "records", "agents"}
    /\ part # "windows" => window.max = 1
    /\ part # "workflow" => workflow.id = "f"

MCNext ==
    \/ part = "cache" /\ TierNext /\ UNCHANGED <<part, servingVars, appVars, agentVars>>
    \/ part = "serving" /\ ServingNext /\ UNCHANGED <<part, tierVars, appVars, agentVars>>
    \/ part = "windows" /\ WindowNext /\ UNCHANGED <<part, tierVars, servingVars, agentVars>>
    \/ part = "workflow" /\ FlowNext /\ UNCHANGED <<part, tierVars, servingVars, agentVars>>
    \/ part = "chat" /\ ChatNext /\ UNCHANGED <<part, tierVars, servingVars, agentVars>>
    \/ part = "records" /\ RecordNext /\ UNCHANGED <<part, tierVars, servingVars, agentVars>>
    \/ part = "agents" /\ SessionNext /\ UNCHANGED <<part, tierVars, servingVars, appVars>>
=============================================================================
