------------------------- MODULE ApplicationsProofs -------------------------
(***************************************************************************)
(* Theorems about the applications of the state store: the ways a page     *)
(* leaves the process (Serving), the context window (AppSessions), the     *)
(* two-tier cache (TwoTierCache) and agent sessions with their leases      *)
(* (AgentSessions), for every value of their constants.                    *)
(***************************************************************************)
EXTENDS AgentSessions, StateStoreProofs, TwoTierCache, Serving, AppSessions,
        FoldFacts, FiniteSetTheorems

(***************************************************************************)
(* Page headers.                                                           *)
(***************************************************************************)
(* The product of dimensions is a natural number, however many there are.  *)
LEMMA ProductType ==
    ASSUME NEW dims \in Seq(Nat)
    PROVE  Product(dims) \in Nat
<1> DEFINE N == Len(dims)
           F == [p \in (1 .. N) \X Nat |-> p[2] * dims[p[1]]]
           Solves(f) == f = [s \in SUBSET (DOMAIN dims) |->
                               IF s = {} THEN 1 ELSE f[s \ {Max(s)}] * dims[Max(s)]]
           iter == CHOOSE f : Solves(f)
<1>1. N \in Nat /\ DOMAIN dims = 1 .. N /\ \A i \in 1 .. N : dims[i] \in Nat
  OBVIOUS
<1>2. \E f : Solves(f)
  <2>1. F \in [(1 .. N) \X Nat -> Nat]
    BY <1>1
  <2>2. PICK f \in [SUBSET (1 .. N) -> Nat] : FoldsSets(f, N, 1, F)
    <3>1. HasSetFold(N, Nat, 1, F)
      BY <1>1, <2>1, SetFoldExists
    <3> QED
      BY <3>1 DEF HasSetFold
  <2>3. \A s \in SUBSET (1 .. N) :
          f[s] = IF s = {} THEN 1 ELSE f[s \ {Max(s)}] * dims[Max(s)]
    <3> SUFFICES ASSUME NEW s \in SUBSET (1 .. N), s # {}
                 PROVE  f[s] = f[s \ {Max(s)}] * dims[Max(s)]
      BY <2>2 DEF FoldsSets
    <3>1. Max(s) \in 1 .. N
      BY <1>1, MaxOfNonempty
    <3>2. f[s \ {Max(s)}] \in Nat
      BY <2>2
    <3> QED
      BY <2>2, <3>1, <3>2 DEF FoldsSets
  <2>4. Solves(f)
    BY <1>1, <2>2, <2>3
  <2> QED
    BY <2>4
<1>3. Solves(iter)
  BY <1>2
<1>4. Product(dims) = iter[DOMAIN dims]
  BY DEF Product, FoldLeft, MapThenFoldSet
<1> DEFINE Good == {k \in Nat : k <= N => iter[1 .. k] \in Nat}
<1> HIDE DEF iter, F
<1>5. 0 \in Good
  BY <1>1, <1>3
<1>6. ASSUME NEW k \in Nat, k \in Good PROVE k + 1 \in Good
  <2> SUFFICES ASSUME k + 1 <= N PROVE iter[1 .. k + 1] \in Nat
    OBVIOUS
  <2>1. Max(1 .. k + 1) = k + 1
    BY MaxOf
  <2>2. (1 .. k + 1) \ {k + 1} = 1 .. k /\ 1 .. k + 1 # {}
    OBVIOUS
  <2>3. 1 .. k + 1 \in SUBSET (DOMAIN dims) /\ k + 1 \in 1 .. N
    BY <1>1
  <2>4. iter[1 .. k + 1] = iter[1 .. k] * dims[k + 1]
    BY <1>3, <2>1, <2>2, <2>3
  <2> QED
    BY <1>1, <1>6, <2>3, <2>4
<1> HIDE DEF Good
<1>7. N \in Good
  BY <1>1, <1>5, <1>6, NatSetInduction
<1> QED
  BY <1>1, <1>4, <1>7 DEF Good

(* A header built from arguments of the right form. *)
WellFormedHeader(h) == h.dims \in Seq(Nat)

FilesWellFormed ==
    /\ files = [p \in Payload |-> files[p]]
    /\ \A p \in Payload : files[p] # NoFile => WellFormedHeader(files[p].header)

LEMMA BuiltHeader ==
    ASSUME NEW s \in HeaderArgs, NEW p \in Payload
    PROVE  WellFormedHeader(BuildHeader(s, p))
  BY ServingAssumption DEF BuildHeader, WellFormedHeader

LEMMA NextFilesWellFormed ==
    FilesWellFormed /\ [ServingNext]_servingVars => FilesWellFormed'
<1> SUFFICES ASSUME FilesWellFormed, [ServingNext]_servingVars PROVE FilesWellFormed'
  OBVIOUS
<1>1. ASSUME NEW s \in HeaderArgs, NEW p \in Payload, Persist(s, p)
      PROVE  FilesWellFormed'
  <2>1. files' = [files EXCEPT ![p] = [header |-> BuildHeader(s, p), body |-> p]]
    BY <1>1 DEF Persist
  <2>2. WellFormedHeader(BuildHeader(s, p))
    BY BuiltHeader
  <2> QED
    BY <2>1, <2>2 DEF FilesWellFormed
<1>2. ASSUME NEW p \in Payload, NEW q \in Payload, MoveFile(p, q)
      PROVE  FilesWellFormed'
  BY <1>2 DEF MoveFile, FilesWellFormed
<1>3. CASE files' = files
  BY <1>3 DEF FilesWellFormed
<1> QED
  BY <1>1, <1>2, <1>3 DEF ServingNext, Commit, SendPage, Tamper, ReceivePage, Handle,
                          servingVars

(* What DimsFit checks is the product that element_count computes, so that *)
(* it does not wrap around.                                                *)
LEMMA FittingDimsAreCounted ==
    ASSUME NEW h, WellFormedHeader(h), DimsFit(h.dims)
    PROVE  ElementCount(h) = Product(h.dims)
<1>1. h.dims \in Seq(Nat) /\ Product(h.dims) \in Nat
  BY ProductType DEF WellFormedHeader
<1>2. Word \in Nat /\ Word > 1
  BY ServingAssumption
<1>3. CASE h.dims = <<>>
  <2>1. Product(h.dims) = 1
    <3> DEFINE iter == CHOOSE f : f = [s \in SUBSET (DOMAIN h.dims) |->
                          IF s = {} THEN 1 ELSE f[s \ {Max(s)}] * (h.dims)[Max(s)]]
    <3>1. Product(h.dims) = iter[DOMAIN h.dims]
      BY DEF Product, FoldLeft, MapThenFoldSet
    <3>2. DOMAIN h.dims = {}
      BY <1>3
    <3> DEFINE g == [s \in SUBSET (DOMAIN h.dims) |-> 1]
    <3>3. g = [s \in SUBSET (DOMAIN h.dims) |->
                 IF s = {} THEN 1 ELSE g[s \ {Max(s)}] * (h.dims)[Max(s)]]
      BY <3>2
    <3>4. iter = [s \in SUBSET (DOMAIN h.dims) |->
                    IF s = {} THEN 1 ELSE iter[s \ {Max(s)}] * (h.dims)[Max(s)]]
      BY <3>3
    <3> HIDE DEF iter
    <3> QED
      BY <3>1, <3>2, <3>4
  <2> QED
    BY <1>2, <2>1 DEF ElementCount
<1>4. CASE h.dims # <<>>
  <2>1. Len(h.dims) \in DOMAIN h.dims /\ SubSeq(h.dims, 1, Len(h.dims)) = h.dims
    BY <1>1, <1>4
  <2>2. Product(h.dims) < Word
    BY <2>1 DEF DimsFit
  <2> QED
    BY <1>1, <1>2, <2>2 DEF ElementCount
<1> QED
  BY <1>3, <1>4

(* page_format.rs:178: whatever headers are written, moved or replaced, a  *)
(* header that reads back and whose size verifies counts its bytes, at     *)
(* every word width: the unchecked product never wraps around there.       *)
THEOREM HeadersCountTheirBytes == ServingSpec => []AcceptedHeaderCountsItsBytes
<1>1. ServingInit => FilesWellFormed
  BY DEF ServingInit, FilesWellFormed
<1>2. FilesWellFormed => AcceptedHeaderCountsItsBytes
  <2> SUFFICES ASSUME FilesWellFormed, NEW d \in Payload, Readable(d),
                      SizeVerified(files[d].header)
               PROVE  Product(files[d].header.dims) * BytesPerElement(files[d].header.dtype)
                        = Length[files[d].body]
    BY DEF AcceptedHeaderCountsItsBytes
  <2>1. /\ WellFormedHeader(files[d].header) /\ DimsFit(files[d].header.dims)
        /\ files[d].header.length = Length[files[d].body]
    BY DEF FilesWellFormed, Readable, ValidHeader
  <2>2. ElementCount(files[d].header) = Product(files[d].header.dims)
    BY <2>1, FittingDimsAreCounted
  <2> QED
    BY <2>1, <2>2 DEF SizeVerified
<1> QED
  BY <1>1, <1>2, NextFilesWellFormed, PTL DEF ServingSpec

(***************************************************************************)
(* The pages that leave.                                                   *)
(***************************************************************************)
Envelope(e) ==
    e = [header |-> e.header, digest |-> e.digest, payload |-> e.payload,
         intact |-> e.intact]

(* An envelope the endpoint has not touched is of a listed page; one that  *)
(* it has touched is so as long as its payload matches its digest, since   *)
(* only one of the two can have been changed.                              *)
Sent(t) ==
    LET e == endpoint[t] IN
    /\ Envelope(e)
    /\ e.payload = e.digest => t.state \in committed /\ Lists(t.state, e.payload)
    /\ e.intact => /\ e.payload = e.digest
                   /\ e.header.kind = t.kind
                   /\ e.header.start = t.layer

Received ==
    received # NoFile =>
        /\ \E m \in committed : Lists(m, received.payload)
        /\ received.header.payload = received.payload
        /\ received.header.length = Length[received.payload]

LeavingInv ==
    /\ endpoint = [t \in DOMAIN endpoint |-> endpoint[t]]
    /\ \A t \in DOMAIN endpoint : Sent(t)
    /\ Received
    /\ served = {}

LEMMA SentKept ==
    ASSUME NEW t, Sent(t), endpoint'[t] = endpoint[t], committed \subseteq committed'
    PROVE  Sent(t)'
  BY DEF Sent, Envelope, Lists

LEMMA ReceivedKept ==
    ASSUME Received, received' = received, committed \subseteq committed'
    PROVE  Received'
  BY DEF Received, Lists

(* find_page's page is the one that the manifest lists, and the header of  *)
(* its file names the kind and the layer asked for.                        *)
LEMMA SendPageLeaving ==
    ASSUME LeavingInv, NEW m \in Manifest, NEW layer \in Layer, NEW kind \in Kind,
           SendPage(m, layer, kind)
    PROVE  LeavingInv'
<1> DEFINE t == [state |-> m, layer |-> layer, kind |-> kind]
           sent(i) == [header |-> files[m.pages[i]].header,
                       digest |-> files[m.pages[i]].body,
                       payload |-> files[m.pages[i]].body, intact |-> TRUE]
<1>1. PICK i \in Matching(m, layer, kind) :
        /\ endpoint' = [u \in DOMAIN endpoint \cup {t} |->
                          IF u = t THEN sent(i) ELSE endpoint[u]]
        /\ m \in committed /\ UNCHANGED <<committed, received, served>>
        /\ Findable(m, layer, kind)
  <2>1. Matching(m, layer, kind) # {}
    BY DEF SendPage, Findable
  <2> QED
    BY <2>1 DEF SendPage
<1> DEFINE e == sent(i)
<1>2. /\ e = [header |-> files[m.pages[i]].header, digest |-> files[m.pages[i]].body,
              payload |-> files[m.pages[i]].body, intact |-> TRUE]
      /\ endpoint' = [u \in DOMAIN endpoint \cup {t} |->
                        IF u = t THEN e ELSE endpoint[u]]
  BY <1>1
<1> HIDE DEF e
<1>3. /\ i \in DOMAIN m.pages /\ e.header.kind = kind /\ e.header.start = layer
      /\ e.payload = m.pages[i]
  BY <1>1, <1>2 DEF Matching, Findable, Readable
<1>4. Lists(m, e.payload)
  BY <1>3 DEF Lists, Range
<1>5. Sent(t)'
  <2>1. endpoint'[t] = e /\ t.state = m /\ t.kind = kind /\ t.layer = layer
    BY <1>1, <1>2
  <2> HIDE DEF t
  <2> QED
    BY <1>1, <1>2, <1>3, <1>4, <2>1 DEF Sent, Envelope
<1>6. ASSUME NEW u \in DOMAIN endpoint', u # t PROVE Sent(u)'
  <2>1. u \in DOMAIN endpoint /\ endpoint'[u] = endpoint[u]
    BY <1>1, <1>2, <1>6
  <2> QED
    BY <1>1, <1>2, <2>1, SentKept DEF LeavingInv
<1>7. endpoint' = [u \in DOMAIN endpoint' |-> endpoint'[u]]
  BY <1>1, <1>2
<1>8. Received' /\ served' = {}
  BY <1>1, <1>2, ReceivedKept DEF LeavingInv
<1> QED
  BY <1>5, <1>6, <1>7, <1>8 DEF LeavingInv

(* One change, whichever it is, makes no other payload match its digest.   *)
LEMMA TamperLeaving ==
    ASSUME LeavingInv, NEW t \in DOMAIN endpoint, Tamper(t)
    PROVE  LeavingInv'
<1>1. PICK d \in Damages(endpoint[t]) :
        /\ endpoint' = [endpoint EXCEPT ![t] = [d EXCEPT !.intact = FALSE]]
        /\ endpoint[t].intact /\ UNCHANGED <<committed, received, served>>
  BY DEF Tamper
<1> DEFINE e == endpoint[t]
<1>2. /\ e = [header |-> e.header, digest |-> e.digest, payload |-> e.payload,
              intact |-> e.intact]
      /\ e.payload = e.digest /\ t.state \in committed /\ Lists(t.state, e.payload)
  BY <1>1 DEF LeavingInv, Sent, Envelope
<1>3. /\ d = [header |-> d.header, digest |-> d.digest, payload |-> d.payload,
              intact |-> d.intact]
      /\ d.payload = e.payload \/ d.digest = e.digest
      /\ d.payload = d.digest => d.payload = e.payload
  <2>1. CASE \E p \in Payload : d = [e EXCEPT !.payload = p]
    BY <1>2, <2>1
  <2>2. CASE \E p \in Payload : d = [e EXCEPT !.digest = p]
    BY <1>2, <2>2
  <2>3. CASE \E p \in Payload : d = [e EXCEPT !.header.payload = p]
    BY <1>2, <2>3
  <2>4. CASE d = [e EXCEPT !.header.start = @ + 1]
    BY <1>2, <2>4
  <2> QED
    BY <1>1, <2>1, <2>2, <2>3, <2>4 DEF Damages
<1>4. Sent(t)'
  <2>1. endpoint'[t] = [header |-> d.header, digest |-> d.digest,
                        payload |-> d.payload, intact |-> FALSE]
    BY <1>1, <1>3 DEF LeavingInv
  <2>2. d.payload = d.digest => (t.state \in committed /\ Lists(t.state, d.payload))'
    BY <1>1, <1>2, <1>3 DEF Lists
  <2> QED
    BY <2>1, <2>2 DEF Sent, Envelope
<1>5. ASSUME NEW u \in DOMAIN endpoint', u # t PROVE Sent(u)'
  <2>1. u \in DOMAIN endpoint /\ endpoint'[u] = endpoint[u]
    BY <1>1, <1>5 DEF LeavingInv
  <2> QED
    BY <1>1, <2>1, SentKept DEF LeavingInv
<1>6. endpoint' = [u \in DOMAIN endpoint' |-> endpoint'[u]]
  BY <1>1 DEF LeavingInv
<1>7. Received' /\ served' = {}
  BY <1>1, ReceivedKept DEF LeavingInv
<1> QED
  BY <1>4, <1>5, <1>6, <1>7 DEF LeavingInv

(* A server without states has nothing to fork. *)
LEMMA HandleServesNothing ==
    ASSUME LeavingInv, NEW q \in Request, Handle(q)
    PROVE  served' = {}
<1>1. ~Forks(q)
  BY DEF Forks, ToolReply, Forkable, LeavingInv
<1> QED
  BY <1>1 DEF Handle, LeavingInv

LEMMA NextLeaving == LeavingInv /\ [ServingNext]_servingVars => LeavingInv'
<1> SUFFICES ASSUME LeavingInv, [ServingNext]_servingVars PROVE LeavingInv'
  OBVIOUS
<1>1. ASSUME endpoint' = endpoint, committed \subseteq committed', Received',
             served' = {}
      PROVE  LeavingInv'
  BY <1>1, SentKept DEF LeavingInv
<1>2. ASSUME NEW m \in Manifest, Commit(m) PROVE LeavingInv'
  BY <1>1, <1>2, ReceivedKept DEF Commit, LeavingInv
<1>3. ASSUME NEW m \in Manifest, NEW layer \in Layer, NEW kind \in Kind,
             SendPage(m, layer, kind)
      PROVE  LeavingInv'
  BY <1>3, SendPageLeaving
<1>4. ASSUME NEW t \in DOMAIN endpoint, Tamper(t) PROVE LeavingInv'
  BY <1>4, TamperLeaving
<1>5. ASSUME NEW t \in DOMAIN endpoint, ReceivePage(t) PROVE LeavingInv'
  <2>1. /\ received' = [header |-> endpoint[t].header, payload |-> endpoint[t].payload]
        /\ Acceptable(endpoint[t]) /\ UNCHANGED <<committed, endpoint, served>>
    BY <1>5 DEF ReceivePage
  <2>2. t.state \in committed /\ Lists(t.state, endpoint[t].payload)
    BY <2>1 DEF LeavingInv, Sent, Acceptable
  <2>3. Received'
    BY <2>1, <2>2 DEF Received, Acceptable, Lists
  <2> QED
    BY <1>1, <2>1, <2>3 DEF LeavingInv
<1>6. ASSUME NEW q \in Request, Handle(q) PROVE LeavingInv'
  BY <1>1, <1>6, HandleServesNothing, ReceivedKept DEF Handle, LeavingInv
<1>7. CASE UNCHANGED <<committed, endpoint, received, served>>
  BY <1>1, <1>7, ReceivedKept DEF LeavingInv
<1> QED
  BY <1>2, <1>3, <1>4, <1>5, <1>6, <1>7 DEF ServingNext, Persist, MoveFile, servingVars

(* transport.rs: wherever files are moved and whichever one thing of an    *)
(* envelope is changed on its way, a page that leaves, or that is taken in,*)
(* is listed by a committed manifest, and the MCP server hands out nothing.*)
THEOREM OnlyListedLeave == ServingSpec => []OnlyListedPagesLeave
<1>1. ServingInit => LeavingInv
  BY DEF ServingInit, LeavingInv, Received
<1>2. LeavingInv => OnlyListedPagesLeave
  BY DEF LeavingInv, Sent, Received, OnlyListedPagesLeave
<1> QED
  BY <1>1, <1>2, NextLeaving, PTL DEF ServingSpec

(***************************************************************************)
(* The context window.                                                     *)
(***************************************************************************)
Capture == [index : Nat, count : Nat, state : Seq(Words)]

Window == [max : WindowSizes, active : Seq(Words), count : Nat,
           captures : Seq(Capture), next : Nat, pushed : Seq(Words)]

CapturedWords(c) == [i \in DOMAIN c |-> c[i].state]

(* The count, which decides when a window is full, is the number of its    *)
(* tokens, and the next index the number of captures.                      *)
WindowInv ==
    /\ window \in Window
    /\ window.count = Len(window.active)
    /\ window.next = Len(window.captures)
    /\ WindowsHoldEveryToken

(* What the properties say of a window w. *)
HoldsEveryToken(w) ==
    /\ w \in Window
    /\ w.count = Len(w.active)
    /\ w.next = Len(w.captures)
    /\ FlattenSeq(CapturedWords(w.captures)) \o w.active = w.pushed
    /\ \A i \in DOMAIN w.captures :
           /\ w.captures[i].index = i - 1
           /\ w.captures[i].count = Len(w.captures[i].state)
           /\ w.captures[i].count =< w.max

LEMMA WindowInvIs ==
    WindowInv <=> HoldsEveryToken(window) /\ Len(window.active) < window.max
  BY DEF WindowInv, HoldsEveryToken, WindowsHoldEveryToken, CapturedWords

LEMMA CapturedWordsType ==
    ASSUME NEW c \in Seq(Capture)
    PROVE  /\ CapturedWords(c) \in Seq(Seq(Words))
           /\ Len(CapturedWords(c)) = Len(c)
           /\ \A i \in 1 .. Len(c) : CapturedWords(c)[i] = c[i].state
<1>1. Len(c) \in Nat /\ DOMAIN c = 1 .. Len(c)
  BY LenProperties
<1>2. \A i \in 1 .. Len(c) : c[i].state \in Seq(Words)
  <2> SUFFICES ASSUME NEW i \in 1 .. Len(c) PROVE c[i].state \in Seq(Words)
    OBVIOUS
  <2>1. c[i] \in Capture
    BY ElementOfSeq
  <2> QED
    BY <2>1 DEF Capture
<1>3. CapturedWords(c) = [i \in 1 .. Len(c) |-> c[i].state]
  BY <1>1 DEF CapturedWords
<1>4. CapturedWords(c) \in [1 .. Len(c) -> Seq(Words)]
      /\ \A i \in 1 .. Len(c) : CapturedWords(c)[i] = c[i].state
  BY <1>2, <1>3
<1> QED
  BY <1>1, <1>4, FunctionIsSeq

LEMMA AppendConcat ==
    ASSUME NEW S, NEW f \in Seq(S), NEW a \in Seq(S), NEW t \in S
    PROVE  f \o Append(a, t) = Append(f \o a, t)
<1>1. <<t>> \in Seq(S)
  OBVIOUS
<1>2. f \o a \in Seq(S)
  BY ConcatProperties
<1>3. Append(a, t) = a \o <<t>> /\ Append(f \o a, t) = (f \o a) \o <<t>>
  BY <1>2, AppendIsConcat
<1> QED
  BY <1>1, <1>3, ConcatAssociative

LEMMA WindowOf ==
    ASSUME NEW m \in WindowSizes, NEW a \in Seq(Words), NEW k \in Nat,
           NEW c \in Seq(Capture), NEW x \in Nat, NEW p \in Seq(Words)
    PROVE  [max |-> m, active |-> a, count |-> k, captures |-> c, next |-> x,
            pushed |-> p] \in Window
  BY DEF Window

LEMMA SlidOf ==
    ASSUME NEW w \in Window, NEW a \in Seq(Words), NEW k \in Nat,
           NEW c \in Seq(Capture), NEW x \in Nat
    PROVE  [w EXCEPT !.captures = c, !.next = x, !.active = a, !.count = k] \in Window
  BY DEF Window

LEMMA PushedOf ==
    ASSUME NEW w \in Window, NEW a \in Seq(Words), NEW k \in Nat, NEW p \in Seq(Words)
    PROVE  [w EXCEPT !.active = a, !.count = k, !.pushed = p] \in Window
  BY DEF Window

LEMMA NewWindowHolds ==
    ASSUME NEW n \in WindowSizes
    PROVE  HoldsEveryToken(NewWindow(n)) /\ Len(NewWindow(n).active) < NewWindow(n).max
<1> DEFINE w == NewWindow(n)
<1>1. n \in Nat \ {0}
  BY WindowAssumption
<1>2. w \in Window
  BY WindowOf, EmptySeq DEF NewWindow
<1>3. /\ w.captures = <<>> /\ w.active = <<>> /\ w.pushed = <<>>
      /\ w.max = n /\ w.count = 0 /\ w.next = 0
  BY DEF NewWindow
<1>4. CapturedWords(<<>>) = <<>>
  BY CapturedWordsType, EmptySeq
<1>5. FlattenSeq(CapturedWords(<<>>)) = <<>>
  BY <1>4, EmptySeq DEF FlattenSeq
<1>6. <<>> \o <<>> = <<>> /\ Len(<<>>) = 0 /\ DOMAIN <<>> = {}
  BY EmptySeq, ConcatEmptySeq
<1> HIDE DEF w
<1> QED
  BY <1>1, <1>2, <1>3, <1>5, <1>6 DEF HoldsEveryToken, w

(* A slide moves the active tokens, which may fill the window, to the end  *)
(* of the captured ones.                                                   *)
LEMMA SlidHolds ==
    ASSUME NEW w, HoldsEveryToken(w), Len(w.active) <= w.max
    PROVE  /\ HoldsEveryToken(Slid(w))
           /\ Len(Slid(w).active) < Slid(w).max
<1> DEFINE r == [index |-> w.next, count |-> w.count, state |-> w.active]
           c == w.captures
           d == Append(c, r)
           v == Slid(w)
<1>1. /\ w \in Window /\ c \in Seq(Capture) /\ w.active \in Seq(Words)
      /\ w.max \in WindowSizes /\ w.max \in Nat \ {0} /\ r \in Capture
      /\ w.count = Len(w.active) /\ w.next = Len(c) /\ w.pushed \in Seq(Words)
      /\ w.next \in Nat
  BY WindowAssumption DEF HoldsEveryToken, Window, Capture
<1>2. /\ v.captures = d /\ v.next = Len(c) + 1 /\ v.active = <<>>
      /\ v.count = 0 /\ v.max = w.max /\ v.pushed = w.pushed
  BY <1>1 DEF Slid, Window
<1>3. /\ d \in Seq(Capture) /\ Len(d) = Len(c) + 1 /\ d[Len(c) + 1] = r
      /\ \A i \in 1 .. Len(c) : d[i] = c[i]
  BY <1>1, AppendProperties
<1>4. v \in Window
  <2>1. v = [w EXCEPT !.captures = d, !.next = w.next + 1, !.active = <<>>, !.count = 0]
    BY Zenon DEF Slid
  <2>2. <<>> \in Seq(Words) /\ w.next + 1 \in Nat
    BY <1>1, EmptySeq
  <2> HIDE DEF d, v
  <2> QED
    BY <1>1, <1>3, <2>1, <2>2, SlidOf
<1> HIDE DEF d
<1>5. CapturedWords(c) \in Seq(Seq(Words))
      /\ CapturedWords(d) = Append(CapturedWords(c), w.active)
  <2> DEFINE x == CapturedWords(c)
             y == CapturedWords(d)
  <2>1. /\ x \in Seq(Seq(Words)) /\ Len(x) = Len(c)
        /\ \A i \in 1 .. Len(c) : x[i] = c[i].state
    BY <1>1, CapturedWordsType
  <2>2. /\ y \in Seq(Seq(Words)) /\ Len(y) = Len(c) + 1
        /\ \A i \in 1 .. Len(c) + 1 : y[i] = d[i].state
    BY <1>3, CapturedWordsType
  <2> DEFINE z == Append(x, w.active)
  <2> HIDE DEF x, y
  <2>3. /\ z \in Seq(Seq(Words)) /\ Len(z) = Len(c) + 1
        /\ z[Len(c) + 1] = w.active /\ \A i \in 1 .. Len(c) : z[i] = x[i]
    BY <1>1, <2>1, AppendProperties
  <2>4. Len(c) \in Nat /\ r.state = w.active
    BY <1>1, LenProperties
  <2> HIDE DEF r, z
  <2>5. ASSUME NEW i \in 1 .. Len(c) + 1 PROVE y[i] = z[i]
    <3>1. CASE i \in 1 .. Len(c)
      BY <3>1, <1>3, <2>1, <2>2, <2>3
    <3>2. CASE i = Len(c) + 1
      BY <3>2, <1>3, <2>2, <2>3, <2>4
    <3> QED
      BY <2>4, <3>1, <3>2
  <2>6. y = z
    BY <2>2, <2>3, <2>5, SeqEqual
  <2> QED
    BY <2>1, <2>6 DEF x, y, z
<1>6. FlattenSeq(CapturedWords(v.captures)) \o v.active = v.pushed
  <2>1. /\ FlattenSeq(CapturedWords(c)) \in Seq(Words)
        /\ FlattenSeq(CapturedWords(d)) = FlattenSeq(CapturedWords(c)) \o w.active
    <3> DEFINE x == CapturedWords(c)
    <3> HIDE DEF x
    <3>1. FlattenSeq(x) \in Seq(Words)
          /\ FlattenSeq(Append(x, w.active)) = FlattenSeq(x) \o w.active
      BY <1>1, <1>5, FlattenAppend DEF x
    <3> QED
      BY <1>5, <3>1 DEF x
  <2>2. FlattenSeq(CapturedWords(c)) \o w.active \in Seq(Words)
    BY <1>1, <2>1, ConcatProperties
  <2>3. FlattenSeq(CapturedWords(c)) \o w.active = w.pushed
    BY DEF HoldsEveryToken
  <2> HIDE DEF c, v
  <2> QED
    BY <1>1, <1>2, <2>1, <2>2, <2>3, ConcatEmptySeq
<1>7. ASSUME NEW i \in DOMAIN d
      PROVE  d[i].index = i - 1 /\ d[i].count = Len(d[i].state) /\ d[i].count =< w.max
  <2>1. Len(c) \in Nat /\ i \in 1 .. Len(c) + 1 /\ DOMAIN c = 1 .. Len(c)
    BY <1>1, <1>3, LenProperties
  <2>2. CASE i \in DOMAIN c
    BY <1>3, <2>1, <2>2 DEF HoldsEveryToken
  <2>3. CASE i = Len(c) + 1
    BY <1>1, <1>3, <2>1, <2>3
  <2> QED
    BY <2>1, <2>2, <2>3
<1>8. Len(v.active) = 0
  BY <1>2, EmptySeq
<1> HIDE DEF v
<1>9. HoldsEveryToken(v)
  BY <1>2, <1>3, <1>4, <1>6, <1>7, <1>8 DEF HoldsEveryToken
<1> QED
  BY <1>1, <1>2, <1>8, <1>9 DEF v

(* A push puts the token at the end of the active window. *)
LEMMA PushedHolds ==
    ASSUME NEW w, HoldsEveryToken(w), Len(w.active) < w.max, NEW t \in Words
    PROVE  /\ HoldsEveryToken(Pushed(w, t))
           /\ Len(Pushed(w, t).active) <= Pushed(w, t).max
           /\ Pushed(w, t).count = Len(Pushed(w, t).active)
<1> DEFINE v == Pushed(w, t)
           f == FlattenSeq(CapturedWords(w.captures))
           a == Append(w.active, t)
           p == Append(w.pushed, t)
<1>1. /\ w \in Window /\ w.active \in Seq(Words) /\ w.pushed \in Seq(Words)
      /\ w.max \in WindowSizes /\ w.max \in Nat \ {0} /\ w.captures \in Seq(Capture)
      /\ w.count = Len(w.active) /\ w.count \in Nat /\ w.next \in Nat
  BY WindowAssumption DEF HoldsEveryToken, Window
<1>2. /\ v.captures = w.captures /\ v.next = w.next /\ v.active = a
      /\ v.count = w.count + 1 /\ v.max = w.max /\ v.pushed = p
  BY <1>1 DEF Pushed, Window
<1>3. a \in Seq(Words) /\ p \in Seq(Words) /\ Len(a) = Len(w.active) + 1
  BY <1>1, AppendProperties
<1>4. v \in Window
  <2>1. v = [w EXCEPT !.active = a, !.count = w.count + 1, !.pushed = p]
    BY Zenon DEF Pushed
  <2>2. w.count + 1 \in Nat
    BY <1>1
  <2> HIDE DEF a, p, v
  <2> QED
    BY <1>1, <1>3, <2>1, <2>2, PushedOf
<1>5. f \in Seq(Words)
  <2>1. CapturedWords(w.captures) \in Seq(Seq(Words)) /\ <<>> \in Seq(Words)
    BY <1>1, CapturedWordsType, EmptySeq
  <2> QED
    BY <2>1, FlattenAppend
<1>6. f \o a = p
  <2>1. f \o w.active = w.pushed
    BY DEF HoldsEveryToken
  <2> HIDE DEF f
  <2>2. f \o Append(w.active, t) = Append(f \o w.active, t)
    BY <1>1, <1>5, AppendConcat
  <2> QED
    BY <2>1, <2>2
<1> HIDE DEF a, p, v
<1>7. HoldsEveryToken(v)
  BY <1>1, <1>2, <1>3, <1>4, <1>6 DEF HoldsEveryToken
<1> QED
  BY <1>1, <1>2, <1>3, <1>7 DEF v

LEMMA NextWindowInv == WindowInv /\ [AppNext]_appVars => WindowInv'
<1> SUFFICES ASSUME WindowInv, [AppNext]_appVars PROVE WindowInv'
  OBVIOUS
<1>1. HoldsEveryToken(window) /\ Len(window.active) < window.max
  BY WindowInvIs
<1>2. ASSUME HoldsEveryToken(window'), Len(window'.active) < window'.max
      PROVE  WindowInv'
  BY <1>2, WindowInvIs DEF WindowInv, HoldsEveryToken, WindowsHoldEveryToken,
                           CapturedWords
<1>3. ASSUME NEW t \in Words, PushToken(t) PROVE WindowInv'
  <2> DEFINE w == Pushed(window, t)
  <2>1. window' = IF w.count = w.max THEN Slid(w) ELSE w
    BY <1>3 DEF PushToken
  <2>2. /\ HoldsEveryToken(w) /\ Len(w.active) <= w.max /\ w.count = Len(w.active)
        /\ w.max \in Nat /\ w.count \in Nat
    <3>1. HoldsEveryToken(w) /\ Len(w.active) <= w.max /\ w.count = Len(w.active)
      BY <1>1, PushedHolds
    <3> HIDE DEF w
    <3> QED
      BY <3>1, WindowAssumption DEF HoldsEveryToken, Window
  <2> HIDE DEF w
  <2>3. CASE w.count = w.max
    BY <1>2, <2>1, <2>2, <2>3, SlidHolds
  <2>4. CASE w.count # w.max
    BY <1>2, <2>1, <2>2, <2>4
  <2> QED
    BY <2>3, <2>4
<1>4. CASE Slide
  <2>1. window' = Slid(window)
    BY <1>4 DEF Slide
  <2>2. window.max \in Nat /\ Len(window.active) \in Nat
    BY <1>1, WindowAssumption DEF HoldsEveryToken, Window
  <2> QED
    BY <1>1, <1>2, <2>1, <2>2, SlidHolds
<1>5. ASSUME NEW n \in WindowSizes, OpenWindow(n) PROVE WindowInv'
  <2>1. window' = NewWindow(n)
    BY <1>5 DEF OpenWindow
  <2> QED
    BY <1>2, <2>1, NewWindowHolds
<1>6. CASE window' = window
  BY <1>1, <1>2, <1>6
<1>7. CASE WindowNext
  BY <1>3, <1>4, <1>5, <1>7 DEF WindowNext
<1>8. CASE FlowNext \/ ChatNext \/ RecordNext \/ UNCHANGED appVars
  <2>1. window' = window
    BY <1>8 DEF FlowNext, ChatNext, RecordNext, PushStep, Checkpoint, Resume,
         CommitOrCollect, CaptureChat, RecordFork, StartTool, RecordAfter,
         CaptureDocument, Compose, Ask, appVars
  <2> QED
    BY <1>6, <2>1
<1> QED
  BY <1>7, <1>8 DEF AppNext

(* apps/context.rs: for windows of any size, any tokens and any number of  *)
(* pushes and slides, the captures and the active window hold every token  *)
(* once and in order, and no capture is longer than its window.            *)
THEOREM NoTokenIsLost == AppSpec => []WindowsHoldEveryToken
<1>1. AppInit => WindowInv
  BY NewWindowHolds, WindowInvIs DEF AppInit
<1>2. WindowInv => WindowsHoldEveryToken
  BY DEF WindowInv
<1> QED
  BY <1>1, <1>2, NextWindowInv, PTL DEF AppSpec

(***************************************************************************)
(* The two-tier cache.                                                     *)
(***************************************************************************)
(* Where a vector goes.                                                    *)
Dimensions(s) == s.layers \in Nat \ {0} /\ s.kv \in Nat \ {0}

Places(s) == (1 .. s.layers) \X (1 .. s.kv) \X {0, 1}

PlaceOf(s, x) == Offset(s, x[1], x[2], x[3])

(* Every place is one of the offsets in a token. *)
LEMMA OffsetType ==
    ASSUME NEW s, Dimensions(s), NEW x \in Places(s)
    PROVE  PlaceOf(s, x) \in 0 .. 2 * s.layers * s.kv - 1
<1> DEFINE l == x[1]  h == x[2]  side == x[3]  b == s.kv * 2
<1>1. /\ l \in 1 .. s.layers /\ h \in 1 .. s.kv /\ side \in {0, 1}
      /\ s.layers \in Nat /\ s.kv \in Nat
  BY DEF Places, Dimensions
<1>2. PlaceOf(s, x) = (l - 1) * b + ((h - 1) * 2 + side)
  BY <1>1 DEF PlaceOf, Offset
<1>3. (l - 1) * b + b <= s.layers * b
  BY <1>1, MulLess
<1>4. b \in Nat /\ (l - 1) * b \in Nat /\ (h - 1) * 2 + side \in 0 .. b - 1
  BY <1>1
<1>5. s.layers * b = 2 * s.layers * s.kv
  BY <1>1
<1> HIDE DEF l, h, side, b
<1> QED
  BY <1>1, <1>2, <1>3, <1>4, <1>5

(* The key and the value of each head of each layer, in this order. *)
LEMMA OffsetOrders ==
    ASSUME NEW s, Dimensions(s), NEW x \in Places(s), NEW y \in Places(s)
    PROVE  Before(x, y) <=> PlaceOf(s, x) < PlaceOf(s, y)
<1> DEFINE b == s.kv * 2
           in(z) == (z[2] - 1) * 2 + z[3]
<1>1. \A z \in {x, y} : /\ z[1] \in 1 .. s.layers /\ z[2] \in 1 .. s.kv /\ z[3] \in {0, 1}
                        /\ s.layers \in Nat /\ s.kv \in Nat
  BY DEF Places, Dimensions
<1>2. \A z \in {x, y} : /\ PlaceOf(s, z) = (z[1] - 1) * b + in(z)
                        /\ in(z) \in 0 .. b - 1 /\ b \in Nat
                        /\ (z[1] - 1) * b \in Nat /\ z[1] - 1 \in Nat
  BY <1>1 DEF PlaceOf, Offset
<1>3. CASE x[1] < y[1]
  <2>0. x[1] - 1 < y[1] - 1
    BY <1>1, <1>3
  <2> HIDE DEF in, b
  <2>1. (x[1] - 1) * b + b <= (y[1] - 1) * b
    BY <1>2, <2>0, MulLess
  <2> QED
    BY <1>1, <1>2, <1>3, <2>1 DEF Before
<1>4. CASE y[1] < x[1]
  <2>0. y[1] - 1 < x[1] - 1
    BY <1>1, <1>4
  <2> HIDE DEF in, b
  <2>1. (y[1] - 1) * b + b <= (x[1] - 1) * b
    BY <1>2, <2>0, MulLess
  <2> QED
    BY <1>1, <1>2, <1>4, <2>1 DEF Before
<1>5. CASE x[1] = y[1]
  <2>1. Before(x, y) <=> in(x) < in(y)
    BY <1>1, <1>5 DEF Before
  <2> HIDE DEF in, b
  <2> QED
    BY <1>2, <1>5, <2>1
<1> QED
  BY <1>1, <1>3, <1>4, <1>5

(* Every offset in a token is the place of a vector. *)
LEMMA OffsetReaches ==
    ASSUME NEW s, Dimensions(s), NEW m \in 0 .. 2 * s.layers * s.kv - 1
    PROVE  \E x \in Places(s) : PlaceOf(s, x) = m
<1> DEFINE b == s.kv * 2
           q == m \div b
           r == m % b
           c == r \div 2
           e == r % 2
           x == <<q + 1, c + 1, e>>
<1>1. s.layers \in Nat /\ s.kv \in Nat /\ b \in Nat \ {0} /\ m \in Nat
      /\ m < s.layers * b
  BY DEF Dimensions
<1>2. q \in Nat /\ r \in 0 .. b - 1 /\ m = q * b + r
  BY <1>1, DivMod
<1>3. q < s.layers
  BY <1>1, DivLess
<1>4. c \in Nat /\ e \in 0 .. 1 /\ r = c * 2 + e
  <2>1. r \in Nat /\ 2 \in Nat \ {0}
    BY <1>1, <1>2
  <2> HIDE DEF r
  <2> QED
    BY <2>1, DivMod
<1> HIDE DEF q, r, c, e
<1>5. c < s.kv
  BY <1>1, <1>2, <1>4
<1>6. x \in Places(s)
  BY <1>1, <1>2, <1>3, <1>4, <1>5 DEF Places
<1>7. PlaceOf(s, x) = m
  BY <1>1, <1>2, <1>4 DEF PlaceOf, Offset
<1> QED
  BY <1>6, <1>7

(* The documented place is the offset: as many vectors go before it. *)
LEMMA DocumentedIsOffset ==
    ASSUME NEW s, Dimensions(s), NEW x \in Places(s)
    PROVE  DocumentedPlace(s, x) = PlaceOf(s, x)
<1> DEFINE n == PlaceOf(s, x)
           B == {y \in Places(s) : Before(y, x)}
           f == [y \in B |-> PlaceOf(s, y) + 1]
<1>1. n \in Nat /\ n \in 0 .. 2 * s.layers * s.kv - 1
  BY OffsetType
<1>2. f \in Injection(B, 1 .. n)
  <2>1. ASSUME NEW y \in B PROVE PlaceOf(s, y) + 1 \in 1 .. n
    BY <1>1, OffsetOrders, OffsetType
  <2>2. ASSUME NEW y \in B, NEW z \in B, PlaceOf(s, y) + 1 = PlaceOf(s, z) + 1
        PROVE  y = z
    <3>1. PlaceOf(s, y) \in Nat /\ PlaceOf(s, z) \in Nat
      BY OffsetType
    <3>2. ~Before(y, z) /\ ~Before(z, y)
      BY <2>2, <3>1, OffsetOrders
    <3> QED
      BY <3>2 DEF Before, Places
  <2> QED
    BY <2>1, <2>2 DEF Injection, IsInjective
<1>3. f \in Surjection(B, 1 .. n)
  <2>1. ASSUME NEW m \in 1 .. n PROVE \E y \in B : f[y] = m
    <3>1. m - 1 \in 0 .. 2 * s.layers * s.kv - 1
      <4> DEFINE all == 2 * s.layers * s.kv
      <4>1. all \in Nat
        BY DEF Dimensions
      <4> HIDE DEF all, n
      <4>2. m - 1 \in 0 .. all - 1
        BY <1>1, <4>1 DEF all
      <4> QED
        BY <4>2 DEF all
    <3>2. PICK y \in Places(s) : PlaceOf(s, y) = m - 1
      BY <3>1, OffsetReaches
    <3>3. y \in B
      BY <1>1, <3>2, OffsetOrders
    <3> QED
      BY <3>2, <3>3
  <2> QED
    BY <1>2, <2>1 DEF Injection, Surjection
<1>4. Cardinality(B) = n
  <2>1. IsFiniteSet(1 .. n) /\ Cardinality(1 .. n) = n
    BY <1>1, FS_Interval
  <2> HIDE DEF B, f
  <2> QED
    BY <1>2, <1>3, <2>1, FS_Injection
<1> QED
  BY <1>4 DEF DocumentedPlace, Places

(* A batch is a sequence of units: each head of each token in its place.   *)
Unit(owner) == {owner} \X Nat \X Nat

Size(n, s) == n * s.kv
TokenAt(s, k) == ((k - 1) \div s.kv) + 1
HeadAt(s, k) == ((k - 1) % s.kv) + 1

UnitAt(owner, s, l, side, k) ==
    <<owner, TokenAt(s, k), PlaceOf(s, <<l, HeadAt(s, k), side>>)>>

(* The token and the head of a position in a batch, and back.              *)
LEMMA PositionOf ==
    ASSUME NEW n \in Nat, NEW kv \in Nat \ {0}, NEW k \in 1 .. n * kv
    PROVE  /\ (k - 1) \div kv \in 0 .. n - 1 /\ (k - 1) % kv \in 0 .. kv - 1
           /\ (((k - 1) \div kv) * kv) + ((k - 1) % kv) + 1 = k
           /\ k - 1 \in Nat
<1> DEFINE a == k - 1  all == n * kv
<1>1. all \in Nat
  OBVIOUS
<1>2. a \in Nat /\ a < all
  <2> HIDE DEF all
  <2>1. k \in 1 .. all
    BY DEF all
  <2> QED
    BY <1>1, <2>1
<1>3. a = (a \div kv) * kv + (a % kv) /\ a \div kv \in Nat /\ a % kv \in 0 .. kv - 1
  <2> HIDE DEF a
  <2> QED
    BY <1>2, DivMod
<1>4. a \div kv < n
  <2> HIDE DEF a
  <2> QED
    BY <1>2, DivLess DEF all
<1>5. (a \div kv) * kv \in Nat
  BY <1>3
<1>6. k = a + 1
  <2>1. k \in Int
    BY <1>1
  <2> QED
    BY <2>1
<1> HIDE DEF a
<1>7. (((a \div kv) * kv) + (a % kv)) + 1 = k
  BY <1>2, <1>3, <1>5, <1>6
<1> QED
  BY <1>2, <1>3, <1>4, <1>7 DEF a

(* The place of each head of each token lies in the token. *)
LEMMA UnitAtType ==
    ASSUME NEW owner, NEW n \in Nat, NEW s, Dimensions(s),
           NEW l \in 1 .. s.layers, NEW side \in {0, 1}, NEW k \in 1 .. Size(n, s)
    PROVE  /\ UnitAt(owner, s, l, side, k) \in Unit(owner)
           /\ <<l, HeadAt(s, k), side>> \in Places(s)
           /\ Token(owner, TokenAt(s, k), s)[Offset(s, l, HeadAt(s, k), side)]
                = UnitAt(owner, s, l, side, k)
<1> DEFINE h == HeadAt(s, k)
           t == TokenAt(s, k)
<1>1. s.kv \in Nat \ {0} /\ s.layers \in Nat
  BY DEF Dimensions
<1>2. h \in 1 .. s.kv /\ t \in Nat
  <2>1. (k - 1) % s.kv \in 0 .. s.kv - 1 /\ (k - 1) \div s.kv \in 0 .. n - 1
    BY <1>1, PositionOf DEF Size
  <2> QED
    BY <1>1, <2>1 DEF HeadAt, TokenAt
<1>3. UnitAt(owner, s, l, side, k) = <<owner, t, PlaceOf(s, <<l, h, side>>)>>
  BY DEF UnitAt
<1> HIDE DEF h, t
<1>4. <<l, h, side>> \in Places(s)
  BY <1>1, <1>2 DEF Places
<1>5. PlaceOf(s, <<l, h, side>>) \in 0 .. 2 * s.layers * s.kv - 1
      /\ PlaceOf(s, <<l, h, side>>) \in Nat
  BY <1>4, OffsetType
<1>6. PlaceOf(s, <<l, h, side>>) = Offset(s, l, h, side)
  BY DEF PlaceOf
<1>7. Token(owner, t, s)[Offset(s, l, h, side)] = <<owner, t, Offset(s, l, h, side)>>
  BY <1>5, <1>6 DEF Token
<1> QED
  BY <1>2, <1>3, <1>4, <1>5, <1>6, <1>7 DEF Unit, h, t

(* Every vector that a batch reads is there. *)
LEMMA BatchIs ==
    ASSUME NEW owner, NEW n \in Nat, NEW s, Dimensions(s),
           NEW l \in 1 .. s.layers, NEW side \in {0, 1}
    PROVE  /\ Batch(owner, n, s, l, side) \in [1 .. Size(n, s) -> Unit(owner)]
           /\ \A k \in 1 .. Size(n, s) :
                  Batch(owner, n, s, l, side)[k] = UnitAt(owner, s, l, side, k)
           /\ Batch(owner, n, s, l, side) \in Seq(Unit(owner))
           /\ Len(Batch(owner, n, s, l, side)) = Size(n, s)
<1> DEFINE d(k) == Token(owner, TokenAt(s, k), s)[Offset(s, l, HeadAt(s, k), side)]
           B == Batch(owner, n, s, l, side)
<1>1. B = [k \in 1 .. Size(n, s) |-> d(k)]
  BY Zenon DEF Batch, TokenAt, HeadAt, Size
<1>2. \A k \in 1 .. Size(n, s) : d(k) = UnitAt(owner, s, l, side, k) /\ d(k) \in Unit(owner)
  <2> SUFFICES ASSUME NEW k \in 1 .. Size(n, s)
               PROVE  d(k) = UnitAt(owner, s, l, side, k) /\ d(k) \in Unit(owner)
    OBVIOUS
  <2>1. UnitAt(owner, s, l, side, k) \in Unit(owner)
    BY UnitAtType
  <2>2. Token(owner, TokenAt(s, k), s)[Offset(s, l, HeadAt(s, k), side)]
          = UnitAt(owner, s, l, side, k)
    BY UnitAtType
  <2> QED
    BY <2>1, <2>2
<1> HIDE DEF d, B
<1>3. B \in [1 .. Size(n, s) -> Unit(owner)]
      /\ \A k \in 1 .. Size(n, s) : B[k] = UnitAt(owner, s, l, side, k)
  BY <1>1, <1>2
<1>4. Size(n, s) \in Nat
  BY DEF Dimensions, Size
<1>5. B \in Seq(Unit(owner)) /\ Len(B) = Size(n, s)
  BY <1>3, <1>4, FunctionIsSeq
<1> QED
  BY <1>3, <1>5 DEF B

(* What a layer must decode to. *)
BatchesOf(owner, n, s) ==
    [l \in 1 .. s.layers |-> <<Batch(owner, n, s, l, 0), Batch(owner, n, s, l, 1)>>]

(* The documented layout is the one that the batches are read with.        *)
LEMMA InPlaceIs ==
    ASSUME NEW owner, NEW n \in Nat, NEW s, Dimensions(s)
    PROVE  InPlace(owner, n, s) = BatchesOf(owner, n, s)
<1> DEFINE d(l, x, k) ==
             <<owner, TokenAt(s, k), DocumentedPlace(s, <<l, HeadAt(s, k), x>>)>>
           row(l, side) == [k \in 1 .. Size(n, s) |-> d(l, side - 1, k)]
<1>1. ASSUME NEW l \in 1 .. s.layers, NEW x \in {0, 1}
      PROVE  row(l, x + 1) = Batch(owner, n, s, l, x)
  <2> DEFINE B == Batch(owner, n, s, l, x)
  <2>1. ASSUME NEW k \in 1 .. Size(n, s)
        PROVE  d(l, x, k) = UnitAt(owner, s, l, x, k)
    <3>1. <<l, HeadAt(s, k), x>> \in Places(s)
      BY UnitAtType
    <3> QED
      BY <3>1, DocumentedIsOffset DEF UnitAt
  <2>2. B \in [1 .. Size(n, s) -> Unit(owner)]
        /\ \A k \in 1 .. Size(n, s) : B[k] = UnitAt(owner, s, l, x, k)
    BY BatchIs
  <2>3. (x + 1) - 1 = x
    OBVIOUS
  <2> HIDE DEF d, B
  <2>4. row(l, x + 1) = [k \in 1 .. Size(n, s) |-> d(l, x, k)]
    BY <2>3
  <2>5. row(l, x + 1) = B
    <3> HIDE DEF row
    <3> QED
      BY <2>1, <2>2, <2>4
  <2> QED
    BY <2>5 DEF B
<1>2. ASSUME NEW l \in 1 .. s.layers
      PROVE  [side \in {1, 2} |-> row(l, side)]
                = <<Batch(owner, n, s, l, 0), Batch(owner, n, s, l, 1)>>
  <2> HIDE DEF row
  <2>1. row(l, 0 + 1) = Batch(owner, n, s, l, 0)
    BY <1>1
  <2>2. row(l, 1 + 1) = Batch(owner, n, s, l, 1)
    BY <1>1
  <2>3. 0 + 1 = 1 /\ 1 + 1 = 2
    OBVIOUS
  <2> QED
    BY <2>1, <2>2, <2>3
<1>3. InPlace(owner, n, s) = [l \in 1 .. s.layers |-> [side \in {1, 2} |-> row(l, side)]]
  BY Zenon DEF InPlace, TokenAt, HeadAt, Size
<1> HIDE DEF row
<1> QED
  BY <1>2, <1>3 DEF BatchesOf

(* Taking the heads of a batch apart and together again changes nothing.   *)
LEMMA FlattenPerHead ==
    ASSUME NEW S, NEW n \in Nat, NEW kv \in Nat \ {0}, NEW items \in Seq(S),
           Len(items) = n * kv
    PROVE  /\ Flatten(PerHead(items, kv), n, kv) = items
           /\ Len(items) % kv = 0
<1>1. Len(items) \div kv = n /\ Len(items) % kv = 0
  <2>1. 0 \in 0 .. kv - 1 /\ n * kv + 0 = n * kv
    OBVIOUS
  <2>2. (n * kv + 0) \div kv = n /\ (n * kv + 0) % kv = 0
    BY <2>1, DivModUnique
  <2> QED
    BY <2>1, <2>2
<1>2. ASSUME NEW k \in 1 .. n * kv
      PROVE  PerHead(items, kv)[((k - 1) % kv) + 1][((k - 1) \div kv) + 1] = items[k]
  <2> DEFINE h == (k - 1) % kv
             t == (k - 1) \div kv
  <2>1. h \in 0 .. kv - 1 /\ t \in 0 .. n - 1 /\ (t * kv) + h + 1 = k
    BY PositionOf
  <2> HIDE DEF h, t
  <2>2. h + 1 \in 1 .. kv /\ t + 1 \in 1 .. n /\ (t + 1) - 1 = t
    BY <2>1
  <2>3. PerHead(items, kv)[h + 1] = [u \in 1 .. n |-> items[(u - 1) * kv + (h + 1)]]
    BY <1>1, <2>2 DEF PerHead
  <2>4. PerHead(items, kv)[h + 1][t + 1] = items[t * kv + (h + 1)]
    BY <2>2, <2>3
  <2>5. t * kv + (h + 1) = k
    <3>1. t * kv \in Nat
      BY <2>1
    <3> QED
      BY <2>1, <3>1
  <2> QED
    BY <2>4, <2>5 DEF h, t
<1>3. items = [k \in 1 .. n * kv |-> items[k]]
  BY LenProperties
<1> QED
  BY <1>1, <1>2, <1>3 DEF Flatten

(* The build that a pool came from. *)
Source(pl) ==
    [owner |-> "pool", policy |-> pl.policy, shape |-> pl.shape,
     tokens |-> pl.tokens, seed |-> pl.seed]

(* A layer as it was built, or in the form older versions wrote. *)
NewOrOld(pl, l) ==
    pl.layers[l] \in {FibLayer(Source(pl), l), OldLayer(FibLayer(Source(pl), l))}

(* The blocks of the older form. *)
SplitBlock(b) ==
    [k \in DOMAIN b.payload.items |->
        [codec |-> "fib_k4_n32",
         payload |-> [b.payload EXCEPT !.magic = "FB1", !.items = @[k]]]]

(* One block per vector decodes to the vectors, in order. *)
LEMMA SplitDecodes ==
    ASSUME NEW S, NEW items \in Seq(S), NEW p, NEW seed
    PROVE  LET b == SplitBlock(Block("fib_k4_n32_batched", "FB2", seed, p, items))
           IN  /\ BlocksDecode(b, seed) = {items}
               /\ Len(b) = Len(items)
               /\ Len(b) = 1 => b[1].codec = "fib_k4_n32"
<1> DEFINE n == Len(items)
           blk == Block("fib_k4_n32_batched", "FB2", seed, p, items)
           e(k) == [codec |-> "fib_k4_n32",
                    payload |-> [blk.payload EXCEPT !.magic = "FB1",
                                                    !.items = blk.payload.items[k]]]
           b == SplitBlock(blk)
<1>1. n \in Nat /\ DOMAIN items = 1 .. n
  BY LenProperties
<1>2. b = [k \in DOMAIN blk.payload.items |-> e(k)]
  BY Zenon DEF SplitBlock
<1>10. blk.payload.items = items
  BY DEF Block
<1>3. \A k \in 1 .. n : FibDecode(e(k).payload, seed) = {items[k]}
  BY DEF Block, FibDecode
<1>4. \A k \in 1 .. n : e(k).codec = "fib_k4_n32"
  OBVIOUS
<1> HIDE DEF e, b, blk
<1>5. DOMAIN b = 1 .. n /\ Len(b) = n /\ \A k \in 1 .. n : b[k] = e(k)
  BY <1>1, <1>2, <1>10
<1>6. \A k \in 1 .. n : (CHOOSE x \in FibDecode(b[k].payload, seed) : TRUE) = items[k]
  BY <1>3, <1>5
<1>7. [k \in DOMAIN b |-> CHOOSE x \in FibDecode(b[k].payload, seed) : TRUE] = items
  <2> DEFINE c(k) == CHOOSE x \in FibDecode(b[k].payload, seed) : TRUE
  <2>1. \A k \in 1 .. n : c(k) = items[k]
    BY <1>6
  <2> HIDE DEF c
  <2>2. [k \in DOMAIN b |-> c(k)] = items
    BY <1>1, <1>5, <2>1
  <2> QED
    BY <2>2 DEF c
<1>8. BlocksDecode(b, seed) = {items}
  <2>1. ~(\E k \in DOMAIN b : FibDecode(b[k].payload, seed) = {})
    BY <1>3, <1>5
  <2> QED
    BY <1>7, <2>1, Zenon DEF BlocksDecode
<1>9. n = 1 => b[1].codec = "fib_k4_n32"
  BY <1>4, <1>5
<1> QED
  BY <1>5, <1>8, <1>9 DEF b, blk

(* Both forms of a layer decode to its batches. *)
LEMMA SidesDecode ==
    ASSUME NEW pl, Dimensions(pl.shape), pl.tokens \in Nat,
           NEW l \in 1 .. pl.shape.layers, NewOrOld(pl, l), pl.policy.shared \in FibIds
    PROVE  LET layer == pl.layers[l]
               batched == FibBatched(layer)
           IN  /\ LayerSide(pl, layer.keys, batched)
                     = {Batch("pool", pl.tokens, pl.shape, l, 0)}
               /\ LayerSide(pl, layer.values, batched)
                     = {Batch("pool", pl.tokens, pl.shape, l, 1)}
<1> DEFINE b(side) == Batch("pool", pl.tokens, pl.shape, l, side)
           block(side) == Block("fib_k4_n32_batched", "FB2", pl.seed, pl.policy, b(side))
           layer == pl.layers[l]
           F == FibLayer(Source(pl), l)
<1>1. F = [index |-> l, keys |-> <<block(0)>>, values |-> <<block(1)>>]
  BY DEF FibLayer, Source
<1>2. \A side \in {0, 1} : b(side) \in Seq(Unit("pool"))
  BY BatchIs
<1>3. \A side \in {0, 1} : /\ block(side).codec = "fib_k4_n32_batched"
                            /\ FibDecode(block(side).payload, pl.seed) = {b(side)}
  BY DEF Block, FibDecode
<1>4. CASE layer = F
  <2> HIDE DEF block, b, F, layer
  <2>1. FibBatched(layer) = TRUE
    BY <1>1, <1>3, <1>4 DEF FibBatched
  <2>2. layer.keys[1] = block(0) /\ layer.values[1] = block(1)
    BY <1>1, <1>4
  <2>3. LayerSide(pl, layer.keys, TRUE) = {b(0)} /\ LayerSide(pl, layer.values, TRUE) = {b(1)}
    BY <1>3, <2>2 DEF LayerSide
  <2> QED
    BY <2>1, <2>3 DEF b, layer
<1>5. CASE layer = OldLayer(F)
  <2>1. layer.keys = SplitBlock(block(0)) /\ layer.values = SplitBlock(block(1))
    <3> HIDE DEF block, F, layer
    <3>1. OldLayer(F) = [F EXCEPT !.keys = SplitBlock(F.keys[1]), !.values = SplitBlock(F.values[1])]
      BY Zenon DEF OldLayer, SplitBlock
    <3> QED
      BY <1>1, <1>5, <3>1
  <2>2. ASSUME NEW side \in {0, 1}
        PROVE  /\ BlocksDecode(SplitBlock(block(side)), pl.seed) = {b(side)}
               /\ Len(SplitBlock(block(side))) = 1
                     => SplitBlock(block(side))[1].codec = "fib_k4_n32"
    <3> HIDE DEF b
    <3> QED
      BY <1>2, SplitDecodes
  <2> HIDE DEF block, b, F, layer
  <2>3. FibBatched(layer) = FALSE
    BY <2>1, <2>2 DEF FibBatched
  <2>4. LayerSide(pl, layer.keys, FALSE) = {b(0)} /\ LayerSide(pl, layer.values, FALSE) = {b(1)}
    BY <2>1, <2>2 DEF LayerSide
  <2> QED
    BY <2>3, <2>4 DEF b, layer
<1> QED
  BY <1>4, <1>5 DEF NewOrOld

(* The two batches of a layer pass the checks of the decoder. *)
LEMMA BatchDivides ==
    ASSUME NEW pl, Dimensions(pl.shape), pl.tokens \in Nat, NEW l \in 1 .. pl.shape.layers
    PROVE  LET K == Batch("pool", pl.tokens, pl.shape, l, 0)
               V == Batch("pool", pl.tokens, pl.shape, l, 1)
           IN  Len(K) = Len(V) /\ Len(K) % pl.shape.kv = 0
<1> DEFINE n == pl.tokens
           s == pl.shape
           kv == s.kv
           K == Batch("pool", n, s, l, 0)
           V == Batch("pool", n, s, l, 1)
<1>1. Dimensions(s) /\ n \in Nat /\ l \in 1 .. s.layers
  OBVIOUS
<1>2. kv \in Nat \ {0} /\ Size(n, s) = n * kv
  BY DEF Dimensions, Size
<1> HIDE DEF n, s
<1>3. K \in Seq(Unit("pool")) /\ Len(K) = Size(n, s) /\ Len(V) = Size(n, s)
  BY <1>1, BatchIs
<1> HIDE DEF K, kv
<1>4. Len(K) % kv = 0
  <2>1. n \in Nat /\ K \in Seq(Unit("pool")) /\ Len(K) = n * kv
    BY <1>1, <1>2, <1>3
  <2> QED
    BY <1>2, <2>1, FlattenPerHead
<1> QED
  BY <1>3, <1>4 DEF K, kv, n, s

(* A layer decodes to the heads of its two batches. *)
LEMMA LayerDecodes ==
    ASSUME NEW pl, Dimensions(pl.shape), pl.tokens \in Nat,
           NEW l \in 1 .. pl.shape.layers, NewOrOld(pl, l), pl.policy.shared \in FibIds
    PROVE  DecompressLayer(pl, l) =
             {[keys |-> PerHead(Batch("pool", pl.tokens, pl.shape, l, 0), pl.shape.kv),
               values |-> PerHead(Batch("pool", pl.tokens, pl.shape, l, 1), pl.shape.kv)]}
<1> DEFINE layer == pl.layers[l]
           kv == pl.shape.kv
           batched == FibBatched(layer)
           K == Batch("pool", pl.tokens, pl.shape, l, 0)
           V == Batch("pool", pl.tokens, pl.shape, l, 1)
           sides == {d \in LayerSide(pl, layer.keys, batched)
                              \X LayerSide(pl, layer.values, batched) :
                         Len(d[1]) = Len(d[2]) /\ Len(d[1]) % kv = 0}
<1>1. LayerSide(pl, layer.keys, batched) = {K} /\ LayerSide(pl, layer.values, batched) = {V}
  BY SidesDecode
<1>2. Len(K) = Len(V) /\ Len(K) % kv = 0
  BY BatchDivides
<1>3. DecompressLayer(pl, l) = {[keys |-> PerHead(d[1], kv), values |-> PerHead(d[2], kv)] : d \in sides}
  BY Zenon DEF DecompressLayer
<1> HIDE DEF K, V, layer, batched
<1>4. sides = {<<K, V>>}
  BY <1>1, <1>2
<1> HIDE DEF sides
<1> QED
  BY <1>3, <1>4 DEF K, V

(* A batch survives being taken apart by heads. *)
LEMMA BatchFlattens ==
    ASSUME NEW owner, NEW n \in Nat, NEW s, Dimensions(s),
           NEW l \in 1 .. s.layers, NEW side \in {0, 1}
    PROVE  Flatten(PerHead(Batch(owner, n, s, l, side), s.kv), n, s.kv)
             = Batch(owner, n, s, l, side)
<1> DEFINE B == Batch(owner, n, s, l, side)
           kv == s.kv
<1>1. B \in Seq(Unit(owner)) /\ Len(B) = Size(n, s)
  BY BatchIs
<1>2. kv \in Nat \ {0} /\ Size(n, s) = n * kv
  BY DEF Dimensions, Size
<1> HIDE DEF B, kv
<1>3. Flatten(PerHead(B, kv), n, kv) = B
  BY <1>1, <1>2, FlattenPerHead
<1> QED
  BY <1>3 DEF B, kv

(* A pool whose layers are those of its build decodes to the corpus.       *)
LEMMA PoolDecodes ==
    ASSUME NEW pl, Dimensions(pl.shape), pl.tokens \in Nat,
           DOMAIN pl.layers = 1 .. pl.shape.layers,
           \A l \in 1 .. pl.shape.layers : NewOrOld(pl, l), pl.policy.shared \in FibIds
    PROVE  PoolTensors(pl) = {InPlace("pool", pl.tokens, pl.shape)}
<1> DEFINE n == pl.tokens
           kv == pl.shape.kv
           B(l, side) == Batch("pool", n, pl.shape, l, side)
           d(l) == CHOOSE d \in DecompressLayer(pl, l) : TRUE
           t(l) == <<Flatten(d(l).keys, n, kv), Flatten(d(l).values, n, kv)>>
<1>1. \A l \in 1 .. pl.shape.layers : DecompressLayer(pl, l) =
         {[keys |-> PerHead(B(l, 0), kv), values |-> PerHead(B(l, 1), kv)]}
  BY LayerDecodes
<1>2. \A l \in 1 .. pl.shape.layers :
         d(l) = [keys |-> PerHead(B(l, 0), kv), values |-> PerHead(B(l, 1), kv)]
  <2> HIDE DEF B, kv
  <2> QED
    BY <1>1
<1>3. \A l \in 1 .. pl.shape.layers :
         /\ Flatten(PerHead(B(l, 0), kv), n, kv) = B(l, 0)
         /\ Flatten(PerHead(B(l, 1), kv), n, kv) = B(l, 1)
  BY BatchFlattens
<1>4. PoolTensors(pl) = {[l \in DOMAIN pl.layers |-> t(l)]}
  <2>1. ~(\E l \in DOMAIN pl.layers : DecompressLayer(pl, l) = {})
    BY <1>1
  <2> QED
    BY <2>1, Zenon DEF PoolTensors
<1> HIDE DEF d, B, kv, n
<1>5. \A l \in 1 .. pl.shape.layers : t(l) = <<B(l, 0), B(l, 1)>>
  BY <1>2, <1>3
<1> HIDE DEF t
<1>6. PoolTensors(pl) = {[l \in 1 .. pl.shape.layers |-> <<B(l, 0), B(l, 1)>>]}
  BY <1>4, <1>5
<1>7. InPlace("pool", n, pl.shape) = BatchesOf("pool", n, pl.shape)
  BY InPlaceIs DEF n
<1>8. BatchesOf("pool", n, pl.shape) = [l \in 1 .. pl.shape.layers |-> <<B(l, 0), B(l, 1)>>]
  BY Zenon DEF BatchesOf, B, n
<1> QED
  BY <1>6, <1>7, <1>8 DEF n

(* The materialization that a shell came from. *)
ShellSource(a, pl, sh) ==
    [owner |-> a, policy |-> pl.policy, shape |-> pl.shape,
     tokens |-> sh.tokens, seed |-> sh.seed]

ShellLayers(a, pl, sh) ==
    [l \in 1 .. pl.shape.layers |-> TurboLayer(ShellSource(a, pl, sh), l)]

(* A shell of the build decodes to its tokens under its seed only.         *)
LEMMA ShellDecodes ==
    ASSUME NEW a, NEW pl, NEW sh, NEW seed, Dimensions(pl.shape), sh.tokens \in Nat,
           sh.bits = pl.policy.bits, sh.kv = pl.shape.kv,
           sh.codec = ShellId(pl.policy),
           sh.layers = ShellLayers(a, pl, sh)
    PROVE  /\ ShellTensors(sh, seed) =
                 IF seed = sh.seed THEN {InPlace(a, sh.tokens, pl.shape)} ELSE {}
           /\ \A l \in DOMAIN sh.layers :
                 \A b \in {sh.layers[l].keys[1], sh.layers[l].values[1]} : b.codec = sh.codec
<1> DEFINE n == sh.tokens
           L == pl.shape.layers
           B(l, side) == Batch(a, n, pl.shape, l, side)
           block(l, side) == Block(ShellId(pl.policy), "TQB1", sh.seed, pl.policy, B(l, side))
           side(blocks) == TurboDecode(blocks[1].payload, sh.bits, seed)
           tensor(blocks) ==
               Flatten(PerHead(CHOOSE x \in side(blocks) : TRUE, sh.kv), sh.tokens, sh.kv)
           t(l) == <<tensor(sh.layers[l].keys), tensor(sh.layers[l].values)>>
           fails(l) == side(sh.layers[l].keys) = {} \/ side(sh.layers[l].values) = {}
<1>1. L \in Nat \ {0} /\ DOMAIN sh.layers = 1 .. L
  BY DEF Dimensions, ShellLayers
<1>2. \A l \in DOMAIN sh.layers : sh.layers[l].keys[1] = block(l, 0) /\ sh.layers[l].values[1] = block(l, 1)
  BY DEF ShellLayers, TurboLayer, ShellSource
<1>3. \A l \in DOMAIN sh.layers :
         /\ block(l, 0).codec = sh.codec /\ block(l, 1).codec = sh.codec
         /\ TurboDecode(block(l, 0).payload, sh.bits, seed)
               = IF seed = sh.seed THEN {B(l, 0)} ELSE {}
         /\ TurboDecode(block(l, 1).payload, sh.bits, seed)
               = IF seed = sh.seed THEN {B(l, 1)} ELSE {}
  BY DEF Block, TurboDecode
<1>4. ShellTensors(sh, seed) =
        IF \E l \in DOMAIN sh.layers : fails(l) THEN {} ELSE {[l \in DOMAIN sh.layers |-> t(l)]}
  BY Zenon DEF ShellTensors
<1>5. \A l \in DOMAIN sh.layers :
         \A b \in {sh.layers[l].keys[1], sh.layers[l].values[1]} : b.codec = sh.codec
  <2> SUFFICES ASSUME NEW l \in DOMAIN sh.layers
               PROVE  /\ sh.layers[l].keys[1].codec = sh.codec
                      /\ sh.layers[l].values[1].codec = sh.codec
    OBVIOUS
  <2> HIDE DEF block, B, L
  <2> QED
    BY <1>2, <1>3
<1>6. CASE seed # sh.seed
  <2> HIDE DEF block, B, L
  <2>0. PICK l \in DOMAIN sh.layers : TRUE
    <3>1. \E l \in 1 .. L : TRUE
      BY <1>1
    <3> QED
      BY <1>1, <3>1
  <2>1. fails(l)
    BY <2>0, <1>2, <1>3, <1>6
  <2> HIDE DEF fails, t
  <2>2. ShellTensors(sh, seed) = {}
    BY <1>4, <2>0, <2>1
  <2> QED
    BY <1>5, <1>6, <2>2
<1>7. CASE seed = sh.seed
  <2>1. \A l \in 1 .. L :
           /\ Flatten(PerHead(B(l, 0), sh.kv), n, sh.kv) = B(l, 0)
           /\ Flatten(PerHead(B(l, 1), sh.kv), n, sh.kv) = B(l, 1)
    BY BatchFlattens
  <2>2. BatchesOf(a, n, pl.shape) = [l \in 1 .. L |-> <<B(l, 0), B(l, 1)>>]
    BY Zenon DEF BatchesOf
  <2> HIDE DEF block, B
  <2>0. \A l \in DOMAIN sh.layers :
           side(sh.layers[l].keys) = {B(l, 0)} /\ side(sh.layers[l].values) = {B(l, 1)}
    BY <1>2, <1>3, <1>7
  <2>3. \A l \in 1 .. L : side(sh.layers[l].keys) = {B(l, 0)} /\ side(sh.layers[l].values) = {B(l, 1)}
    <3> HIDE DEF side
    <3> QED
      BY <1>1, <2>0
  <2>4. ~(\E l \in DOMAIN sh.layers : fails(l))
    BY <1>1, <2>3
  <2>5. \A l \in 1 .. L : tensor(sh.layers[l].keys) = B(l, 0) /\ tensor(sh.layers[l].values) = B(l, 1)
    <3> HIDE DEF side
    <3> QED
      BY <2>1, <2>3
  <2>6. \A l \in 1 .. L : t(l) = <<B(l, 0), B(l, 1)>>
    <3> HIDE DEF tensor
    <3> QED
      BY <2>5
  <2> HIDE DEF fails, t
  <2>7. ShellTensors(sh, seed) = {[l \in 1 .. L |-> <<B(l, 0), B(l, 1)>>]}
    BY <1>1, <1>4, <2>4, <2>6
  <2>8. InPlace(a, n, pl.shape) = BatchesOf(a, n, pl.shape)
    BY InPlaceIs
  <2> QED
    BY <1>5, <1>7, <2>2, <2>7, <2>8
<1> QED
  BY <1>6, <1>7

(* The layer that a build in progress makes at l. *)
LayerOf(j, l) == IF j.owner = "pool" THEN FibLayer(j, l) ELSE TurboLayer(j, l)

(* A build has finished only layers of its own.  A pool is built once, and *)
(* a shell for the pool that there is.                                     *)
JobRight ==
    job # NoJob =>
        /\ job \in [owner : AgentId \cup {"pool"}, policy : Policies, shape : Shapes,
                     tokens : Nat, seed : Seeds, done : {job.done}]
        /\ Dimensions(job.shape)
        /\ job.done \subseteq {LayerOf(job, l) : l \in 1 .. job.shape.layers}
        /\ IF job.owner = "pool" THEN pool = <<>>
           ELSE pool # <<>> /\ job.policy = pool[1].policy /\ job.shape = pool[1].shape

(* The pool has every layer of its build, in its place. *)
PoolRight ==
    pool # <<>> =>
        LET pl == pool[1]  L == pl.shape.layers IN
        /\ pool = <<pl>>
        /\ pl \in [policy : Policies, shape : Shapes, tokens : Nat, seed : Seeds,
                    layers : {pl.layers}]
        /\ Dimensions(pl.shape)
        /\ pl.layers = [l \in 1 .. L |-> pl.layers[l]]
        /\ \A l \in 1 .. L : NewOrOld(pl, l)

(* So has a shell, under the policy and the shape of the pool.             *)
ShellRight(a) ==
    shells[a] # <<>> =>
        LET pl == pool[1]  sh == shells[a][1] IN
        /\ pool # <<>> /\ ManifestOK(pl.policy)
        /\ sh = ShellOf(pl.policy, pl.shape, sh.tokens, sh.seed, sh.layers)
        /\ sh.layers # <<>> =>
              /\ sh.tokens \in Nat
              /\ sh.layers = ShellLayers(a, pl, sh)

TierInv ==
    /\ JobRight
    /\ PoolRight
    /\ DOMAIN shells = AgentId /\ shells = [a \in AgentId |-> shells[a]]
    /\ \A a \in AgentId : ShellRight(a)

(* The invariant is enough for both properties.                            *)
LEMMA InvImplies == TierInv => PoolDecodesInPlace /\ ShellDecodesOrFails
<1> SUFFICES ASSUME TierInv PROVE PoolDecodesInPlace /\ ShellDecodesOrFails
  OBVIOUS
<1>1. PoolDecodesInPlace
  <2> SUFFICES ASSUME pool # <<>>, pool[1].policy.shared \in FibIds
               PROVE  PoolTensors(pool[1]) = {InPlace("pool", pool[1].tokens, pool[1].shape)}
    BY DEF PoolDecodesInPlace
  <2> DEFINE pl == pool[1]
  <2>1. /\ Dimensions(pl.shape) /\ pl.tokens \in Nat
        /\ pl.layers = [l \in 1 .. pl.shape.layers |-> pl.layers[l]]
        /\ \A l \in 1 .. pl.shape.layers : NewOrOld(pl, l)
    BY DEF TierInv, PoolRight
  <2> HIDE DEF pl
  <2>2. DOMAIN pl.layers = 1 .. pl.shape.layers
    BY <2>1
  <2>3. pl.policy.shared \in FibIds
    BY DEF pl
  <2> QED
    BY <2>1, <2>2, <2>3, PoolDecodes DEF pl
<1>2. ShellDecodesOrFails
  <2> SUFFICES ASSUME NEW a \in AgentId, NEW seed \in Seeds, shells[a] # <<>>
               PROVE  LET sh == shells[a][1] IN
                      /\ sh.layers # <<>> =>
                             ShellTensors(sh, seed) =
                               IF seed = sh.seed THEN {InPlace(a, sh.tokens, pool[1].shape)}
                               ELSE {}
                      /\ \A l \in DOMAIN sh.layers :
                            \A b \in {sh.layers[l].keys[1], sh.layers[l].values[1]} :
                                b.codec = sh.codec
    BY DEF ShellDecodesOrFails
  <2> DEFINE sh == shells[a][1]
             pl == pool[1]
  <2>1. ShellRight(a) /\ pool # <<>> /\ Dimensions(pl.shape)
    BY DEF TierInv, PoolRight, ShellRight
  <2>2. CASE sh.layers = <<>>
    BY <2>2
  <2>3. CASE sh.layers # <<>>
    <3>1. /\ sh.codec = pl.policy.shell /\ sh.bits = pl.policy.bits /\ sh.kv = pl.shape.kv
          /\ ManifestOK(pl.policy)
      <4>1. sh = ShellOf(pl.policy, pl.shape, sh.tokens, sh.seed, sh.layers)
            /\ ManifestOK(pl.policy)
        BY <2>1 DEF ShellRight
      <4> HIDE DEF sh, pl
      <4>2. /\ ShellOf(pl.policy, pl.shape, sh.tokens, sh.seed, sh.layers).codec = pl.policy.shell
            /\ ShellOf(pl.policy, pl.shape, sh.tokens, sh.seed, sh.layers).bits = pl.policy.bits
            /\ ShellOf(pl.policy, pl.shape, sh.tokens, sh.seed, sh.layers).kv = pl.shape.kv
        BY DEF ShellOf
      <4> QED
        BY <4>1, <4>2
    <3>2. sh.codec = ShellId(pl.policy)
      BY <3>1 DEF ManifestOK
    <3>3. /\ sh.tokens \in Nat
          /\ sh.layers = ShellLayers(a, pl, sh)
      BY <2>1, <2>3 DEF ShellRight
    <3> HIDE DEF sh, pl
    <3>4. Dimensions(pl.shape)
      BY <2>1
    <3>5. /\ ShellTensors(sh, seed) =
                IF seed = sh.seed THEN {InPlace(a, sh.tokens, pl.shape)} ELSE {}
          /\ \A l \in DOMAIN sh.layers :
                \A b \in {sh.layers[l].keys[1], sh.layers[l].values[1]} : b.codec = sh.codec
      BY <3>1, <3>2, <3>3, <3>4, ShellDecodes
    <3> QED
      BY <3>5 DEF sh, pl
  <2> QED
    BY <2>2, <2>3
<1> QED
  BY <1>1, <1>2

(* A layer is made of the build's fields that no layer changes.            *)
LEMMA LayerOfSame ==
    ASSUME NEW j, NEW k, j.owner = k.owner, j.policy = k.policy, j.shape = k.shape,
           j.tokens = k.tokens, j.seed = k.seed, NEW l
    PROVE  FibLayer(j, l) = FibLayer(k, l) /\ TurboLayer(j, l) = TurboLayer(k, l)
           /\ LayerOf(j, l) = LayerOf(k, l)
  BY DEF LayerOf, FibLayer, TurboLayer

(* As many layers as the shape has are all of them, each once. *)
LEMMA BuiltHasAll ==
    ASSUME job # NoJob, JobRight, Built
    PROVE  Layers(job) = [l \in 1 .. job.shape.layers |-> LayerOf(job, l)]
<1> DEFINE L == job.shape.layers
           m(l) == LayerOf(job, l)
           S == {m(l) : l \in 1 .. L}
           f == [l \in 1 .. L |-> m(l)]
<1>1. L \in Nat /\ job.done \subseteq S /\ Cardinality(job.done) = L
  BY DEF JobRight, Dimensions, Built
<1>2. \A l \in 1 .. L : m(l).index = l
  BY DEF LayerOf, FibLayer, TurboLayer
<1> HIDE DEF m, L
<1>3. f \in Surjection(1 .. L, S) /\ f \in Injection(1 .. L, S)
  BY <1>2 DEF Surjection, Injection, IsInjective
<1>4. IsFiniteSet(1 .. L) /\ Cardinality(1 .. L) = L
  BY <1>1, FS_Interval
<1>5. IsFiniteSet(S) /\ Cardinality(S) = L
  <2> HIDE DEF S, f
  <2> QED
    BY <1>3, <1>4, FS_Surjection
<1>6. job.done = S
  <2> HIDE DEF S
  <2> QED
    BY <1>1, <1>5, FS_Subset
<1>7. \A l \in 1 .. L : (CHOOSE d \in job.done : d.index = l) = m(l)
  <2> SUFFICES ASSUME NEW l \in 1 .. L PROVE (CHOOSE d \in job.done : d.index = l) = m(l)
    OBVIOUS
  <2>1. m(l) \in job.done /\ m(l).index = l
    BY <1>2, <1>6
  <2>2. \A d \in job.done : d.index = l => d = m(l)
    BY <1>2, <1>6
  <2> QED
    BY <2>1, <2>2
<1> DEFINE c(l) == CHOOSE d \in job.done : d.index = l
<1>8. Layers(job) = [l \in 1 .. L |-> c(l)]
  BY Zenon DEF Layers, L
<1> HIDE DEF c
<1>9. Layers(job) = [l \in 1 .. L |-> m(l)]
  BY <1>7, <1>8 DEF c
<1> QED
  BY <1>9, Zenon DEF m, L

(* A shell depends on the pool for its policy and its shape, which stay.   *)
LEMMA ShellStays ==
    ASSUME NEW a \in AgentId, ShellRight(a), shells'[a] = shells[a],
           pool # <<>> => /\ pool' # <<>> /\ pool'[1].policy = pool[1].policy
                          /\ pool'[1].shape = pool[1].shape
    PROVE  ShellRight(a)'
<1> SUFFICES ASSUME shells[a] # <<>> PROVE ShellRight(a)'
  BY DEF ShellRight
<1> DEFINE sh == shells[a][1]
           pl == pool[1]
           ql == pool'[1]
<1>1. /\ pool # <<>> /\ ManifestOK(pl.policy)
      /\ sh = ShellOf(pl.policy, pl.shape, sh.tokens, sh.seed, sh.layers)
      /\ sh.layers # <<>> => sh.tokens \in Nat /\ sh.layers = ShellLayers(a, pl, sh)
  BY DEF ShellRight
<1>2. pool' # <<>> /\ ql.policy = pl.policy /\ ql.shape = pl.shape
  BY <1>1
<1>3. ShellLayers(a, ql, sh) = ShellLayers(a, pl, sh)
  <2> HIDE DEF sh, pl, ql
  <2> QED
    BY <1>2 DEF ShellLayers, ShellSource
<1>4. shells'[a] # <<>> /\ shells'[a][1] = sh
  OBVIOUS
<1> HIDE DEF sh, pl
<1> QED
  BY <1>1, <1>2, <1>3, <1>4 DEF ShellRight

(* A step that leaves the pool and the shells alone keeps them right. *)
LEMMA PoolStays == PoolRight /\ pool' = pool => PoolRight'
  BY DEF PoolRight

LEMMA ShellsStay ==
    ASSUME TierInv, pool' = pool, shells' = shells
    PROVE  /\ (DOMAIN shells = AgentId /\ shells = [a \in AgentId |-> shells[a]])'
           /\ \A a \in AgentId : ShellRight(a)'
<1>1. \A a \in AgentId : ShellRight(a)
  BY DEF TierInv
<1>2. \A a \in AgentId : ShellRight(a)'
  BY <1>1, ShellStays
<1> QED
  BY <1>2 DEF TierInv

(* One lemma for each action. *)
LEMMA BeginPoolRight ==
    ASSUME TierInv, NEW p \in Policies, NEW s \in Shapes, NEW n \in 0 .. MaxTokens,
           NEW seed \in Seeds, BeginPool(p, s, n, seed)
    PROVE  TierInv'
<1>1. /\ job' = [owner |-> "pool", policy |-> p, shape |-> s, tokens |-> n,
                 seed |-> seed, done |-> {}]
      /\ pool = <<>> /\ pool' = pool /\ shells' = shells /\ ValidShape(s)
  BY DEF BeginPool
<1>2. Dimensions(s) /\ n \in Nat
  BY <1>1, TierAssumption DEF ValidShape, Dimensions
<1>3. JobRight'
  BY <1>1, <1>2 DEF JobRight
<1> QED
  BY <1>1, <1>3, PoolStays, ShellsStay DEF TierInv

LEMMA BeginShellRight ==
    ASSUME TierInv, NEW a \in AgentId, NEW n \in 0 .. MaxTokens, NEW seed \in Seeds,
           BeginShell(a, n, seed)
    PROVE  TierInv'
<1>1. /\ job' = [owner |-> a, policy |-> pool[1].policy, shape |-> pool[1].shape,
                 tokens |-> n, seed |-> seed, done |-> {}]
      /\ pool # <<>> /\ pool' = pool /\ shells' = shells
  BY DEF BeginShell
<1>2. /\ pool[1].policy \in Policies /\ pool[1].shape \in Shapes
      /\ Dimensions(pool[1].shape) /\ n \in Nat /\ a # "pool"
  BY <1>1, TierAssumption DEF TierInv, PoolRight
<1>3. JobRight'
  BY <1>1, <1>2 DEF JobRight
<1> QED
  BY <1>1, <1>3, PoolStays, ShellsStay DEF TierInv

LEMMA BuildLayerRight ==
    ASSUME TierInv, NEW l, BuildLayer(l)
    PROVE  TierInv'
<1> DEFINE X == LayerOf(job, l)
<1>1. /\ job # NoJob /\ l \in 1 .. job.shape.layers /\ pool' = pool /\ shells' = shells
      /\ job' = [job EXCEPT !.done = @ \cup {X}]
  BY DEF BuildLayer, LayerOf
<1>2. /\ job \in [owner : AgentId \cup {"pool"}, policy : Policies, shape : Shapes,
                   tokens : Nat, seed : Seeds, done : {job.done}]
      /\ Dimensions(job.shape)
      /\ job.done \subseteq {LayerOf(job, k) : k \in 1 .. job.shape.layers}
      /\ IF job.owner = "pool" THEN pool = <<>>
         ELSE pool # <<>> /\ job.policy = pool[1].policy /\ job.shape = pool[1].shape
  BY <1>1 DEF TierInv, JobRight
<1> HIDE DEF X
<1>3. /\ job'.owner = job.owner /\ job'.policy = job.policy /\ job'.shape = job.shape
      /\ job'.tokens = job.tokens /\ job'.seed = job.seed
      /\ job'.done = job.done \cup {X}
      /\ job' \in [owner : AgentId \cup {"pool"}, policy : Policies, shape : Shapes,
                    tokens : Nat, seed : Seeds, done : {job'.done}]
  BY <1>1, <1>2
<1>4. \A k : LayerOf(job', k) = LayerOf(job, k)
  BY <1>3, LayerOfSame
<1>5. job'.done \subseteq {LayerOf(job', k) : k \in 1 .. job'.shape.layers}
  <2> SUFFICES ASSUME NEW d \in job'.done
               PROVE  \E k \in 1 .. job.shape.layers : d = LayerOf(job, k)
    BY <1>3, <1>4
  <2>1. CASE d = X
    BY <1>1, <2>1 DEF X
  <2>2. CASE d \in job.done
    BY <1>2, <2>2
  <2> QED
    BY <1>3, <2>1, <2>2
<1>6. JobRight'
  BY <1>1, <1>2, <1>3, <1>5 DEF JobRight
<1> QED
  BY <1>1, <1>6, PoolStays, ShellsStay DEF TierInv

LEMMA FinishPoolRight ==
    ASSUME TierInv, FinishPool
    PROVE  TierInv'
<1> DEFINE pl == [policy |-> job.policy, shape |-> job.shape,
                  tokens |-> job.tokens, seed |-> job.seed, layers |-> Layers(job)]
           L == job.shape.layers
<1>1. job # NoJob /\ job.owner = "pool" /\ Built /\ pool' = <<pl>> /\ job' = NoJob
      /\ shells' = shells
  BY DEF FinishPool
<1>2. /\ job.policy \in Policies /\ job.shape \in Shapes /\ job.tokens \in Nat
      /\ job.seed \in Seeds /\ Dimensions(job.shape) /\ pool = <<>>
  BY <1>1 DEF TierInv, JobRight
<1>3. Layers(job) = [l \in 1 .. L |-> LayerOf(job, l)]
  BY <1>1, BuiltHasAll DEF TierInv
<1>4. /\ pl.policy = job.policy /\ pl.shape = job.shape /\ pl.layers = Layers(job)
      /\ pl \in [policy : Policies, shape : Shapes, tokens : Nat, seed : Seeds,
                  layers : {pl.layers}]
  BY <1>2
<1>5. \A l \in 1 .. L : LayerOf(job, l) = FibLayer(Source(pl), l)
  <2>1. /\ Source(pl).owner = job.owner /\ Source(pl).policy = job.policy
        /\ Source(pl).shape = job.shape /\ Source(pl).tokens = job.tokens
        /\ Source(pl).seed = job.seed
    BY <1>1 DEF Source
  <2> HIDE DEF pl
  <2>2. \A l : FibLayer(job, l) = FibLayer(Source(pl), l)
    BY <2>1, LayerOfSame
  <2> QED
    BY <1>1, <2>2 DEF LayerOf
<1> HIDE DEF pl
<1>6. pl.layers = [l \in 1 .. pl.shape.layers |-> pl.layers[l]]
  BY <1>3, <1>4
<1>7. \A l \in 1 .. pl.shape.layers : NewOrOld(pl, l)
  <2> SUFFICES ASSUME NEW l \in 1 .. L PROVE NewOrOld(pl, l)
    BY <1>4
  <2>1. pl.layers[l] = LayerOf(job, l)
    BY <1>3, <1>4
  <2> QED
    BY <1>5, <2>1 DEF NewOrOld
<1>8. PoolRight'
  <2>1. pool'[1] = pl /\ pool' = <<pl>>
    BY <1>1
  <2>2. Dimensions(pl.shape)
    BY <1>2, <1>4
  <2> QED
    BY <1>4, <1>6, <1>7, <2>1, <2>2 DEF PoolRight
<1>9. JobRight'
  BY <1>1 DEF JobRight
<1>10. \A a \in AgentId : ShellRight(a)'
  BY <1>1, <1>2 DEF TierInv, ShellRight
<1> QED
  BY <1>1, <1>8, <1>9, <1>10 DEF TierInv

(* What an agent gets is a shell of the pool, or nothing. *)
LEMMA ShellSet ==
    ASSUME TierInv, NEW a \in AgentId, NEW v, pool' = pool,
           shells' = [shells EXCEPT ![a] = v],
           job' = NoJob \/ job' = job,
           v # <<>> =>
               LET sh == v[1]  pl == pool[1] IN
               /\ pool # <<>> /\ ManifestOK(pl.policy)
               /\ sh = ShellOf(pl.policy, pl.shape, sh.tokens, sh.seed, sh.layers)
               /\ sh.layers # <<>> => sh.tokens \in Nat /\ sh.layers = ShellLayers(a, pl, sh)
    PROVE  TierInv'
<1>1. DOMAIN shells' = AgentId /\ shells' = [b \in AgentId |-> shells'[b]]
  BY DEF TierInv
<1>2. shells'[a] = v /\ \A b \in AgentId \ {a} : shells'[b] = shells[b]
  BY DEF TierInv
<1>3. ShellRight(a)'
  BY <1>2 DEF ShellRight
<1>4. ASSUME NEW b \in AgentId, b # a PROVE ShellRight(b)'
  <2>1. ShellRight(b) /\ shells'[b] = shells[b]
    BY <1>2, <1>4 DEF TierInv
  <2> QED
    BY <2>1, ShellStays
<1>5. JobRight'
  BY DEF TierInv, JobRight
<1> QED
  BY <1>1, <1>3, <1>4, <1>5, PoolStays DEF TierInv

LEMMA FinishShellRight ==
    ASSUME TierInv, FinishShell
    PROVE  TierInv'
<1> DEFINE a == job.owner
           pl == pool[1]
           sh == ShellOf(job.policy, job.shape, job.tokens, job.seed, Layers(job))
<1>1. job # NoJob /\ a \in AgentId /\ Built /\ job' = NoJob /\ pool' = pool
      /\ shells' = IF ManifestOK(job.policy) THEN [shells EXCEPT ![a] = <<sh>>] ELSE shells
  BY DEF FinishShell
<1>2. /\ pool # <<>> /\ job.policy = pl.policy /\ job.shape = pl.shape /\ job.tokens \in Nat
      /\ a # "pool"
  BY <1>1, TierAssumption DEF TierInv, JobRight
<1>3. Layers(job) = [l \in 1 .. job.shape.layers |-> LayerOf(job, l)]
  BY <1>1, BuiltHasAll DEF TierInv
<1>4. /\ sh.tokens = job.tokens /\ sh.seed = job.seed /\ sh.layers = Layers(job)
      /\ sh = ShellOf(pl.policy, pl.shape, sh.tokens, sh.seed, sh.layers)
  BY <1>2 DEF ShellOf
<1>5. Layers(job) = ShellLayers(a, pl, sh)
  <2>1. /\ ShellSource(a, pl, sh).owner = job.owner /\ ShellSource(a, pl, sh).policy = job.policy
        /\ ShellSource(a, pl, sh).shape = job.shape /\ ShellSource(a, pl, sh).tokens = job.tokens
        /\ ShellSource(a, pl, sh).seed = job.seed
    BY <1>2, <1>4 DEF ShellSource
  <2>2. \A l : LayerOf(job, l) = TurboLayer(ShellSource(a, pl, sh), l)
    <3> HIDE DEF sh, pl
    <3>1. \A l : TurboLayer(job, l) = TurboLayer(ShellSource(a, pl, sh), l)
      BY <2>1, LayerOfSame
    <3> QED
      BY <1>2, <3>1 DEF LayerOf
  <2> HIDE DEF sh, pl, a
  <2> QED
    BY <1>2, <1>3, <2>2 DEF ShellLayers
<1> HIDE DEF sh, a
<1>6. CASE ManifestOK(job.policy)
  <2>1. ManifestOK(pl.policy) /\ shells' = [shells EXCEPT ![a] = <<sh>>]
    BY <1>1, <1>2, <1>6
  <2>2. <<sh>>[1] = sh
    OBVIOUS
  <2> QED
    BY <1>1, <1>2, <1>4, <1>5, <2>1, <2>2, ShellSet
<1>7. CASE ~ManifestOK(job.policy)
  <2>1. shells' = shells /\ JobRight'
    BY <1>1, <1>7 DEF JobRight
  <2> QED
    BY <1>1, <2>1, PoolStays, ShellsStay DEF TierInv
<1> QED
  BY <1>6, <1>7

(* A layer that is still batched is the one that was built. *)
LEMMA OldIsNotBatched ==
    ASSUME NEW pl, Dimensions(pl.shape), pl.tokens \in Nat,
           NEW l \in 1 .. pl.shape.layers, NewOrOld(pl, l), FibBatched(pl.layers[l])
    PROVE  pl.layers[l] = FibLayer(Source(pl), l)
<1> DEFINE b == Batch("pool", pl.tokens, pl.shape, l, 0)
           block == Block("fib_k4_n32_batched", "FB2", pl.seed, pl.policy, b)
           F == FibLayer(Source(pl), l)
<1>1. F.keys = <<block>> /\ F = [index |-> l, keys |-> F.keys, values |-> F.values]
  BY DEF FibLayer, Source
<1>2. b \in Seq(Unit("pool"))
  BY BatchIs
<1>3. OldLayer(F).keys = SplitBlock(block)
  <2> HIDE DEF block, F
  <2>1. OldLayer(F) = [F EXCEPT !.keys = SplitBlock(F.keys[1]), !.values = SplitBlock(F.values[1])]
    BY Zenon DEF OldLayer, SplitBlock
  <2> QED
    BY <1>1, <2>1
<1>4. Len(SplitBlock(block)) = 1 => SplitBlock(block)[1].codec = "fib_k4_n32"
  <2> HIDE DEF b
  <2> QED
    BY <1>2, SplitDecodes
<1> HIDE DEF block, F
<1>5. ~FibBatched(OldLayer(F))
  BY <1>3, <1>4 DEF FibBatched
<1> QED
  BY <1>5 DEF NewOrOld, F

LEMMA LoadOldLayerRight ==
    ASSUME TierInv, NEW l, LoadOldLayer(l)
    PROVE  TierInv'
<1> DEFINE pl == pool[1]
           ql == pool'[1]
           L == pl.shape.layers
           f == [pl.layers EXCEPT ![l] = OldLayer(@)]
<1>1. /\ job = NoJob /\ pool # <<>> /\ l \in DOMAIN pl.layers /\ FibBatched(pl.layers[l])
      /\ pool' = <<[pl EXCEPT !.layers[l] = OldLayer(@)]>>
      /\ job' = job /\ shells' = shells
  BY DEF LoadOldLayer
<1>2. /\ pl \in [policy : Policies, shape : Shapes, tokens : Nat, seed : Seeds,
                  layers : {pl.layers}]
      /\ Dimensions(pl.shape)
      /\ pl.layers = [k \in 1 .. L |-> pl.layers[k]]
      /\ \A k \in 1 .. L : NewOrOld(pl, k)
  BY <1>1 DEF TierInv, PoolRight
<1>3. pool' = <<ql>> /\ ql = [pl EXCEPT !.layers = f]
  BY <1>1
<1> HIDE DEF pl, ql, f
<1>4. /\ ql.policy = pl.policy /\ ql.shape = pl.shape /\ ql.tokens = pl.tokens
      /\ ql.seed = pl.seed /\ ql.layers = f
      /\ ql \in [policy : Policies, shape : Shapes, tokens : Nat, seed : Seeds,
                   layers : {ql.layers}]
  BY <1>2, <1>3
<1>5. l \in 1 .. L /\ DOMAIN f = 1 .. L /\ f = [k \in 1 .. L |-> f[k]]
      /\ f[l] = OldLayer(pl.layers[l]) /\ \A k \in 1 .. L : k # l => f[k] = pl.layers[k]
  BY <1>1, <1>2 DEF f
<1>6. pl.layers[l] = FibLayer(Source(pl), l)
  <2>1. pl.tokens \in Nat
    BY <1>2
  <2> QED
    BY <1>1, <1>2, <1>5, <2>1, OldIsNotBatched
<1>7. Source(ql) = Source(pl)
  BY <1>4 DEF Source
<1>8. \A k \in 1 .. L : NewOrOld(ql, k)
  <2> SUFFICES ASSUME NEW k \in 1 .. L PROVE NewOrOld(ql, k)
    OBVIOUS
  <2>1. CASE k = l
    BY <1>4, <1>5, <1>6, <1>7, <2>1 DEF NewOrOld
  <2>2. CASE k # l
    BY <1>2, <1>4, <1>5, <1>7, <2>2 DEF NewOrOld
  <2> QED
    BY <2>1, <2>2
<1>9. PoolRight'
  <2>1. Dimensions(ql.shape)
    BY <1>2, <1>4
  <2>2. ql.layers = [k \in 1 .. ql.shape.layers |-> ql.layers[k]]
        /\ \A k \in 1 .. ql.shape.layers : NewOrOld(ql, k)
    BY <1>4, <1>5, <1>8
  <2>3. ql = pool'[1]
    BY DEF ql
  <2> HIDE <1>5
  <2> QED
    BY <1>3, <1>4, <2>1, <2>2, <2>3 DEF PoolRight
<1>10. JobRight'
  BY <1>1 DEF JobRight
<1>11. \A a \in AgentId : ShellRight(a)'
  <2>1. pool' # <<>> /\ pool'[1].policy = pool[1].policy /\ pool'[1].shape = pool[1].shape
    <3>1. pool'[1] = ql /\ pool[1] = pl
      BY DEF pl, ql
    <3>2. <<ql>> # <<>>
      OBVIOUS
    <3> QED
      BY <1>3, <1>4, <3>1, <3>2
  <2>2. \A a \in AgentId : ShellRight(a) /\ shells'[a] = shells[a]
    BY <1>1 DEF TierInv
  <2> QED
    BY <2>1, <2>2, ShellStays
<1> QED
  BY <1>1, <1>9, <1>10, <1>11 DEF TierInv

LEMMA EmptyShellRight ==
    ASSUME TierInv, NEW a \in AgentId, NEW seed \in Seeds, EmptyShell(a, seed)
    PROVE  TierInv'
<1> DEFINE pl == pool[1]
           sh == ShellOf(pl.policy, pl.shape, 0, seed, <<>>)
<1>1. /\ pool # <<>> /\ ManifestOK(pl.policy) /\ pool' = pool /\ job' = job
      /\ shells' = [shells EXCEPT ![a] = <<sh>>]
  BY DEF EmptyShell
<1>2. sh.tokens = 0 /\ sh.seed = seed /\ sh.layers = <<>>
  BY DEF ShellOf
<1>3. sh = ShellOf(pl.policy, pl.shape, sh.tokens, sh.seed, sh.layers)
  BY <1>2
<1> HIDE DEF sh
<1>4. <<sh>>[1] = sh
  OBVIOUS
<1> QED
  BY <1>1, <1>2, <1>3, <1>4, ShellSet

LEMMA DropShellRight ==
    ASSUME TierInv, NEW a \in AgentId, DropShell(a)
    PROVE  TierInv'
<1>1. pool' = pool /\ job' = job /\ shells' = [shells EXCEPT ![a] = <<>>]
  BY DEF DropShell
<1> QED
  BY <1>1, ShellSet

(* The two tiers hold what they were built from: every layer made so far   *)
(* is a layer of its build, whatever the order the layers were made in.    *)
THEOREM TiersAreRight == TierSpec => []TierInv
<1>1. TierInit => TierInv
  BY DEF TierInit, TierInv, JobRight, PoolRight, ShellRight
<1>2. TierInv /\ [TierNext]_tierVars => TierInv'
  <2> SUFFICES ASSUME TierInv, [TierNext]_tierVars PROVE TierInv'
    OBVIOUS
  <2>1. CASE \E p \in Policies, s \in Shapes, n \in 0 .. MaxTokens, seed \in Seeds :
                 BeginPool(p, s, n, seed)
    BY <2>1, BeginPoolRight
  <2>2. CASE \E s \in Shapes : \E l \in 1 .. s.layers : BuildLayer(l)
    BY <2>2, BuildLayerRight
  <2>3. CASE FinishPool
    BY <2>3, FinishPoolRight
  <2>4. CASE \E a \in AgentId, n \in 0 .. MaxTokens, seed \in Seeds : BeginShell(a, n, seed)
    BY <2>4, BeginShellRight
  <2>5. CASE FinishShell
    BY <2>5, FinishShellRight
  <2>6. CASE \E a \in AgentId, seed \in Seeds : EmptyShell(a, seed)
    BY <2>6, EmptyShellRight
  <2>7. CASE \E a \in AgentId : DropShell(a)
    BY <2>7, DropShellRight
  <2>8. CASE \E s \in Shapes : \E l \in 1 .. s.layers : LoadOldLayer(l)
    BY <2>8, LoadOldLayerRight
  <2>9. CASE UNCHANGED tierVars
    <3>1. job' = job /\ pool' = pool /\ shells' = shells
      BY <2>9 DEF tierVars
    <3>2. JobRight'
      BY <3>1 DEF TierInv, JobRight
    <3> QED
      BY <3>1, <3>2, PoolStays, ShellsStay DEF TierInv
  <2> QED
    BY <2>1, <2>2, <2>3, <2>4, <2>5, <2>6, <2>7, <2>8, <2>9 DEF TierNext
<1> QED
  BY <1>1, <1>2, PTL DEF TierSpec

(* A pool decodes to the corpus it was built from, every vector in the     *)
(* place that build documents, whatever order the layers were built in and *)
(* whichever are in the older form (build_with_policy, decompress_layer).  *)
THEOREM PoolIsInPlace == TierSpec => []PoolDecodesInPlace
<1>1. TierInv => PoolDecodesInPlace
  BY InvImplies
<1> QED
  BY <1>1, TiersAreRight, PTL

(* A shell decodes to its agent's tokens under its seed, to an error under *)
(* every other, and its blocks are of the codec that its manifest names    *)
(* (materialize_shell, ShellManifest::new).                                *)
THEOREM ShellsAreHonest == TierSpec => []ShellDecodesOrFails
<1>1. TierInv => ShellDecodesOrFails
  BY InvImplies
<1> QED
  BY <1>1, TiersAreRight, PTL

(***************************************************************************)
(* Agent sessions.  Their steps are steps of the store, so what            *)
(* StateStoreProofs proves of the store holds under them.                  *)
(***************************************************************************)
Lease == [state : StateId, principal : {g.principal : g \in Grant},
          rights : {g.rights : g \in Grant}, epoch : {g.epoch : g \in Grant},
          issued : 0 .. MaxTime, asked : {g.ttl : g \in Grant},
          expires : (0 .. Width - 1) \cup {None}]

Session == [parent : StateId, forks : Seq(StateId)]

SessionTypeOK ==
    /\ clock \in 0 .. MaxTime
    /\ DOMAIN held \subseteq LeaseId
    /\ held \in [DOMAIN held -> Lease]
    /\ session \in [Agent -> Session \cup {None}]

(***************************************************************************)
(* The type.                                                               *)
(***************************************************************************)
(* A StateLease that is issued is well formed, wrapped around or not. *)
LEMMA NewLeaseType ==
    ASSUME SessionTypeOK, NEW i \in StateId, NEW g \in Grant
    PROVE  NewLease(i, g) \in Lease
<1>1. clock \in 0 .. MaxTime
  BY DEF SessionTypeOK
<1>2. g.ttl # None => (clock + g.ttl) % Width \in 0 .. Width - 1
  BY <1>1, SessionAssumption
<1> QED
  BY <1>1, <1>2 DEF NewLease, Lease

(* A session's state is the parent or a fork of it. *)
LEMMA CurrentType ==
    ASSUME NEW s \in Session
    PROVE  Current(s) \in StateId
<1>1. s.parent \in StateId /\ s.forks \in Seq(StateId)
  BY DEF Session
<1>2. CASE s.forks # <<>>
  <2>1. Len(s.forks) \in 1 .. Len(s.forks)
    BY <1>1, <1>2
  <2>2. s.forks[Len(s.forks)] \in StateId
    BY <1>1, <2>1
  <2> QED
    BY <1>2, <2>2 DEF Current, Last
<1> QED
  BY <1>1, <1>2 DEF Current

LEMMA InitSessionType == SessionInit => SessionTypeOK
  BY SessionAssumption DEF SessionInit, SessionTypeOK, Lease

LEMMA NextSessionType ==
    SessionTypeOK /\ [SessionNext]_<<vars, sessionVars>> => SessionTypeOK'
<1> SUFFICES ASSUME SessionTypeOK, [SessionNext]_<<vars, sessionVars>>
             PROVE  SessionTypeOK'
  OBVIOUS
<1> USE SessionAssumption DEF SessionTypeOK
<1>1. CASE Tick
  BY <1>1 DEF Tick
<1>2. ASSUME NEW l \in LeaseId, NEW i \in StateId, NEW g \in Grant, Issue(l, i, g)
      PROVE  SessionTypeOK'
  <2>1. held' = Insert(held, l, NewLease(i, g)) /\ clock' = clock /\ session' = session
    BY <1>2 DEF Issue
  <2>2. NewLease(i, g) \in Lease
    BY NewLeaseType
  <2>3. DOMAIN held' = DOMAIN held \cup {l} /\ held' \in [DOMAIN held' -> Lease]
    BY <2>1, <2>2 DEF Insert
  <2> QED
    BY <2>1, <2>3
<1>3. ASSUME NEW a \in Agent, NEW i \in StateId, StartSession(a, i) PROVE SessionTypeOK'
  BY <1>3 DEF StartSession, Session
<1>4. ASSUME NEW a \in Agent, NEW l \in LeaseId, NEW caller \in Caller, NEW c \in StateId,
             AgentFork(a, l, caller, c)
      PROVE  SessionTypeOK'
  <2>1. session[a] \in Session /\ clock' = clock /\ held' = held
    BY <1>4 DEF AgentFork
  <2>2. session' = [session EXCEPT ![a].forks = Append(@, c)]
    BY <1>4 DEF AgentFork
  <2>3. [session[a] EXCEPT !.forks = Append(@, c)] \in Session
    <3>1. Append(session[a].forks, c) \in Seq(StateId)
      BY <2>1 DEF Session
    <3> QED
      BY <2>1, <3>1 DEF Session
  <2> QED
    BY <2>1, <2>2, <2>3
<1>5. CASE StoreStep
  BY <1>5 DEF StoreStep, sessionVars
<1>6. CASE Restart
  BY <1>6 DEF Restart
<1>7. CASE UNCHANGED <<vars, sessionVars>>
  BY <1>7 DEF sessionVars
<1> QED
  BY <1>1, <1>2, <1>3, <1>4, <1>5, <1>6, <1>7 DEF SessionNext

(***************************************************************************)
(* The store below.                                                        *)
(***************************************************************************)
(* Each step of a session, a lease or the clock is one step of the store,  *)
(* or none.                                                                *)
LEMMA SessionStepIsStoreStep ==
    ASSUME SessionTypeOK, [SessionNext]_<<vars, sessionVars>>
    PROVE  [Next]_vars
<1>1. ASSUME NEW a \in Agent, NEW l \in LeaseId, NEW caller \in Caller, NEW c \in StateId,
             AgentFork(a, l, caller, c)
      PROVE  Next
  <2>1. session[a] \in Session /\ Fork(Current(session[a]), c)
    BY <1>1 DEF AgentFork, SessionTypeOK
  <2> QED
    BY <2>1, CurrentType DEF Next
<1>2. CASE StoreStep
  <2>1. \A l \in DOMAIN held : l \in LeaseId /\ held[l].state \in StateId
    BY DEF SessionTypeOK, Lease
  <2> QED
    BY <1>2, <2>1 DEF StoreStep, Next
<1>3. CASE Restart
  BY <1>3 DEF Restart, Next
<1>4. CASE UNCHANGED <<vars, sessionVars>>
  BY <1>4
<1> QED
  BY <1>1, <1>2, <1>3, <1>4 DEF SessionNext, Tick, Issue, StartSession

(* The sessions use the store as its own specification allows, and every   *)
(* theorem about the store holds while they run.                           *)
THEOREM SessionsUseTheStore == SessionSpec => Spec /\ []SessionTypeOK
<1>1. SessionInit => Init /\ SessionTypeOK
  BY InitSessionType DEF SessionInit
<1>2. SessionTypeOK /\ [SessionNext]_<<vars, sessionVars>> => [Next]_vars
  BY SessionStepIsStoreStep
<1> QED
  BY <1>1, <1>2, NextSessionType, PTL DEF SessionSpec, Spec

(* A lease of the store roots the state it names, and a pass collects what *)
(* has no root above it: an unexpired lease protects its descendants, and  *)
(* so does one that has expired and is not revoked.                        *)
LEMMA LeasedAreNotCollected ==
    ASSUME IInv, CollectedExactly, NEW l \in DOMAIN leases, NEW i \in report.collected
    PROVE  leases[l] \notin Lineage(i)
<1>1. leases[l] \in Known /\ l \in states[leases[l]].active
  BY DEF IInv, TypeOK, LeaseIndexesAgree
<1>2. leases[l] \in Roots
  BY <1>1 DEF Roots
<1>3. report # NoReport
  BY DEF NoReport
<1> QED
  BY <1>2, <1>3 DEF CollectedExactly, Garbage

(* gc.rs and lease.rs: no pass takes a state that an unexpired registered  *)
(* lease protects, on the state or on an ancestor, however leases, forks   *)
(* and the clock move between the passes.                                  *)
THEOREM LeasesProtect == SessionSpec => []CollectedAreUnleased
<1>1. IInv /\ CollectedExactly => CollectedAreUnleased
  BY LeasedAreNotCollected DEF CollectedAreUnleased
<1> QED
  BY <1>1, SessionsUseTheStore, Invariance, CollectorIsExact, PTL

(***************************************************************************)
(* What authorize gives a session.                                         *)
(***************************************************************************)
(* A fork of a that k is about.                                            *)
LeaseForFork(a, k) ==
    \E l \in DOMAIN held :
        /\ held[l].state = IF k = 1 THEN session[a].parent ELSE session[a].forks[k - 1]
        /\ "Fork" \in held[l].rights

LEMMA LeaseForForkKept ==
    ASSUME NEW a \in Agent, NEW k, session'[a] = session[a], LeaseForFork(a, k),
           DOMAIN held \subseteq DOMAIN held',
           \A l \in DOMAIN held : held'[l] = held[l]
    PROVE  LeaseForFork(a, k)'
  BY DEF LeaseForFork

LEMMA AgentForkKeepsLeases ==
    ASSUME SessionTypeOK, EveryForkHadItsLease,
           NEW a \in Agent, NEW l \in LeaseId, NEW caller \in Caller, NEW c \in StateId,
           AgentFork(a, l, caller, c), NEW k \in DOMAIN session'[a].forks
    PROVE  LeaseForFork(a, k)'
<1> DEFINE s == session[a]
           t == session'[a]
<1>1. /\ s # None /\ s \in Session /\ l \in DOMAIN held /\ held' = held
      /\ held[l].state = Current(s) /\ "Fork" \in held[l].rights
      /\ t = [s EXCEPT !.forks = Append(s.forks, c)]
  BY DEF AgentFork, Authorized, SessionTypeOK
<1>2. /\ s.forks \in Seq(StateId) /\ t.parent = s.parent
      /\ t.forks = Append(s.forks, c)
  BY <1>1 DEF Session
<1>3. k \in 1 .. Len(s.forks) + 1
  BY <1>2
<1>4. CASE k \in 1 .. Len(s.forks)
  <2>1. LeaseForFork(a, k)
    <3>1. a \in Sessions /\ k \in DOMAIN s.forks
      BY <1>1, <1>2, <1>4 DEF Sessions
    <3> QED
      BY <3>1 DEF EveryForkHadItsLease, LeaseForFork
  <2>2. (IF k = 1 THEN t.parent ELSE t.forks[k - 1])
          = (IF k = 1 THEN s.parent ELSE s.forks[k - 1])
    <3>1. k # 1 => k - 1 \in 1 .. Len(s.forks)
      BY <1>2, <1>4
    <3> QED
      BY <1>2, <3>1
  <2> QED
    BY <1>1, <2>1, <2>2 DEF LeaseForFork
<1>5. CASE k = Len(s.forks) + 1
  <2>1. Current(s) = IF k = 1 THEN t.parent ELSE t.forks[k - 1]
    <3>1. CASE s.forks = <<>>
      BY <3>1, <1>2, <1>5 DEF Current
    <3>2. CASE s.forks # <<>>
      <4>1. Len(s.forks) \in Nat \ {0} /\ Current(s) = s.forks[Len(s.forks)]
        BY <3>2, <1>2 DEF Current, Last
      <4>2. k # 1 /\ t.forks[k - 1] = s.forks[Len(s.forks)]
        BY <4>1, <1>2, <1>5
      <4> QED
        BY <4>1, <4>2
    <3> QED
      BY <3>1, <3>2
  <2> QED
    BY <1>1, <2>1 DEF LeaseForFork
<1> QED
  BY <1>3, <1>4, <1>5

LEMMA NextKeepsLeases ==
    SessionTypeOK /\ EveryForkHadItsLease /\ [SessionNext]_<<vars, sessionVars>>
      => EveryForkHadItsLease'
<1> SUFFICES ASSUME SessionTypeOK, EveryForkHadItsLease,
                    [SessionNext]_<<vars, sessionVars>>,
                    NEW b \in Agent, session'[b] # None, NEW k \in DOMAIN session'[b].forks
             PROVE  LeaseForFork(b, k)'
  BY DEF EveryForkHadItsLease, Sessions, LeaseForFork
<1>1. session[b] # None /\ k \in DOMAIN session[b].forks => LeaseForFork(b, k)
  BY DEF EveryForkHadItsLease, Sessions, LeaseForFork
<1>2. CASE session' = session /\ held' = held
  BY <1>1, <1>2, LeaseForForkKept
<1>3. ASSUME NEW l \in LeaseId, NEW i \in StateId, NEW g \in Grant, Issue(l, i, g)
      PROVE  LeaseForFork(b, k)'
  <2>1. session' = session /\ l \notin DOMAIN held /\ held' = Insert(held, l, NewLease(i, g))
    BY <1>3 DEF Issue
  <2>2. DOMAIN held \subseteq DOMAIN held' /\ \A m \in DOMAIN held : held'[m] = held[m]
    BY <2>1 DEF Insert
  <2> QED
    BY <1>1, <2>1, <2>2, LeaseForForkKept
<1>4. ASSUME NEW a \in Agent, NEW i \in StateId, StartSession(a, i)
      PROVE  LeaseForFork(b, k)'
  <2>1. held' = held /\ session' = [session EXCEPT ![a] = [parent |-> i, forks |-> <<>>]]
    BY <1>4 DEF StartSession
  <2>2. b # a /\ session'[b] = session[b]
    BY <2>1 DEF SessionTypeOK
  <2> QED
    BY <1>1, <2>1, <2>2, LeaseForForkKept
<1>5. ASSUME NEW a \in Agent, NEW l \in LeaseId, NEW caller \in Caller, NEW c \in StateId,
             AgentFork(a, l, caller, c)
      PROVE  LeaseForFork(b, k)'
  <2>1. CASE a = b
    BY <1>5, <2>1, AgentForkKeepsLeases
  <2>2. CASE a # b
    <3>1. held' = held /\ session'[b] = session[b]
      BY <1>5, <2>2 DEF AgentFork, SessionTypeOK
    <3> QED
      BY <1>1, <3>1, LeaseForForkKept
  <2> QED
    BY <2>1, <2>2
<1>6. CASE Restart
  BY <1>6 DEF Restart
<1> QED
  BY <1>2, <1>3, <1>4, <1>5, <1>6 DEF SessionNext, Tick, StoreStep, sessionVars

(* apps/agent.rs: each fork of a session was made under a lease with the   *)
(* right to fork on the very state it forks, for any number of agents and  *)
(* leases: one lease never carries a session two states further.           *)
THEOREM ForksAreAuthorized == SessionSpec => []EveryForkHadItsLease
<1>1. SessionInit => EveryForkHadItsLease
  BY DEF SessionInit, EveryForkHadItsLease, Sessions
<1> QED
  BY <1>1, SessionsUseTheStore, NextKeepsLeases, PTL DEF SessionSpec

(***************************************************************************)
(* The life of a lease.                                                    *)
(***************************************************************************)
(* One addition of two words wraps around at most once.                    *)
LEMMA WrapsOnce ==
    ASSUME NEW t \in 0 .. Width - 1, NEW c \in 0 .. Width - 1, (c + t) % Width > c
    PROVE  (c + t) % Width = c + t
<1>1. Width \in Nat
  BY SessionAssumption
<1>2. CASE c + t < Width
  BY <1>1, <1>2
<1>3. CASE c + t >= Width
  <2>1. (c + t) % Width = c + t - Width
    BY <1>1, <1>3
  <2> QED
    BY <1>1, <2>1
<1> QED
  BY <1>1, <1>2, <1>3

(* What LeaseLivesItsTtl says of one lease. *)
LivesItsTtl(lease) ==
    IF lease.asked = None THEN lease.expires = None
    ELSE lease.expires # None /\ lease.expires - lease.issued = lease.asked

LEMMA NewLeaseLives ==
    ASSUME SessionTypeOK, NEW i \in StateId, NEW g \in Grant, Valid(NewLease(i, g))
    PROVE  LivesItsTtl(NewLease(i, g))
<1>1. CASE g.ttl = None
  BY <1>1 DEF NewLease, LivesItsTtl
<1>2. CASE g.ttl # None
  <2>1. clock \in 0 .. Width - 1
    BY SessionAssumption DEF SessionTypeOK
  <2>2. g.ttl \in 0 .. Width - 1
    BY <1>2, SessionAssumption
  <2>3. /\ NewLease(i, g).expires = (clock + g.ttl) % Width
        /\ NewLease(i, g).issued = clock /\ NewLease(i, g).asked = g.ttl
    BY <1>2 DEF NewLease
  <2>4. (clock + g.ttl) % Width # None
    <3>1. (clock + g.ttl) % Width \in 0 .. Width - 1
      BY <2>1, <2>2, SessionAssumption
    <3> QED
      BY <3>1, SessionAssumption
  <2>5. (clock + g.ttl) % Width > clock
    BY <2>3, <2>4 DEF Valid
  <2>6. (clock + g.ttl) % Width = clock + g.ttl
    BY <2>1, <2>2, <2>5, WrapsOnce
  <2>7. NewLease(i, g).expires - NewLease(i, g).issued = NewLease(i, g).asked
    BY <2>1, <2>2, <2>3, <2>6
  <2> QED
    BY <1>2, <2>3, <2>4, <2>7 DEF LivesItsTtl
<1> QED
  BY <1>1, <1>2

(* lease.rs:131: the addition of the ttl may wrap around, but a lease that *)
(* wrapped is refused: a lease that is held expires exactly the ttl it was *)
(* asked for after it was issued, at every width of the clock's word, and  *)
(* one that was asked for none never expires.                              *)
THEOREM TtlIsKept == SessionSpec => []LeaseLivesItsTtl
<1>1. SessionInit => LeaseLivesItsTtl
  BY DEF SessionInit, LeaseLivesItsTtl
<1>2. SessionTypeOK /\ LeaseLivesItsTtl /\ [SessionNext]_<<vars, sessionVars>>
        => LeaseLivesItsTtl'
  <2> SUFFICES ASSUME SessionTypeOK, LeaseLivesItsTtl,
                      [SessionNext]_<<vars, sessionVars>>
               PROVE  LeaseLivesItsTtl'
    OBVIOUS
  <2>1. CASE held' = held
    BY <2>1 DEF LeaseLivesItsTtl
  <2>2. ASSUME NEW l \in LeaseId, NEW i \in StateId, NEW g \in Grant, Issue(l, i, g)
        PROVE  LeaseLivesItsTtl'
    <3>1. Valid(NewLease(i, g)) /\ held' = Insert(held, l, NewLease(i, g))
      BY <2>2 DEF Issue
    <3> SUFFICES ASSUME NEW m \in DOMAIN held'
                 PROVE  LivesItsTtl(held'[m])
      BY DEF LeaseLivesItsTtl, LivesItsTtl
    <3>2. CASE m = l
      BY <3>1, <3>2, NewLeaseLives DEF Insert
    <3>3. CASE m # l
      BY <3>1, <3>3 DEF Insert, LeaseLivesItsTtl, LivesItsTtl
    <3> QED
      BY <3>2, <3>3
  <2> QED
    BY <2>1, <2>2 DEF SessionNext, Tick, StartSession, AgentFork, StoreStep, Restart,
                      sessionVars
<1> QED
  BY <1>1, <1>2, SessionsUseTheStore, PTL DEF SessionSpec

(***************************************************************************)
(* Lineages.                                                               *)
(***************************************************************************)
(* The lineage of i is the least set with i that is closed under parents.  *)
LEMMA LineageIsLeast ==
    ASSUME NEW S \in SUBSET Known, NEW i \in S, ParentClosed(S)
    PROVE  Lineage(i) \subseteq S
  BY DEF Lineage

LEMMA LineageIsKnown ==
    ASSUME NEW i
    PROVE  Lineage(i) \subseteq Known
  BY DEF Lineage

(* The lineage of an ancestor is part of the lineage. *)
LEMMA LineageOfAncestor ==
    ASSUME IInv, NEW i \in Known, NEW a \in Lineage(i)
    PROVE  Lineage(a) \subseteq Lineage(i)
  BY LineageIsClosed, LineageIsLeast, LineageIsKnown

(* An ancestor is the state itself or an ancestor of its parent. *)
LEMMA LineageByParent ==
    ASSUME IInv, NEW i \in Known, NEW a \in Lineage(i), a # i
    PROVE  /\ states[i].parent \in Known
           /\ a \in Lineage(states[i].parent)
<1> DEFINE p == states[i].parent
<1>1. p \in Known \cup {NoParent}
  BY DEF IInv, LineageAgrees
<1>2. p # NoParent
  <2> SUFFICES ASSUME p = NoParent PROVE FALSE
    OBVIOUS
  <2>1. ParentClosed({i})
    BY DEF ParentClosed
  <2>2. Lineage(i) \subseteq {i}
    BY <2>1, LineageIsLeast
  <2> QED
    BY <2>2
<1>3. p \in Lineage(p) /\ ParentClosed(Lineage(p)) /\ Lineage(p) \subseteq Known
  BY <1>1, <1>2, LineageIsClosed, LineageIsKnown
<1>4. ParentClosed({i} \cup Lineage(p))
  BY <1>3 DEF ParentClosed
<1>5. Lineage(i) \subseteq {i} \cup Lineage(p)
  <2>1. {i} \cup Lineage(p) \in SUBSET Known
    BY <1>3
  <2> QED
    BY <1>4, <2>1, LineageIsLeast
<1> QED
  BY <1>1, <1>2, <1>5

(* No state is an ancestor of its parent. *)
LEMMA NotAboveItsParent ==
    ASSUME IInv, NEW c \in Known, NEW p \in Known, states[c].parent = p
    PROVE  c \notin Lineage(p)
<1> SUFFICES ASSUME c \in Lineage(p) PROVE FALSE
  OBVIOUS
<1> DEFINE S == {x \in Lineage(p) : c \in Lineage(x)}
<1>1. p \in S /\ S \in SUBSET Known
  BY LineageIsClosed, LineageIsKnown
<1>2. ASSUME NEW x \in S PROVE states[x].parent \in S
  <2>1. x \in Known /\ c \in Lineage(x)
    BY <1>1
  <2>2. CASE x = c
    BY <1>1, <2>2
  <2>3. CASE x # c
    <3>1. states[x].parent \in Known /\ c \in Lineage(states[x].parent)
      BY <2>1, <2>3, LineageByParent
    <3>2. states[x].parent # NoParent
      BY <3>1, StoreAssumption DEF IInv, TypeOK
    <3>3. states[x].parent \in Lineage(p)
      BY <3>2, LineageIsClosed DEF ParentClosed
    <3> QED
      BY <3>1, <3>3
  <2> QED
    BY <2>2, <2>3
<1> HIDE DEF S
<1>3. \E x \in S : states[x].parent \notin S
  BY <1>1 DEF IInv, LineageEnds
<1> QED
  BY <1>2, <1>3

(* Ancestors of one state: of two, one is an ancestor of the other, and    *)
(* only one unless they are the same.                                      *)
LEMMA LineagesNest ==
    ASSUME IInv, NEW i \in Known, NEW a \in Lineage(i), NEW b \in Lineage(i)
    PROVE  a \in Lineage(b) \/ b \in Lineage(a)
<1> DEFINE S == {y \in Lineage(i) : a \in Lineage(y) \/ y \in Lineage(a)}
<1>1. a \in Known /\ S \in SUBSET Known /\ i \in S
  BY LineageIsClosed, LineageIsKnown
<1>2. ParentClosed(S)
  <2> SUFFICES ASSUME NEW y \in S, states[y].parent # NoParent
               PROVE  states[y].parent \in S
    BY DEF ParentClosed
  <2>1. y \in Known /\ states[y].parent \in Lineage(i)
    BY <1>1, LineageIsClosed DEF ParentClosed
  <2>2. CASE y \in Lineage(a)
    <3>1. states[y].parent \in Lineage(a)
      BY <1>1, <2>2, LineageIsClosed DEF ParentClosed
    <3> QED
      BY <2>1, <3>1
  <2>3. CASE a \in Lineage(y) /\ y # a
    <3>1. a \in Lineage(states[y].parent)
      BY <2>1, <2>3, LineageByParent
    <3> QED
      BY <2>1, <3>1
  <2>4. CASE y = a
    BY <1>1, <2>2, <2>4, LineageIsClosed
  <2> QED
    BY <2>2, <2>3, <2>4
<1>3. Lineage(i) \subseteq S
  <2> HIDE DEF S
  <2> QED
    BY <1>1, <1>2, LineageIsLeast
<1> QED
  BY <1>3

LEMMA LineagesDiffer ==
    ASSUME IInv, NEW a \in Known, NEW b \in Known, a \in Lineage(b), b \in Lineage(a)
    PROVE  a = b
<1> SUFFICES ASSUME a # b PROVE FALSE
  OBVIOUS
<1> DEFINE p == states[b].parent
<1>1. p \in Known /\ a \in Lineage(p)
  BY LineageByParent
<1>2. Lineage(a) \subseteq Lineage(p)
  BY <1>1, LineageOfAncestor
<1> QED
  BY <1>1, <1>2, NotAboveItsParent

(* Ancestry orders the states of a lineage. *)
LEMMA AncestryIsOrder ==
    ASSUME IInv, NEW i \in Known, NEW S \in SUBSET Lineage(i)
    PROVE  IsOrder(S, Ancestry)
<1>1. \A x \in S : x \in Known
  BY LineageIsKnown
<1>2. \A x, y \in S : <<x, y>> \in Ancestry <=> x # y /\ x \in Lineage(y)
  BY <1>1 DEF Ancestry
<1>3. \A x, y \in S : <<x, y>> \in Ancestry => <<y, x>> \notin Ancestry
  BY <1>1, <1>2, LineagesDiffer
<1>4. \A x, y \in S : x = y \/ <<x, y>> \in Ancestry \/ <<y, x>> \in Ancestry
  BY <1>2, LineagesNest
<1>5. \A x, y, z \in S : <<x, y>> \in Ancestry /\ <<y, z>> \in Ancestry => <<x, z>> \in Ancestry
  <2> SUFFICES ASSUME NEW x \in S, NEW y \in S, NEW z \in S,
                      <<x, y>> \in Ancestry, <<y, z>> \in Ancestry
               PROVE  <<x, z>> \in Ancestry
    OBVIOUS
  <2>1. x \in Lineage(z)
    BY <1>1, <1>2, LineageOfAncestor
  <2>2. x # z
    BY <1>3
  <2> QED
    BY <1>2, <2>1, <2>2
<1> QED
  BY <1>3, <1>4, <1>5 DEF IsOrder

(* A lineage, or what is left of one, with the state it is of at its end. *)
LEMMA DescendingIs ==
    ASSUME IInv, IsFiniteSet(Known), NEW i \in Known,
           NEW S \in SUBSET Lineage(i), i \in S
    PROVE  LET n == Cardinality(S)  d == Descending(S) IN
           /\ n \in Nat \ {0} /\ d \in [1 .. n -> S] /\ d[n] = i
           /\ \A x \in S : \E j \in 1 .. n : d[j] = x
           /\ \A j, k \in 1 .. n : d[j] = d[k] => j = k
<1> DEFINE n == Cardinality(S)  d == Descending(S)
<1>1. IsFiniteSet(S)
  BY LineageIsKnown, FS_Subset
<1>2. IsOrder(S, Ancestry)
  BY AncestryIsOrder
<1>3. /\ n \in Nat /\ d \in [1 .. n -> S]
      /\ \A x \in S : \E j \in 1 .. n : d[j] = x
      /\ \A j, k \in 1 .. n : j < k <=> <<d[j], d[k]>> \in Ancestry
  BY <1>1, <1>2, OrderedIs DEF Descending
<1> HIDE DEF n, d
<1>4. PICK j \in 1 .. n : d[j] = i
  BY <1>3
<1>5. n \in 1 .. n /\ d[n] \in S
  BY <1>3, <1>4
<1>6. d[n] = i
  <2> SUFFICES ASSUME j < n PROVE FALSE
    BY <1>3, <1>4
  <2>1. <<i, d[n]>> \in Ancestry
    BY <1>3, <1>4, <1>5
  <2>2. i # d[n] /\ i \in Lineage(d[n])
    BY <2>1 DEF Ancestry
  <2>3. d[n] \in Lineage(i) /\ d[n] \in Known
    BY <1>5, LineageIsKnown
  <2> QED
    BY <2>2, <2>3, LineagesDiffer
<1>7. \A l, k \in 1 .. n : d[l] = d[k] => l = k
  <2> SUFFICES ASSUME NEW l \in 1 .. n, NEW k \in 1 .. n, d[l] = d[k], l # k PROVE FALSE
    OBVIOUS
  <2>1. l < k \/ k < l
    BY <1>3
  <2>2. <<d[l], d[l]>> \in Ancestry
    BY <1>3, <2>1
  <2> QED
    BY <2>2 DEF Ancestry
<1> QED
  BY <1>3, <1>5, <1>6, <1>7 DEF n, d

(***************************************************************************)
(* What replay lists.                                                      *)
(***************************************************************************)
LEMMA OwnIs ==
    ASSUME NEW s \in Session
    PROVE  /\ Own(s) \in Seq(StateId) /\ Len(Own(s)) = Len(s.forks) + 1
           /\ DOMAIN Own(s) = 1 .. Len(s.forks) + 1
           /\ Own(s)[1] = s.parent
           /\ \A k \in 1 .. Len(s.forks) : Own(s)[k + 1] = s.forks[k]
<1>1. s.parent \in StateId /\ s.forks \in Seq(StateId)
  BY DEF Session
<1>2. <<s.parent>> \in Seq(StateId) /\ Len(<<s.parent>>) = 1 /\ <<s.parent>>[1] = s.parent
  BY <1>1
<1> QED
  BY <1>1, <1>2 DEF Own

(* Each fork of s is a child of the state of s before it. *)
Follows(s) ==
    \A k \in 1 .. Len(s.forks) :
        /\ Own(s)[k] \in Known /\ Own(s)[k + 1] \in Known
        /\ states[Own(s)[k + 1]].parent = Own(s)[k]

(* r is the list after the first k forks. *)
ListedTo(r, s, k) ==
    /\ \A i, j \in 1 .. Len(r) : r[i] = r[j] => i = j
    /\ s.parent \in Known => \A i \in 1 .. Len(r) : r[i] \in Lineage(Own(s)[k + 1])
    /\ \A j \in 1 .. k : Lineage(s.forks[j]) \subseteq Range(r)
    /\ \E place \in [1 .. k + 1 -> 1 .. Len(r)] :
           /\ \A i, j \in 1 .. k + 1 : i < j => place[i] < place[j]
           /\ \A j \in 1 .. k + 1 : r[place[j]] = Own(s)[j]

(* The next fork adds the states of its lineage that are not listed.       *)
Adding(done, f) == done \o Descending(Lineage(f) \ Range(done))

LEMMA AddingIs ==
    ASSUME IInv, IsFiniteSet(Known), NEW f \in Known, NEW r \in Seq(StateId)
    PROVE  Adding(r, f) \in Seq(StateId)
<1> DEFINE S == Lineage(f) \ Range(r)
<1>1. S \subseteq Lineage(f) /\ IsFiniteSet(S)
  BY LineageIsKnown, FS_Subset
<1>2. IsOrder(S, Ancestry)
  BY <1>1, AncestryIsOrder
<1>3. Cardinality(S) \in Nat /\ Descending(S) \in [1 .. Cardinality(S) -> S]
  BY <1>1, <1>2, OrderedIs DEF Descending
<1>4. S \subseteq StateId
  BY <1>1, LineageIsKnown DEF IInv, TypeOK
<1> HIDE DEF S
<1>5. Descending(S) \in [1 .. Cardinality(S) -> StateId]
  BY <1>3, <1>4
<1>6. Descending(S) \in Seq(StateId)
  BY <1>3, <1>5, FunctionIsSeq
<1> QED
  BY <1>6 DEF Adding, S

LEMMA AddingLists ==
    ASSUME IInv, IsFiniteSet(Known), NEW s \in Session, Follows(s),
           NEW k \in Nat, k + 1 <= Len(s.forks), NEW r \in Seq(StateId), ListedTo(r, s, k)
    PROVE  ListedTo(Adding(r, s.forks[k + 1]), s, k + 1)
<1> DEFINE f == s.forks[k + 1]
           p == Own(s)[k + 1]
           S == Lineage(f) \ Range(r)
           d == Descending(S)
           n == Cardinality(S)
           m == Len(r)
           l == k + 1
           t == r \o d
<1>1. /\ m \in Nat /\ l \in 1 .. Len(s.forks) /\ Len(s.forks) \in Nat /\ l \in Nat
      /\ f = Own(s)[l + 1] /\ p = Own(s)[l]
  BY OwnIs DEF Session
<1>2. p \in Known /\ f \in Known /\ states[f].parent = p /\ s.parent \in Known
  <2>1. p \in Known /\ f \in Known /\ states[f].parent = p
    BY <1>1 DEF Follows
  <2>2. 1 \in 1 .. Len(s.forks)
    BY <1>1
  <2>3. s.parent \in Known
    BY <2>2, OwnIs DEF Follows
  <2> QED
    BY <2>1, <2>3
<1>3. \A i \in 1 .. m : r[i] \in Lineage(p)
  BY <1>2 DEF ListedTo
<1>4. f \notin Lineage(p) /\ Lineage(p) \subseteq Lineage(f) /\ f \in Lineage(f)
  <2>1. f \in Lineage(f) /\ ParentClosed(Lineage(f))
    BY <1>2, LineageIsClosed
  <2>2. p # NoParent
    BY <1>2, StoreAssumption DEF IInv, TypeOK
  <2>3. p \in Lineage(f)
    BY <1>2, <2>1, <2>2 DEF ParentClosed
  <2> QED
    BY <1>2, <2>1, <2>3, NotAboveItsParent, LineageOfAncestor
<1>5. DOMAIN r = 1 .. m /\ \A x : x \in Range(r) <=> \E i \in 1 .. m : r[i] = x
  BY DEF Range
<1>6. f \in S /\ S \in SUBSET Lineage(f)
  BY <1>3, <1>4, <1>5
<1>7. /\ n \in Nat \ {0} /\ d \in [1 .. n -> S] /\ d[n] = f
      /\ \A x \in S : \E j \in 1 .. n : d[j] = x
      /\ \A i, j \in 1 .. n : d[i] = d[j] => i = j
  <2> HIDE DEF S, f
  <2> QED
    BY <1>2, <1>6, DescendingIs
<1>8. /\ t \in Seq(StateId) /\ Len(t) = m + n
      /\ \A i \in 1 .. m : t[i] = r[i]
      /\ \A i \in 1 .. n : t[m + i] = d[i]
  <2>1. S \subseteq StateId
    BY LineageIsKnown DEF IInv, TypeOK
  <2> HIDE DEF S, d, n
  <2>2. d \in [1 .. n -> StateId]
    BY <1>7, <2>1
  <2>3. d \in Seq(StateId) /\ Len(d) = n
    BY <1>7, <2>2, FunctionIsSeq
  <2> HIDE DEF m, f, p, l
  <2>4. d \in Seq(StateId) /\ r \in Seq(StateId)
    BY <2>3
  <2>5. r \o d \in Seq(StateId) /\ Len(r \o d) = Len(r) + Len(d)
    BY <2>4
  <2>6. \A i \in 1 .. Len(r) : (r \o d)[i] = r[i]
    BY <2>4
  <2>7. \A i \in 1 .. Len(d) : (r \o d)[Len(r) + i] = d[i]
    BY <2>4
  <2> QED
    BY <2>3, <2>5, <2>6, <2>7 DEF m
<1>9. Adding(r, f) = t
  BY DEF Adding
<1>10. \A x : x \in S <=> x \in Lineage(f) /\ x \notin Range(r)
  OBVIOUS
<1> HIDE DEF S, d, n, m, t, f, p, l
<1>11. ASSUME NEW i \in 1 .. m + n
       PROVE  \/ i \in 1 .. m /\ t[i] = r[i] /\ t[i] \in Range(r)
              \/ i - m \in 1 .. n /\ t[i] = d[i - m] /\ t[i] \in S
  <2>1. CASE i <= m
    BY <1>1, <1>5, <1>8, <2>1
  <2>2. CASE i > m
    <3>1. i - m \in 1 .. n /\ m + (i - m) = i
      BY <1>1, <1>7, <2>2
    <3> QED
      BY <1>7, <1>8, <3>1
  <2> QED
    BY <1>1, <1>7, <2>1, <2>2
<1>12. \A i, j \in 1 .. Len(t) : t[i] = t[j] => i = j
  <2> SUFFICES ASSUME NEW i \in 1 .. m + n, NEW j \in 1 .. m + n, t[i] = t[j] PROVE i = j
    BY <1>8
  <2>1. CASE i \in 1 .. m /\ j \in 1 .. m
    BY <1>8, <2>1 DEF ListedTo, m
  <2>2. CASE i - m \in 1 .. n /\ j - m \in 1 .. n
    <3>1. t[i] = d[i - m] /\ t[j] = d[j - m]
      BY <1>1, <1>11, <2>2
    <3>2. i - m = j - m
      BY <1>7, <2>2, <3>1
    <3> QED
      BY <1>1, <1>7, <3>2
  <2>3. t[i] \in Range(r) => t[i] \notin S
    BY <1>10
  <2> QED
    BY <1>11, <2>1, <2>2, <2>3
<1>13. \A i \in 1 .. Len(t) : t[i] \in Lineage(f)
  BY <1>3, <1>4, <1>5, <1>8, <1>10, <1>11
<1>14. \A x \in Range(r) \cup S : x \in Range(t)
  <2>1. DOMAIN t = 1 .. m + n
    BY <1>8
  <2>2. ASSUME NEW i \in 1 .. m PROVE r[i] \in Range(t)
    <3>1. i \in DOMAIN t
      BY <1>1, <1>7, <2>1
    <3> QED
      BY <1>8, <3>1 DEF Range
  <2>3. ASSUME NEW i \in 1 .. n PROVE d[i] \in Range(t)
    <3>1. m + i \in DOMAIN t
      BY <1>1, <1>7, <2>1
    <3> QED
      BY <1>8, <3>1 DEF Range
  <2> QED
    BY <1>5, <1>7, <2>2, <2>3
<1>15. \A j \in 1 .. l : Lineage(s.forks[j]) \subseteq Range(t)
  <2> SUFFICES ASSUME NEW j \in 1 .. l PROVE Lineage(s.forks[j]) \subseteq Range(t)
    OBVIOUS
  <2>1. CASE j = l
    <3>1. s.forks[j] = f
      BY <2>1 DEF f, l
    <3> QED
      BY <1>10, <1>14, <3>1
  <2>2. CASE j # l
    <3>1. j \in 1 .. k
      BY <2>2 DEF l
    <3> QED
      BY <1>14, <3>1 DEF ListedTo
  <2> QED
    BY <2>1, <2>2
<1>16. \E place \in [1 .. l + 1 -> 1 .. Len(t)] :
           /\ \A i, j \in 1 .. l + 1 : i < j => place[i] < place[j]
           /\ \A j \in 1 .. l + 1 : t[place[j]] = Own(s)[j]
  <2>1. PICK old \in [1 .. l -> 1 .. m] :
            /\ \A i, j \in 1 .. l : i < j => old[i] < old[j]
            /\ \A j \in 1 .. l : r[old[j]] = Own(s)[j]
    BY DEF ListedTo, l, m
  <2> DEFINE place == [j \in 1 .. l + 1 |-> IF j = l + 1 THEN m + n ELSE old[j]]
  <2>2. /\ place[l + 1] = m + n
        /\ \A j \in 1 .. l : place[j] = old[j] /\ old[j] \in 1 .. m
    BY <1>1, <2>1
  <2>3. \A j \in 1 .. l + 1 : j = l + 1 \/ j \in 1 .. l
    BY <1>1
  <2>4. m + n \in 1 .. m + n /\ m < m + n /\ 1 .. m \subseteq 1 .. m + n
    BY <1>1, <1>7
  <2>5. place \in [1 .. l + 1 -> 1 .. m + n]
    BY <2>2, <2>3, <2>4
  <2> HIDE DEF place
  <2>6. ASSUME NEW i \in 1 .. l + 1, NEW j \in 1 .. l + 1, i < j PROVE place[i] < place[j]
    <3>1. i \in 1 .. l
      BY <1>1, <2>6
    <3>2. CASE j = l + 1
      BY <1>1, <1>7, <2>2, <3>1, <3>2
    <3>3. CASE j \in 1 .. l
      BY <2>1, <2>2, <2>6, <3>1, <3>3
    <3> QED
      BY <2>3, <3>2, <3>3
  <2>7. ASSUME NEW j \in 1 .. l + 1 PROVE t[place[j]] = Own(s)[j]
    <3>1. CASE j = l + 1
      <4>1. t[m + n] = f
        BY <1>7, <1>8
      <4> QED
        BY <1>1, <2>2, <3>1, <4>1
    <3>2. CASE j \in 1 .. l
      BY <1>8, <2>1, <2>2, <3>2
    <3> QED
      BY <2>3, <3>1, <3>2
  <2> QED
    BY <1>8, <2>5, <2>6, <2>7
<1>17. ListedTo(t, s, l)
  BY <1>1, <1>12, <1>13, <1>15, <1>16 DEF ListedTo
<1> QED
  BY <1>9, <1>17 DEF l, f

LEMMA ReplayLists ==
    ASSUME IInv, IsFiniteSet(Known), NEW s \in Session, Follows(s)
    PROVE  /\ Replay(s) \in Seq(StateId)
           /\ ListedTo(Replay(s), s, Len(s.forks))
<1> DEFINE N == Len(s.forks)
           A == Seq(StateId)
           b == <<s.parent>>
           F == [p \in (1 .. N) \X A |-> Adding(p[2], s.forks[p[1]])]
           Solves(g) == g = [t \in SUBSET (DOMAIN s.forks) |->
                               IF t = {} THEN b ELSE Adding(g[t \ {Max(t)}], s.forks[Max(t)])]
           iter == CHOOSE g : Solves(g)
<1>1. N \in Nat /\ DOMAIN s.forks = 1 .. N /\ b \in A /\ Len(b) = 1 /\ b[1] = s.parent
  BY DEF Session
<1>2. \A i \in 1 .. N, r \in A : Adding(r, s.forks[i]) \in A
  <2> SUFFICES ASSUME NEW i \in 1 .. N, NEW r \in A PROVE Adding(r, s.forks[i]) \in A
    OBVIOUS
  <2>1. s.forks[i] \in Known
    BY OwnIs DEF Follows
  <2> QED
    BY <2>1, AddingIs
<1>3. \E g : Solves(g)
  <2> HIDE DEF A, b
  <2>1. F \in [(1 .. N) \X A -> A]
    BY <1>1, <1>2
  <2>2. PICK g \in [SUBSET (1 .. N) -> A] : FoldsSets(g, N, b, F)
    <3>1. HasSetFold(N, A, b, F)
      <4> HIDE DEF F, N
      <4> QED
        BY <1>1, <2>1, SetFoldExists
    <3> QED
      BY <3>1 DEF HasSetFold
  <2>3. \A t \in SUBSET (1 .. N) :
          g[t] = IF t = {} THEN b ELSE Adding(g[t \ {Max(t)}], s.forks[Max(t)])
    <3> SUFFICES ASSUME NEW t \in SUBSET (1 .. N), t # {}
                 PROVE  g[t] = Adding(g[t \ {Max(t)}], s.forks[Max(t)])
      BY <2>2 DEF FoldsSets
    <3>1. Max(t) \in 1 .. N
      BY <1>1, MaxOfNonempty
    <3>2. g[t \ {Max(t)}] \in A
      BY <2>2
    <3> QED
      BY <2>2, <3>1, <3>2 DEF FoldsSets
  <2>4. Solves(g)
    BY <1>1, <2>2, <2>3
  <2> QED
    BY <2>4
<1>4. Solves(iter)
  BY <1>3
<1>5. Replay(s) = iter[1 .. N]
  <2>1. Replay(s) = iter[DOMAIN s.forks]
    BY DEF Replay, FoldLeft, MapThenFoldSet, Adding
  <2> QED
    BY <1>1, <2>1
<1> HIDE DEF iter, F
<1> DEFINE Good == {k \in Nat : k <= N =>
                        iter[1 .. k] \in A /\ ListedTo(iter[1 .. k], s, k)}
<1>6. 0 \in Good
  <2>1. iter[1 .. 0] = b
    BY <1>1, <1>4
  <2>2. ListedTo(b, s, 0)
    <3>1. \A i, j \in 1 .. Len(b) : b[i] = b[j] => i = j
      BY <1>1
    <3>2. Own(s)[1] = b[1]
      BY <1>1, OwnIs
    <3>3. s.parent \in Known => \A i \in 1 .. Len(b) : b[i] \in Lineage(Own(s)[0 + 1])
      BY <1>1, <3>2, LineageIsClosed
    <3>4. \E place \in [1 .. 1 -> 1 .. Len(b)] :
              /\ \A i, j \in 1 .. 1 : i < j => place[i] < place[j]
              /\ \A j \in 1 .. 1 : b[place[j]] = Own(s)[j]
      <4> DEFINE place == [j \in 1 .. 1 |-> 1]
      <4>1. place \in [1 .. 1 -> 1 .. Len(b)] /\ place[1] = 1
        BY <1>1
      <4>2. \A i \in 1 .. 1 : i = 1
        OBVIOUS
      <4> HIDE DEF place, b
      <4>3. \A i, j \in 1 .. 1 : i < j => place[i] < place[j]
        OBVIOUS
      <4>4. \A j \in 1 .. 1 : b[place[j]] = Own(s)[j]
        BY <3>2, <4>1, <4>2
      <4> QED
        BY <4>1, <4>3, <4>4, Zenon
    <3>5. 0 + 1 = 1
      OBVIOUS
    <3> QED
      BY <3>1, <3>3, <3>4, <3>5 DEF ListedTo
  <2> QED
    BY <1>1, <2>1, <2>2
<1>7. ASSUME NEW k \in Nat, k \in Good PROVE k + 1 \in Good
  <2> SUFFICES ASSUME k + 1 <= N
               PROVE  iter[1 .. k + 1] \in A /\ ListedTo(iter[1 .. k + 1], s, k + 1)
    OBVIOUS
  <2> DEFINE r == iter[1 .. k]
  <2>1. 1 .. k + 1 \in SUBSET (1 .. N) /\ 1 .. k + 1 # {} /\ Max(1 .. k + 1) = k + 1
        /\ (1 .. k + 1) \ {Max(1 .. k + 1)} = 1 .. k
    BY <1>1, LastPosition
  <2>2. iter[1 .. k + 1] = Adding(r, s.forks[k + 1])
    BY <1>1, <1>4, <2>1
  <2>3. r \in A /\ ListedTo(r, s, k) /\ k + 1 \in 1 .. N
    BY <1>1, <1>7
  <2> HIDE DEF r
  <2>4. Adding(r, s.forks[k + 1]) \in A
    BY <1>2, <2>3
  <2>5. ListedTo(Adding(r, s.forks[k + 1]), s, k + 1)
    BY <2>3, AddingLists
  <2> QED
    BY <2>2, <2>4, <2>5
<1> HIDE DEF Good
<1>8. N \in Good
  BY <1>1, <1>6, <1>7, NatSetInduction
<1> QED
  BY <1>1, <1>5, <1>8 DEF Good

(***************************************************************************)
(* Sessions and the store.                                                 *)
(***************************************************************************)
(* The store has finitely many states: every step adds one or none.        *)
LEMMA StatesAreFinite == Spec => []IsFiniteSet(Known)
<1>1. Init => IsFiniteSet(Known)
  <2> SUFFICES ASSUME Init PROVE Known = {}
    BY FS_EmptySet
  <2> QED
    BY DEF Init, Known
<1>2. IInv /\ IsFiniteSet(Known) /\ [Next]_vars => IsFiniteSet(Known)'
  <2> SUFFICES ASSUME IInv, IsFiniteSet(Known), [Next]_vars PROVE IsFiniteSet(Known')
    OBVIOUS
  <2>1. \E i : Known' \subseteq Known \cup {i}
    <3>1. ASSUME NEW i \in StateId, CommitRoot(i) PROVE Known' = Known \cup {i}
      BY <3>1 DEF CommitRoot, Insert, Known
    <3>2. ASSUME NEW p \in StateId, NEW c \in StateId, Fork(p, c)
          PROVE  Known' = Known \cup {c}
      BY <3>2 DEF Fork, Insert, Known
    <3>3. ASSUME NEW l \in LeaseId, NEW i \in StateId, RegisterLease(l, i)
          PROVE  Known' = Known
      BY <3>3 DEF RegisterLease, Known
    <3>4. ASSUME NEW l \in LeaseId, RevokeLease(l) PROVE Known' = Known
      BY <3>4 DEF RevokeLease, Known
    <3>5. ASSUME NEW i \in StateId, Release(i) PROVE Known' = Known
      BY <3>5 DEF Release, Known
    <3>6. ASSUME states' = states PROVE Known' = Known
      BY <3>6 DEF Known
    <3>7. CASE Reopen
      BY <3>7 DEF Reopen, Known
    <3> QED
      BY <3>1, <3>2, <3>3, <3>4, <3>5, <3>6, <3>7
         DEF Next, WritePage, Collect, CollectFails, vars
  <2>2. PICK i : Known' \subseteq Known \cup {i}
    BY <2>1
  <2>3. IsFiniteSet(Known \cup {i})
    BY FS_AddElement
  <2> QED
    BY <2>2, <2>3, FS_Subset
<1> QED
  BY <1>1, <1>2, Invariance, PTL DEF Spec

(* Nothing but a restart forgets a state or moves it. *)
LEMMA SessionStepKeeps ==
    ASSUME SessionTypeOK, IInv, [SessionNext]_<<vars, sessionVars>>, ~Restart
    PROVE  /\ Known \subseteq Known'
           /\ \A j \in Known : states'[j].parent = states[j].parent
<1> DEFINE Kept == /\ Known \subseteq Known'
                   /\ \A j \in Known : states'[j].parent = states[j].parent
<1> SUFFICES Kept
  OBVIOUS
<1> USE DEF IInv, TypeOK
<1>1. ASSUME NEW i \in StateId, CommitRoot(i) PROVE Kept
  BY <1>1 DEF CommitRoot, Insert, Known
<1>2. ASSUME NEW p, NEW c, Fork(p, c) PROVE Kept
  BY <1>2 DEF Fork, Insert, Known, Node
<1>3. ASSUME NEW l, NEW i, RegisterLease(l, i) PROVE Kept
  BY <1>3 DEF RegisterLease, Known, Node
<1>4. ASSUME NEW l, RevokeLease(l) PROVE Kept
  BY <1>4 DEF RevokeLease, Known, Node
<1>5. ASSUME NEW i, Release(i) PROVE Kept
  BY <1>5 DEF Release, Known, Node
<1>6. states' = states => Kept
  BY DEF Known
<1> HIDE DEF Kept, IInv, TypeOK
<1>7. CASE StoreStep
  <2>1. \/ \E i \in StateId : CommitRoot(i) \/ Release(i)
        \/ \E p, c \in StateId : Fork(p, c)
        \/ \E l \in DOMAIN held : RegisterLease(l, held[l].state)
        \/ \E l \in LeaseId : RevokeLease(l)
        \/ Collect
    BY <1>7, Zenon DEF StoreStep
  <2>2. CASE Collect
    BY <1>6, <2>2 DEF Collect
  <2>3. ASSUME NEW l \in DOMAIN held, RegisterLease(l, held[l].state) PROVE Kept
    BY <1>3, <2>3, Zenon
  <2>4. ASSUME NEW i \in StateId, CommitRoot(i) \/ Release(i) PROVE Kept
    BY <1>1, <1>5, <2>4, Zenon
  <2>5. (\E p, c \in StateId : Fork(p, c)) => Kept
    BY <1>2, Zenon
  <2>6. (\E l \in LeaseId : RevokeLease(l)) => Kept
    BY <1>4, Zenon
  <2> QED
    BY <2>1, <2>2, <2>3, <2>4, <2>5, <2>6, Zenon
<1>8. ASSUME NEW a \in Agent, NEW l \in LeaseId, NEW caller \in Caller, NEW c \in StateId,
             AgentFork(a, l, caller, c)
      PROVE  Kept
  <2>1. Fork(Current(session[a]), c)
    BY <1>8, Zenon DEF AgentFork
  <2> QED
    BY <1>2, <2>1, Zenon
<1>9. CASE UNCHANGED vars
  BY <1>6, <1>9 DEF vars
<1>10. Kept
  <2>1. UNCHANGED <<vars, sessionVars>> => UNCHANGED vars
    OBVIOUS
  <2>2. ASSUME NEW l \in LeaseId, NEW i \in StateId, NEW g \in Grant, Issue(l, i, g)
        PROVE  UNCHANGED vars
    BY <2>2 DEF Issue
  <2>3. Tick => UNCHANGED vars
    BY DEF Tick
  <2>4. ASSUME NEW a \in Agent, NEW i \in StateId, StartSession(a, i) PROVE UNCHANGED vars
    BY <2>4 DEF StartSession
  <2> QED
    BY <1>7, <1>8, <1>9, <2>1, <2>2, <2>3, <2>4, Zenon DEF SessionNext
<1> QED
  BY <1>10

SessionsFollow == \A a \in Sessions : Follows(session[a])

LEMMA FollowsKept ==
    ASSUME NEW b \in Agent, session'[b] = session[b], Follows(session[b]), Known \subseteq Known',
           \A j \in Known : states'[j].parent = states[j].parent
    PROVE  Follows(session[b])'
<1> SUFFICES ASSUME NEW k \in 1 .. Len(session[b].forks)
             PROVE  LET own == Own(session[b]) IN
                    own[k] \in Known' /\ own[k + 1] \in Known' /\ states'[own[k + 1]].parent = own[k]
  BY DEF Follows, Own
<1> QED
  BY DEF Follows

LEMMA AgentForkFollows ==
    ASSUME SessionTypeOK, SessionTypeOK', IInv, SessionsFollow,
           NEW a \in Agent, NEW l \in LeaseId, NEW caller \in Caller, NEW c \in StateId,
           AgentFork(a, l, caller, c)
    PROVE  Follows(session[a])'
<1> DEFINE s == session[a]
           t == session'[a]
           N == Len(s.forks)
<1>1. /\ s # None /\ s \in Session /\ Follows(s) /\ Fork(Current(s), c)
      /\ t = [s EXCEPT !.forks = Append(s.forks, c)]
  BY DEF AgentFork, SessionTypeOK, SessionsFollow, Sessions
<1>2. /\ s.forks \in Seq(StateId) /\ s.parent \in StateId /\ N \in Nat
      /\ t.parent = s.parent /\ t.forks = Append(s.forks, c) /\ Len(t.forks) = N + 1
  BY <1>1 DEF Session
<1>3. t \in Session
  BY <1>1, <1>2 DEF Session
<1>4. /\ \A k \in 1 .. N + 1 : Own(t)[k] = Own(s)[k]
      /\ Own(t)[N + 2] = c
  <2>1. Own(t)[1] = Own(s)[1]
    BY <1>1, <1>2, <1>3, OwnIs
  <2>2. \A k \in 1 .. N : Own(t)[k + 1] = Own(s)[k + 1]
    <3> SUFFICES ASSUME NEW k \in 1 .. N PROVE Own(t)[k + 1] = Own(s)[k + 1]
      OBVIOUS
    <3>1. k \in 1 .. Len(t.forks) /\ t.forks[k] = s.forks[k]
      BY <1>2
    <3> HIDE DEF s, t
    <3> QED
      BY <1>1, <1>3, <3>1, OwnIs DEF N
  <2>3. N + 1 \in 1 .. Len(t.forks) /\ t.forks[N + 1] = c
    BY <1>2
  <2> HIDE DEF s, t
  <2>4. Own(t)[(N + 1) + 1] = c
    BY <1>3, <2>3, OwnIs
  <2>5. ASSUME NEW k \in 1 .. N + 1 PROVE Own(t)[k] = Own(s)[k]
    <3>1. CASE k = 1
      BY <2>1, <3>1
    <3>2. CASE k # 1
      <4>1. k - 1 \in 1 .. N /\ (k - 1) + 1 = k
        BY <1>2, <3>2
      <4> QED
        BY <2>2, <4>1
    <3> QED
      BY <3>1, <3>2
  <2>6. (N + 1) + 1 = N + 2
    BY <1>2
  <2> QED
    BY <2>4, <2>5, <2>6
<1>5. Own(s)[N + 1] = Current(s)
  <2>1. CASE s.forks = <<>>
    BY <1>1, <1>2, <2>1, OwnIs DEF Current
  <2>2. CASE s.forks # <<>>
    <3>1. N \in 1 .. N /\ Current(s) = s.forks[N]
      BY <1>2, <2>2 DEF Current, Last
    <3> HIDE DEF s
    <3> QED
      BY <1>1, <3>1, OwnIs
  <2> QED
    BY <2>1, <2>2
<1>6. /\ Current(s) \in Known /\ c \notin Known /\ Known' = Known \cup {c}
      /\ states'[c].parent = Current(s)
      /\ \A j \in Known : states'[j].parent = states[j].parent
  <2>1. Fork(Current(s), c)
    BY <1>1
  <2> DEFINE p == Current(s)
  <2> HIDE DEF p
  <2>2. Fork(p, c)
    BY <2>1 DEF p
  <2>3. /\ p \in Known /\ c \notin Known /\ Known' = Known \cup {c}
        /\ states'[c].parent = p
        /\ \A j \in Known : states'[j].parent = states[j].parent
    BY <2>2 DEF Fork, Insert, Known, NewNode, IInv, TypeOK, Node
  <2> QED
    BY <2>3 DEF p
<1> HIDE DEF s, t, N
<1>7. ASSUME NEW k \in 1 .. N + 1
      PROVE  /\ Own(t)[k] \in Known' /\ Own(t)[k + 1] \in Known'
             /\ states'[Own(t)[k + 1]].parent = Own(t)[k]
  <2>1. CASE k = N + 1
    <3>1. k + 1 = N + 2
      BY <1>2, <2>1
    <3> QED
      BY <1>4, <1>5, <1>6, <2>1, <3>1
  <2>2. CASE k # N + 1
    <3>1. k \in 1 .. N /\ k + 1 \in 1 .. N + 1
      BY <1>2, <2>2
    <3>2. /\ Own(s)[k] \in Known /\ Own(s)[k + 1] \in Known
          /\ states[Own(s)[k + 1]].parent = Own(s)[k]
      BY <1>1, <3>1 DEF Follows, N
    <3>3. Own(t)[k] = Own(s)[k] /\ Own(t)[k + 1] = Own(s)[k + 1]
      BY <1>4, <3>1
    <3> QED
      BY <1>6, <3>2, <3>3
  <2> QED
    BY <2>1, <2>2
<1> QED
  BY <1>2, <1>7 DEF Follows, Own, t

LEMMA NextSessionsFollow ==
    ASSUME SessionTypeOK, SessionTypeOK', IInv, SessionsFollow,
           [SessionNext]_<<vars, sessionVars>>
    PROVE  SessionsFollow'
<1> SUFFICES ASSUME NEW b \in Agent, session'[b] # None
             PROVE  Follows(session[b])'
  BY DEF SessionsFollow, Sessions
<1>1. /\ Known \subseteq Known'
      /\ \A j \in Known : states'[j].parent = states[j].parent
  <2>1. ~Restart
    BY DEF Restart
  <2> QED
    BY <2>1, SessionStepKeeps
<1>2. CASE session'[b] = session[b]
  <2>1. Follows(session[b])
    BY <1>2 DEF SessionsFollow, Sessions
  <2> QED
    BY <1>1, <1>2, <2>1, FollowsKept
<1>3. ASSUME NEW a \in Agent, NEW i \in StateId, StartSession(a, i) PROVE Follows(session[b])'
  <2>1. CASE a = b
    <3>1. session'[b] = [parent |-> i, forks |-> <<>>]
      BY <1>3, <2>1 DEF StartSession, SessionTypeOK
    <3> QED
      BY <3>1 DEF Follows
  <2>2. CASE a # b
    BY <1>2, <1>3, <2>2 DEF StartSession, SessionTypeOK
  <2> QED
    BY <2>1, <2>2
<1>4. ASSUME NEW a \in Agent, NEW l \in LeaseId, NEW caller \in Caller, NEW c \in StateId,
             AgentFork(a, l, caller, c)
      PROVE  Follows(session[b])'
  <2>1. CASE a = b
    BY <1>4, <2>1, AgentForkFollows
  <2>2. CASE a # b
    BY <1>2, <1>4, <2>2 DEF AgentFork, SessionTypeOK
  <2> QED
    BY <2>1, <2>2
<1>5. CASE Restart
  BY <1>5 DEF Restart
<1> QED
  BY <1>2, <1>3, <1>4, <1>5 DEF SessionNext, Tick, Issue, StoreStep, sessionVars

(* What ListedTo says of the whole of a session is what replay promises. *)
LEMMA ReplayFinds ==
    ASSUME IInv, IsFiniteSet(Known), SessionTypeOK, SessionsFollow
    PROVE  ReplayFindsTheSession
<1> SUFFICES ASSUME NEW a \in Sessions
             PROVE  LET s == session[a]  all == Replay(s) IN
        /\ Replayable(s)
        /\ IsInjective(all)
        /\ \A k \in DOMAIN s.forks : Lineage(s.forks[k]) \subseteq Range(all)
        /\ \E place \in [DOMAIN Own(s) -> DOMAIN all] :
               /\ \A j, k \in DOMAIN Own(s) : j < k => place[j] < place[k]
               /\ \A k \in DOMAIN Own(s) : all[place[k]] = Own(s)[k]
  BY DEF ReplayFindsTheSession
<1> DEFINE s == session[a]
           all == Replay(s)
           N == Len(s.forks)
<1>1. s \in Session /\ Follows(s)
  BY DEF Sessions, SessionTypeOK, SessionsFollow
<1>2. s.forks \in Seq(StateId) /\ N \in Nat /\ DOMAIN s.forks = 1 .. N
  BY <1>1 DEF Session
<1> HIDE DEF s
<1>3. all \in Seq(StateId) /\ ListedTo(all, s, N)
  BY <1>1, ReplayLists
<1>4. DOMAIN Own(s) = 1 .. N + 1 /\ \A k \in 1 .. N : Own(s)[k + 1] = s.forks[k]
  BY <1>1, OwnIs
<1>5. DOMAIN all = 1 .. Len(all)
  BY <1>3
<1> HIDE DEF all, N
<1>6. Replayable(s)
  BY <1>1, <1>2, <1>4 DEF Replayable, Follows, N
<1>7. IsInjective(all)
  BY <1>3, <1>5 DEF IsInjective, ListedTo
<1>8. \A k \in DOMAIN s.forks : Lineage(s.forks[k]) \subseteq Range(all)
  BY <1>2, <1>3 DEF ListedTo
<1>9. \E place \in [DOMAIN Own(s) -> DOMAIN all] :
          /\ \A j, k \in DOMAIN Own(s) : j < k => place[j] < place[k]
          /\ \A k \in DOMAIN Own(s) : all[place[k]] = Own(s)[k]
  BY <1>3, <1>4, <1>5, Zenon DEF ListedTo
<1> QED
  BY <1>6, <1>7, <1>8, <1>9 DEF s, all

(* apps/agent.rs: replay finds every session that lives, for any number of *)
(* states, leases and agents: no error, no state listed twice, no ancestor *)
(* and no fork left out, and the session's own states in the order of      *)
(* their forks, whatever was released, collected or forked in between.     *)
THEOREM SessionsReplay == SessionSpec => []ReplayFindsTheSession
<1>1. SessionInit => SessionsFollow
  BY DEF SessionInit, SessionsFollow, Sessions
<1>2. SessionTypeOK /\ SessionTypeOK' /\ IInv /\ SessionsFollow
        /\ [SessionNext]_<<vars, sessionVars>> => SessionsFollow'
  BY NextSessionsFollow
<1>3. SessionSpec => []SessionTypeOK /\ []IInv /\ []IsFiniteSet(Known)
  BY SessionsUseTheStore, Invariance, StatesAreFinite, PTL
<1>4. SessionSpec => []SessionsFollow
  BY <1>1, <1>2, <1>3, PTL DEF SessionSpec
<1>5. IInv /\ IsFiniteSet(Known) /\ SessionTypeOK /\ SessionsFollow => ReplayFindsTheSession
  BY ReplayFinds
<1> QED
  BY <1>3, <1>4, <1>5, PTL
=============================================================================
