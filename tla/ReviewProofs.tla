----------------------------- MODULE ReviewProofs -----------------------------
(***************************************************************************)
(* Proofs about Review, for any number of sessions, concepts, keys,        *)
(* requests and workers.                                                   *)
(***************************************************************************)
EXTENDS Review, FiniteSetTheorems, TLAPS

RequestRow == [pc : {"new", "write", "over"}, item : Item \cup {None}, key : Keys \cup {None}]
HandlerRow == [pc : {"idle", "save", "commit"}, key : Keys \cup {None},
               item : Item \cup {None}, verdict : Verdicts \cup {None},
               decision : Decided \cup {None}]

\* Items belong to sessions that exist; the items of a retry come in one step,
\* into a session that has none.
ItemsFit ==
    /\ \A i \in items : status[i[1]] # "none"
    /\ \A i \in Item : outcome[i] # None => i \in items
    /\ \A s \in Sessions :
          /\ retrying[s] \subseteq {s} \X Concepts
          /\ retrying[s] # {} => status[s] = "active" /\ ItemsOf(s) = {}

\* A run is submitted for an item together with the item's link, and an item
\* whose answers never overlapped has one run and one link.
LinksFit ==
    /\ \A i \in Item, k \in Keys : made[k] = i => link[i] # None
    /\ \A i \in Item \ crossed, k, l \in Keys : made[k] = i /\ made[l] = i => k = l
    /\ \A i \in Item : link[i] # None => run[link[i]] # "none"
    /\ \A i \in Item \ crossed :
          outcome[i] # None => link[i] # None /\ run[link[i]] \in Verdicts

RequestFits(r) ==
    /\ r.item \in items /\ r.key \in Keys
    /\ r.item \notin crossed => link[r.item] = None

RequestsFit ==
    /\ \A q \in Requests : request[q].pc = "write" => RequestFits(request[q])
    /\ \A p, q \in Requests :
          (/\ p # q /\ request[p].pc = "write" /\ request[q].pc = "write"
           /\ request[p].item = request[q].item)
          => request[p].item \in crossed

\* An open evaluation works on the run its item links to, and the decision it
\* holds is the one the committed outcomes still give.
HandlerFits(h) ==
    /\ h.key \in Keys /\ h.item \in items /\ h.verdict \in Verdicts
    /\ run[h.key] = "open"
    /\ h.item \notin crossed => link[h.item] = h.key
    /\ (h.pc = "commit" /\ h.item[1] \notin raced) => h.decision = Decision(h.item, h.verdict)

HandlersFit ==
    /\ \A w \in Workers : handler[w].pc # "idle" => HandlerFits(handler[w])
    /\ \A v, w \in Workers :
          (v # w /\ handler[v].pc # "idle" /\ handler[w].pc # "idle")
          => handler[v].key # handler[w].key

RInv ==
    /\ TypeOK
    /\ ItemsFit
    /\ LinksFit
    /\ RequestsFit
    /\ HandlersFit
    /\ DecisionMatchesItems
-----------------------------------------------------------------------------
LEMMA Settings ==
  /\ MaxSessions \in Nat /\ MaxRequests \in Nat /\ IsFiniteSet(Keys)
  /\ None \notin Keys /\ None \notin Item /\ None \notin Verdicts /\ None \notin Decided
BY ReviewAssumption DEF ReviewAssumption, Item, Sessions, Verdicts, Decided

\* TypeOK with the names of the row sets.
LEMMA Types ==
  TypeOK <=>
    /\ status \in [Sessions -> Decided \cup {"none", "active"}]
    /\ items \subseteq Item
    /\ link \in [Item -> Keys \cup {None}]
    /\ outcome \in [Item -> Verdicts \cup {None}]
    /\ run \in [Keys -> Verdicts \cup {"none", "open", "ungraded"}]
    /\ made \in [Keys -> Item \cup {None}]
    /\ request \in [Requests -> RequestRow]
    /\ handler \in [Workers -> HandlerRow]
    /\ retrying \in [Sessions -> SUBSET Item]
    /\ raced \subseteq Sessions /\ crossed \subseteq Item
BY DEF TypeOK, RequestRow, HandlerRow

LEMMA ItemSession == \A i \in Item : i[1] \in Sessions
BY DEF Item

LEMMA InitInv == Init => RInv
<1> SUFFICES ASSUME Init PROVE RInv
  OBVIOUS
<1>1. TypeOK
  <2>1. NewRequest \in RequestRow /\ IdleHandler \in HandlerRow
    BY DEF NewRequest, IdleHandler, RequestRow, HandlerRow
  <2>2. QED
    BY <2>1, Types DEF Init
<1>2. ItemsFit
  BY DEF Init, ItemsFit, ItemsOf
<1>3. LinksFit
  BY Settings DEF Init, LinksFit
<1>4. RequestsFit /\ HandlersFit
  BY DEF Init, RequestsFit, HandlersFit, NewRequest, IdleHandler
<1>5. DecisionMatchesItems
  BY DEF Init, DecisionMatchesItems, Decided, ItemsOf
<1>6. QED
  BY <1>1, <1>2, <1>3, <1>4, <1>5 DEF RInv
-----------------------------------------------------------------------------
\* Sessions and items come, no session that has items gets more, and nothing
\* that evaluations and answers read changes.
LEMMA ItemsCome ==
  ASSUME RInv, NEW s \in Sessions, NEW S \in SUBSET ({s} \X Concepts),
         items' = items \cup S, S # {} => ItemsOf(s) = {} /\ status'[s] = "active",
         \A t \in Sessions \ {s} : status'[t] = status[t],
         status'[s] = status[s] \/ (status[s] = "none" /\ status'[s] = "active"),
         status'[s] # "none",
         UNCHANGED <<link, outcome, run, made, request, handler, raced, crossed>>,
         TypeOK', ItemsFit'
  PROVE  RInv'
<1>1. \A i \in items : i \in items' /\ i \in Item /\ i[1] \in Sessions
  BY Types, ItemSession DEF RInv
<1>2. \A t \in Sessions \ {s} : ItemsOf(t)' = ItemsOf(t)
  BY DEF ItemsOf
<1>3. \A t \in Sessions : ItemsOf(t) # {} => ItemsOf(t)' = ItemsOf(t)
  BY <1>2 DEF ItemsOf
<1>4. LinksFit' /\ RequestsFit'
  BY <1>1 DEF RInv, LinksFit, RequestsFit, RequestFits
<1>5. HandlersFit'
  <2>1. ASSUME NEW w \in Workers, HandlerFits(handler[w]) PROVE HandlerFits(handler[w])'
    <3>1. handler[w].item \in items /\ handler[w].item[1] \in Sessions
      BY <1>1, <2>1 DEF HandlerFits
    <3>2. ItemsOf(handler[w].item[1])' = ItemsOf(handler[w].item[1])
      BY <1>3, <3>1 DEF ItemsOf
    <3>3. QED
      BY <1>1, <2>1, <3>1, <3>2 DEF HandlerFits, Decision
  <2>2. QED
    BY <2>1 DEF RInv, HandlersFit
<1>6. DecisionMatchesItems'
  <2> SUFFICES ASSUME NEW t \in Sessions \ raced
               PROVE  /\ status'[t] \in Decided
                            <=> ItemsOf(t)' # {} /\ \A i \in ItemsOf(t)' : outcome[i] # None
                      /\ status'[t] = "completed"
                            <=> ItemsOf(t)' # {} /\ \A i \in ItemsOf(t)' : outcome[i] = "pass"
    BY DEF DecisionMatchesItems
  <2>1. /\ status[t] \in Decided
              <=> ItemsOf(t) # {} /\ \A i \in ItemsOf(t) : outcome[i] # None
        /\ status[t] = "completed"
              <=> ItemsOf(t) # {} /\ \A i \in ItemsOf(t) : outcome[i] = "pass"
    BY DEF RInv, DecisionMatchesItems
  <2>2. CASE t # s \/ S = {}
    <3>1. ItemsOf(t)' = ItemsOf(t)
      BY <1>2, <2>2 DEF ItemsOf
    <3>2. /\ status'[t] \in Decided <=> status[t] \in Decided
          /\ status'[t] = "completed" <=> status[t] = "completed"
      BY DEF Decided
    <3>3. QED
      BY <2>1, <3>1, <3>2
  <2>3. CASE t = s /\ S # {}
    <3>1. status'[t] = "active" /\ ItemsOf(s) = {}
      BY <2>3
    <3>2. PICK i \in S : TRUE
      BY <2>3
    <3>3. i \in ItemsOf(t)' /\ i \in Item /\ i \notin items
      BY <2>3, <3>1, <3>2 DEF ItemsOf, Item
    <3>4. outcome[i] = None
      BY <3>3 DEF RInv, ItemsFit
    <3>5. QED
      BY <3>1, <3>3, <3>4, Settings DEF Decided, Verdicts
  <2>4. QED
    BY <2>2, <2>3
<1>7. QED
  BY <1>4, <1>5, <1>6 DEF RInv

LEMMA CreateSessionInv ==
  ASSUME RInv, NEW s \in Sessions, NEW S \in SUBSET Concepts, CreateSession(s, S)
  PROVE  RInv'
<1>1. /\ status[s] = "none" /\ status' = [status EXCEPT ![s] = "active"]
      /\ items' = items \cup ({s} \X S)
      /\ UNCHANGED <<link, outcome, run, made, request, handler, retrying, raced, crossed>>
      /\ TypeOK /\ ItemsFit
  BY DEF CreateSession, Fresh, RInv
<1>2. status'[s] = "active" /\ \A t \in Sessions \ {s} : status'[t] = status[t]
  BY <1>1, Types
<1>3. ItemsOf(s) = {} /\ retrying[s] = {}
  BY <1>1 DEF ItemsFit, ItemsOf
<1>4. TypeOK'
  BY <1>1, Types DEF TypeOK, Item, RequestRow, HandlerRow
<1>5. ItemsFit'
  <2>1. \A t \in Sessions \ {s} : ItemsOf(t)' = ItemsOf(t)
    BY <1>1 DEF ItemsOf
  <2>2. \A i \in items' : status'[i[1]] # "none"
    BY <1>1, <1>2, Types, ItemSession DEF ItemsFit
  <2>3. QED
    BY <1>1, <1>2, <1>3, <2>1, <2>2 DEF ItemsFit
<1>6. QED
  BY <1>1, <1>2, <1>3, <1>4, <1>5, ItemsCome

LEMMA RetryCreateInv ==
  ASSUME RInv, NEW s \in Sessions, NEW failed \in Sessions, RetryCreate(s, failed)
  PROVE  RInv'
<1> DEFINE R == {<<s, i[2]>> : i \in {j \in ItemsOf(failed) : outcome[j] = "fail"}}
<1>1. /\ status[s] = "none" /\ status' = [status EXCEPT ![s] = "active"]
      /\ retrying' = [retrying EXCEPT ![s] = R]
      /\ UNCHANGED <<items, link, outcome, run, made, request, handler, raced, crossed>>
      /\ TypeOK /\ ItemsFit
  BY DEF RetryCreate, Fresh, RInv
<1>2. status'[s] = "active" /\ \A t \in Sessions \ {s} : status'[t] = status[t]
  BY <1>1, Types
<1>3. ItemsOf(s) = {}
  BY <1>1 DEF ItemsFit, ItemsOf
<1>4. R \subseteq {s} \X Concepts
  BY <1>1, Types DEF ItemsOf, Item
<1>5. TypeOK'
  <2>1. R \in SUBSET Item
    BY <1>4 DEF Item
  <2>2. QED
    BY <1>1, <2>1, Types DEF TypeOK, RequestRow, HandlerRow
<1>6. ItemsFit'
  <2>1. \A t \in Sessions : ItemsOf(t)' = ItemsOf(t)
    BY <1>1 DEF ItemsOf
  <2>2. \A i \in items' : status'[i[1]] # "none"
    BY <1>1, <1>2, Types, ItemSession DEF ItemsFit
  <2>3. retrying'[s] = R /\ \A t \in Sessions \ {s} : retrying'[t] = retrying[t]
    BY <1>1, Types
  <2>4. QED
    BY <1>1, <1>2, <1>3, <1>4, <2>1, <2>2, <2>3 DEF ItemsFit
<1>7. {} \in SUBSET ({s} \X Concepts) /\ items' = items \cup {}
  BY <1>1
<1>8. QED
  BY <1>1, <1>2, <1>5, <1>6, <1>7, ItemsCome

LEMMA RetryItemsInv == ASSUME RInv, NEW s \in Sessions, RetryItems(s) PROVE RInv'
<1>1. PICK S \in SUBSET retrying[s] : items' = items \cup S
  BY DEF RetryItems
<1>2. /\ retrying[s] # {} /\ retrying' = [retrying EXCEPT ![s] = {}]
      /\ UNCHANGED <<status, link, outcome, run, made, request, handler, raced, crossed>>
      /\ TypeOK /\ ItemsFit
  BY DEF RetryItems, RInv
<1>3. S \in SUBSET ({s} \X Concepts) /\ status[s] = "active" /\ ItemsOf(s) = {}
  BY <1>1, <1>2 DEF ItemsFit
<1>4. TypeOK'
  <2>1. items' \subseteq Item /\ retrying' \in [Sessions -> SUBSET Item]
    BY <1>1, <1>2, <1>3, Types DEF Item
  <2>2. QED
    BY <1>2, <2>1, Types DEF TypeOK, RequestRow, HandlerRow
<1>5. ItemsFit'
  <2>1. \A t \in Sessions \ {s} : ItemsOf(t)' = ItemsOf(t)
    BY <1>1, <1>3 DEF ItemsOf
  <2>2. \A i \in items' : status'[i[1]] # "none"
    BY <1>1, <1>2, <1>3 DEF ItemsFit
  <2>3. retrying'[s] = {} /\ \A t \in Sessions \ {s} : retrying'[t] = retrying[t]
    BY <1>2, Types
  <2>4. \A i \in Item : outcome'[i] # None => i \in items'
    BY <1>1, <1>2 DEF ItemsFit
  <2>5. \A t \in Sessions : /\ retrying'[t] \subseteq {t} \X Concepts
                            /\ retrying'[t] # {} => status'[t] = "active" /\ ItemsOf(t)' = {}
    BY <1>2, <2>1, <2>3 DEF ItemsFit
  <2>6. QED
    BY <2>2, <2>4, <2>5 DEF ItemsFit
<1>6. QED
  BY <1>1, <1>2, <1>3, <1>4, <1>5, ItemsCome
-----------------------------------------------------------------------------
LEMMA AnswerReadInv ==
  ASSUME RInv, NEW q \in Requests, NEW i \in Item, NEW k \in Keys, AnswerRead(q, i, k)
  PROVE  RInv'
<1>1. /\ i \in items /\ TypeOK
      /\ UNCHANGED <<status, items, link, outcome, run, made, handler, retrying, raced>>
  BY DEF AnswerRead, RInv
<1> DEFINE over == [NewRequest EXCEPT !.pc = "over"]
           write == [pc |-> "write", item |-> i, key |-> k]
<1>2. PICK r \in {over, write} :
         /\ request' = [request EXCEPT ![q] = r]
         /\ r = write => link[i] = None
  BY DEF AnswerRead, End
<1>3. /\ over \in RequestRow /\ over.pc = "over"
      /\ write \in RequestRow /\ write.pc = "write" /\ write.item = i /\ write.key = k
  BY DEF NewRequest, RequestRow
<1> HIDE DEF over, write
<1>4. request'[q] = r /\ \A p \in Requests \ {q} : request'[p] = request[p]
  BY <1>1, <1>2, Types
<1>5. /\ crossed \subseteq crossed' /\ crossed' \subseteq crossed \cup {i}
      /\ Crossing(i) => i \in crossed'
  BY DEF AnswerRead
<1>6. TypeOK'
  <2>1. request' \in [Requests -> RequestRow]
    BY <1>1, <1>2, <1>3, Types
  <2>2. crossed' \subseteq Item
    BY <1>1, <1>5, Types
  <2>3. QED
    BY <1>1, <2>1, <2>2, Types DEF TypeOK, RequestRow, HandlerRow
<1>7. ItemsFit' /\ DecisionMatchesItems'
  BY <1>1 DEF RInv, ItemsFit, ItemsOf, DecisionMatchesItems
<1>8. LinksFit'
  BY <1>1, <1>5 DEF RInv, LinksFit
<1>9. RequestsFit'
  <2>1. ASSUME NEW p \in Requests, request'[p].pc = "write" PROVE RequestFits(request[p])'
    <3>1. CASE p = q
      BY <1>1, <1>2, <1>3, <1>4, <2>1, <3>1 DEF RequestFits
    <3>2. CASE p # q
      <4>1. RequestFits(request[p]) /\ request'[p] = request[p]
        BY <1>4, <2>1, <3>2 DEF RInv, RequestsFit
      <4>2. QED
        BY <1>1, <1>5, <4>1 DEF RequestFits
    <3>3. QED
      BY <3>1, <3>2
  <2>2. ASSUME NEW p \in Requests, NEW t \in Requests, p # t, request'[p].pc = "write",
               request'[t].pc = "write", request'[p].item = request'[t].item
        PROVE  request'[p].item \in crossed'
    <3>1. CASE p # q /\ t # q
      BY <1>4, <1>5, <2>2, <3>1 DEF RInv, RequestsFit
    <3>2. CASE p = q \/ t = q
      <4>1. request'[p].item = i /\ Crossing(i)
        BY <1>2, <1>3, <1>4, <2>2, <3>2 DEF Crossing
      <4>2. QED
        BY <1>5, <4>1
    <3>3. QED
      BY <3>1, <3>2
  <2>3. QED
    BY <2>1, <2>2 DEF RequestsFit
<1>10. HandlersFit'
  <2>1. ASSUME NEW w \in Workers, HandlerFits(handler[w]) PROVE HandlerFits(handler[w])'
    BY <1>1, <1>5, <2>1 DEF HandlerFits, Decision, ItemsOf
  <2>2. QED
    BY <1>1, <2>1 DEF RInv, HandlersFit
<1>11. QED
  BY <1>6, <1>7, <1>8, <1>9, <1>10 DEF RInv

\* A request ends: it leaves the ones that are still open as they were.
LEMMA EndedRequests ==
  ASSUME RInv, NEW q \in Requests, End(q)
  PROVE  /\ request' \in [Requests -> RequestRow]
         /\ \A p \in Requests : request'[p].pc = "write" => p # q /\ request'[p] = request[p]
<1>1. [NewRequest EXCEPT !.pc = "over"] \in RequestRow
  BY DEF NewRequest, RequestRow
<1>2. [NewRequest EXCEPT !.pc = "over"].pc = "over"
  BY DEF NewRequest
<1>3. QED
  BY <1>1, <1>2, Types DEF RInv, End

LEMMA AnswerWriteInv == ASSUME RInv, NEW q \in Requests, AnswerWrite(q) PROVE RInv'
<1> PICK i, k : i = request[q].item /\ k = request[q].key
  OBVIOUS
<1>1. /\ TypeOK /\ request[q].pc = "write" /\ End(q)
      /\ UNCHANGED <<status, items, outcome, handler, retrying, raced, crossed>>
  BY DEF AnswerWrite, RInv
<1>2. RequestFits(request[q]) /\ i \in items /\ i \in Item /\ k \in Keys
  BY <1>1, Types DEF RInv, RequestsFit, RequestFits
<1>3. /\ request' \in [Requests -> RequestRow]
      /\ \A p \in Requests : request'[p].pc = "write" => p # q /\ request'[p] = request[p]
  BY <1>1, EndedRequests
<1>4. ItemsFit' /\ DecisionMatchesItems'
  BY <1>1 DEF RInv, ItemsFit, ItemsOf, DecisionMatchesItems
<1>5. CASE UNCHANGED <<link, run, made>>
  <2>1. TypeOK'
    BY <1>1, <1>3, <1>5, Types DEF TypeOK, RequestRow, HandlerRow
  <2>2. LinksFit'
    BY <1>1, <1>5 DEF RInv, LinksFit
  <2>3. RequestsFit'
    BY <1>1, <1>3, <1>5 DEF RInv, RequestsFit, RequestFits
  <2>4. HandlersFit'
    BY <1>1, <1>5 DEF RInv, HandlersFit, HandlerFits, Decision, ItemsOf
  <2>5. QED
    BY <1>4, <2>1, <2>2, <2>3, <2>4 DEF RInv
<1>6. CASE /\ link' = [link EXCEPT ![i] = k]
           /\ \/ run[k] # "none" /\ UNCHANGED <<run, made>>
              \/ /\ run[k] = "none" /\ run' = [run EXCEPT ![k] = "open"]
                 /\ made' = [made EXCEPT ![k] = i]
  <2>1. link'[i] = k /\ k # None /\ \A j \in Item \ {i} : link'[j] = link[j]
    BY <1>1, <1>2, <1>6, Types, Settings
  <2>2. \A l \in Keys : /\ run[l] # "none" => run'[l] = run[l] /\ made'[l] = made[l]
                        /\ made'[l] = made[l] \/ (l = k /\ made'[l] = i)
    BY <1>1, <1>2, <1>6, Types
  <2>3. run'[k] # "none"
    BY <1>1, <1>2, <1>6, Types
  <2>4. i \in crossed \/ link[i] = None
    BY <1>2 DEF RequestFits
  <2>5. TypeOK'
    <3>1. link' \in [Item -> Keys \cup {None}]
      BY <1>1, <1>2, <1>6, Types
    <3>2. run' \in [Keys -> Verdicts \cup {"none", "open", "ungraded"}]
      BY <1>1, <1>2, <1>6, Types
    <3>3. made' \in [Keys -> Item \cup {None}]
      BY <1>1, <1>2, <1>6, Types
    <3>4. QED
      BY <1>1, <1>3, <3>1, <3>2, <3>3, Types DEF TypeOK, RequestRow, HandlerRow
  <2>6. LinksFit'
    <3>1. ASSUME NEW j \in Item, NEW l \in Keys, made'[l] = j PROVE link'[j] # None
      BY <2>1, <2>2, <3>1 DEF RInv, LinksFit
    <3>2. ASSUME NEW j \in Item \ crossed', NEW l \in Keys, NEW h \in Keys,
                 made'[l] = j, made'[h] = j
          PROVE  l = h
      <4>1. CASE j = i
        <5>1. link[i] = None
          BY <1>1, <2>4, <3>2, <4>1
        <5>2. \A x \in Keys : made[x] # i
          BY <1>2, <5>1 DEF RInv, LinksFit
        <5>3. QED
          BY <2>2, <3>2, <4>1, <5>2
      <4>2. CASE j # i
        BY <1>1, <2>2, <3>2, <4>2 DEF RInv, LinksFit
      <4>3. QED
        BY <4>1, <4>2
    <3>3. ASSUME NEW j \in Item, link'[j] # None PROVE run'[link'[j]] # "none"
      <4>1. CASE j = i
        BY <2>1, <2>3, <4>1
      <4>2. CASE j # i
        <5>1. link[j] \in Keys /\ link'[j] = link[j] /\ run[link[j]] # "none"
          BY <1>1, <2>1, <3>3, <4>2, Types DEF RInv, LinksFit
        <5>2. QED
          BY <2>2, <5>1
      <4>3. QED
        BY <4>1, <4>2
    <3>4. ASSUME NEW j \in Item \ crossed', outcome'[j] # None
          PROVE  link'[j] # None /\ run'[link'[j]] \in Verdicts
      <4>1. /\ link[j] # None /\ run[link[j]] \in Verdicts /\ link[j] \in Keys
            /\ run[link[j]] # "none"
        BY <1>1, <3>4, Types DEF RInv, LinksFit
      <4>2. link'[j] = link[j]
        BY <1>1, <2>1, <2>4, <3>4, <4>1
      <4>3. QED
        BY <2>2, <4>1, <4>2
    <3>5. QED
      BY <3>1, <3>2, <3>3, <3>4 DEF LinksFit
  <2>7. RequestsFit'
    <3>1. ASSUME NEW p \in Requests, request'[p].pc = "write" PROVE RequestFits(request[p])'
      <4>1. p # q /\ request'[p] = request[p] /\ RequestFits(request[p])
        BY <1>3, <3>1 DEF RInv, RequestsFit
      <4>2. request[p].item \in Item /\ request[p].item = i => i \in crossed
        BY <1>1, <1>3, <3>1, <4>1, Types DEF RInv, RequestsFit, RequestFits
      <4>3. request[p].item \in Item
        BY <1>1, <4>1, Types DEF RequestFits
      <4>4. QED
        BY <1>1, <2>1, <4>1, <4>2, <4>3 DEF RequestFits
    <3>2. QED
      BY <1>1, <1>3, <3>1 DEF RInv, RequestsFit
  <2>8. HandlersFit'
    <3>1. ASSUME NEW w \in Workers, HandlerFits(handler[w]) PROVE HandlerFits(handler[w])'
      <4> DEFINE h == handler[w]
      <4>1. h.item \in Item /\ h.key \in Keys /\ h.key # None
        BY <1>1, <3>1, Types, Settings DEF HandlerFits
      <4>2. run'[h.key] = "open"
        BY <2>2, <3>1, <4>1 DEF HandlerFits
      <4>3. h.item \notin crossed => link'[h.item] = h.key
        BY <2>1, <2>4, <3>1, <4>1 DEF HandlerFits
      <4>4. QED
        BY <1>1, <3>1, <4>2, <4>3 DEF HandlerFits, Decision, ItemsOf
    <3>2. QED
      BY <1>1, <3>1 DEF RInv, HandlersFit
  <2>9. QED
    BY <1>4, <2>5, <2>6, <2>7, <2>8 DEF RInv
<1>7. QED
  BY <1>5, <1>6 DEF AnswerWrite

LEMMA AnswerAbortInv == ASSUME RInv, NEW q \in Requests, AnswerAbort(q) PROVE RInv'
<1>1. /\ TypeOK /\ End(q)
      /\ UNCHANGED <<status, items, link, outcome, run, made, handler, retrying, raced, crossed>>
  BY DEF AnswerAbort, RInv
<1>2. /\ request' \in [Requests -> RequestRow]
      /\ \A p \in Requests : request'[p].pc = "write" => p # q /\ request'[p] = request[p]
  BY <1>1, EndedRequests
<1>3. TypeOK'
  BY <1>1, <1>2, Types DEF TypeOK, RequestRow, HandlerRow
<1>4. RequestsFit'
  BY <1>1, <1>2 DEF RInv, RequestsFit, RequestFits
<1>5. ItemsFit' /\ LinksFit' /\ DecisionMatchesItems'
  BY <1>1 DEF RInv, ItemsFit, ItemsOf, LinksFit, DecisionMatchesItems
<1>6. HandlersFit'
  BY <1>1 DEF RInv, HandlersFit, HandlerFits, Decision, ItemsOf
<1>7. QED
  BY <1>3, <1>4, <1>5, <1>6 DEF RInv
-----------------------------------------------------------------------------
LEMMA EvaluateBeginInv ==
  ASSUME RInv, NEW w \in Workers, NEW k \in Keys, NEW verdict \in Verdicts,
         EvaluateBegin(w, k, verdict)
  PROVE  RInv'
<1>1. /\ TypeOK /\ handler[w].pc = "idle" /\ run[k] = "open" /\ ~InHand(k) /\ k # None
      /\ UNCHANGED <<status, items, link, outcome, made, request, retrying, raced, crossed>>
  BY Settings DEF EvaluateBegin, RInv
<1>2. ItemsFit' /\ DecisionMatchesItems' /\ RequestsFit'
  BY <1>1 DEF RInv, ItemsFit, ItemsOf, DecisionMatchesItems, RequestsFit, RequestFits
<1>3. CASE run' = [run EXCEPT ![k] = verdict] /\ UNCHANGED handler
  <2>1. run'[k] = verdict /\ \A l \in Keys \ {k} : run'[l] = run[l]
    BY <1>1, <1>3, Types
  <2>2. TypeOK'
    <3>1. run' \in [Keys -> Verdicts \cup {"none", "open", "ungraded"}]
      BY <1>1, <1>3, Types
    <3>2. QED
      BY <1>1, <1>3, <3>1, Types DEF TypeOK, RequestRow, HandlerRow
  <2>3. LinksFit'
    <3>1. \A i \in Item : link[i] # None => link[i] \in Keys
      BY <1>1, Types
    <3>2. \A l \in Keys : /\ run[l] # "none" => run'[l] # "none"
                          /\ run[l] \in Verdicts => run'[l] \in Verdicts
      BY <1>1, <2>1 DEF Verdicts
    <3>3. QED
      BY <1>1, <3>1, <3>2 DEF RInv, LinksFit
  <2>4. HandlersFit'
    <3>1. ASSUME NEW v \in Workers, HandlerFits(handler[v]) PROVE HandlerFits(handler[v])'
      <4>1. handler[v].key \in Keys \ {k}
        BY <1>1, <3>1 DEF HandlerFits, InHand
      <4>2. QED
        BY <1>1, <1>3, <2>1, <3>1, <4>1 DEF HandlerFits, Decision, ItemsOf
    <3>2. QED
      BY <1>1, <1>3, <3>1 DEF RInv, HandlersFit
  <2>5. QED
    BY <1>2, <2>2, <2>3, <2>4 DEF RInv
<1>4. CASE /\ UNCHANGED run
           /\ \E i \in ItemOf(k) :
                handler' = [handler EXCEPT ![w] =
                   [pc |-> "save", key |-> k, item |-> i, verdict |-> verdict,
                    decision |-> None]]
  <2>1. PICK i \in ItemOf(k) :
           handler' = [handler EXCEPT ![w] =
              [pc |-> "save", key |-> k, item |-> i, verdict |-> verdict, decision |-> None]]
    BY <1>4
  <2> DEFINE h == [pc |-> "save", key |-> k, item |-> i, verdict |-> verdict, decision |-> None]
  <2>2. i \in items /\ i \in Item /\ link[i] = k
    BY <1>1, Types DEF ItemOf
  <2>3. h \in HandlerRow /\ h.key = k /\ h.item = i /\ h.verdict = verdict /\ h.pc = "save"
    BY <2>2 DEF HandlerRow
  <2>4. handler'[w] = h /\ \A v \in Workers \ {w} : handler'[v] = handler[v]
    BY <1>1, <2>1, Types
  <2> HIDE DEF h
  <2>5. TypeOK'
    <3>1. handler' \in [Workers -> HandlerRow]
      BY <1>1, <2>1, <2>3, Types DEF h
    <3>2. QED
      BY <1>1, <1>4, <3>1, Types DEF TypeOK, RequestRow, HandlerRow
  <2>6. LinksFit'
    BY <1>1, <1>4 DEF RInv, LinksFit
  <2>7. HandlersFit'
    <3>1. HandlerFits(handler[w])'
      BY <1>1, <1>4, <2>2, <2>3, <2>4 DEF HandlerFits
    <3>2. ASSUME NEW v \in Workers \ {w}, handler[v].pc # "idle" PROVE HandlerFits(handler[v])'
      <4>1. HandlerFits(handler[v])
        BY <3>2 DEF RInv, HandlersFit
      <4>2. QED
        BY <1>1, <1>4, <2>4, <4>1 DEF HandlerFits, Decision, ItemsOf
    <3>3. \A v \in Workers : handler[v].key # k
      BY <1>1 DEF InHand
    <3>4. \A v \in Workers \ {w} : handler'[v].pc # "idle" => handler[v].pc # "idle"
      BY <2>4
    <3>5. \A u, v \in Workers :
             (u # v /\ handler'[u].pc # "idle" /\ handler'[v].pc # "idle")
             => handler'[u].key # handler'[v].key
      BY <2>3, <2>4, <3>3 DEF RInv, HandlersFit
    <3>6. QED
      BY <3>1, <3>2, <3>4, <3>5 DEF HandlersFit
  <2>8. QED
    BY <1>2, <2>5, <2>6, <2>7 DEF RInv
<1>5. QED
  BY <1>3, <1>4 DEF EvaluateBegin

LEMMA EvaluateSaveInv == ASSUME RInv, NEW w \in Workers, EvaluateSave(w) PROVE RInv'
<1> DEFINE h == handler[w]
<1>1. /\ TypeOK /\ h.pc = "save" /\ h \in HandlerRow
      /\ handler' = [handler EXCEPT ![w].pc = "commit",
                                    ![w].decision = Decision(h.item, h.verdict)]
      /\ UNCHANGED <<status, items, link, outcome, run, made, request, retrying, raced, crossed>>
  BY Types DEF EvaluateSave, RInv
<1>2. HandlerFits(h)
  BY <1>1 DEF RInv, HandlersFit
<1> DEFINE g == [h EXCEPT !.pc = "commit", !.decision = Decision(h.item, h.verdict)]
<1>3. Decision(h.item, h.verdict) \in Decided \cup {None}
  BY DEF Decision, Decided
<1>4. /\ g \in HandlerRow /\ g.key = h.key /\ g.item = h.item /\ g.verdict = h.verdict
      /\ g.pc = "commit" /\ g.decision = Decision(h.item, h.verdict)
  BY <1>1, <1>3 DEF HandlerRow
<1>5. handler' = [handler EXCEPT ![w] = g]
  BY <1>1, Types
<1>6. handler'[w] = g /\ \A v \in Workers \ {w} : handler'[v] = handler[v]
  BY <1>1, <1>5, Types
<1> HIDE DEF g
<1>7. TypeOK'
  <2>1. handler' \in [Workers -> HandlerRow]
    BY <1>1, <1>4, <1>5, Types
  <2>2. QED
    BY <1>1, <2>1, Types DEF TypeOK, RequestRow, HandlerRow
<1>8. ItemsFit' /\ LinksFit' /\ RequestsFit' /\ DecisionMatchesItems'
  BY <1>1 DEF RInv, ItemsFit, ItemsOf, LinksFit, RequestsFit, RequestFits, DecisionMatchesItems
<1>9. HandlersFit'
  <2>1. \A v \in Workers : /\ handler'[v].key = handler[v].key
                           /\ handler'[v].pc # "idle" => handler[v].pc # "idle"
    BY <1>1, <1>4, <1>6
  <2>2. HandlerFits(handler[w])'
    <3>1. Decision(handler[w].item, handler[w].verdict)' = Decision(g.item, g.verdict)
      BY <1>1, <1>6 DEF Decision, ItemsOf
    <3>2. handler'[w].decision = Decision(handler[w].item, handler[w].verdict)'
      BY <1>4, <1>6, <3>1
    <3>3. QED
      BY <1>1, <1>2, <1>4, <1>6, <3>2 DEF HandlerFits
  <2>3. ASSUME NEW v \in Workers \ {w}, handler[v].pc # "idle" PROVE HandlerFits(handler[v])'
    <3>1. HandlerFits(handler[v])
      BY <2>3 DEF RInv, HandlersFit
    <3>2. handler'[v] = handler[v]
      BY <1>6
    <3>3. Decision(handler[v].item, handler[v].verdict)'
             = Decision(handler[v].item, handler[v].verdict)
      BY <1>1, <3>2 DEF Decision, ItemsOf
    <3>4. QED
      BY <1>1, <3>1, <3>2, <3>3 DEF HandlerFits
  <2>4. QED
    BY <2>1, <2>2, <2>3 DEF RInv, HandlersFit
<1>10. QED
  BY <1>7, <1>8, <1>9 DEF RInv

LEMMA EvaluateCommitInv == ASSUME RInv, NEW w \in Workers, EvaluateCommit(w) PROVE RInv'
<1> DEFINE h == handler[w]
<1> PICK i, k, s : i = h.item /\ k = h.key /\ s = i[1]
  OBVIOUS
<1>1. /\ TypeOK /\ h.pc = "commit" /\ h \in HandlerRow
      /\ UNCHANGED <<items, link, made, request, retrying, crossed>>
  BY Types DEF EvaluateCommit, RInv
<1>2. /\ HandlerFits(h) /\ i \in items /\ i \in Item /\ s \in Sessions /\ i \in ItemsOf(s)
      /\ k \in Keys /\ k # None /\ h.verdict \in Verdicts /\ run[k] = "open"
      /\ h.decision \in Decided \cup {None}
  BY <1>1, Types, Settings, ItemSession DEF RInv, HandlersFit, HandlerFits, HandlerRow, ItemsOf
<1>3. run'[k] = h.verdict /\ \A l \in Keys \ {k} : run'[l] = run[l]
  BY <1>1, <1>2, Types DEF EvaluateCommit
<1>4. outcome'[i] = h.verdict /\ \A j \in Item \ {i} : outcome'[j] = outcome[j]
  BY <1>1, <1>2, Types DEF EvaluateCommit
<1>5. \A t \in Sessions : status'[t] = IF t = s /\ h.decision # None THEN h.decision
                                       ELSE status[t]
  BY <1>1, <1>2, Types DEF EvaluateCommit
<1>6. /\ raced \subseteq raced' /\ raced' \subseteq raced \cup {s}
      /\ \A v \in Workers \ {w} : handler[v].pc = "commit" /\ handler[v].item[1] = s
                                  => s \in raced'
  BY DEF EvaluateCommit
<1>7. handler'[w] = IdleHandler /\ \A v \in Workers \ {w} : handler'[v] = handler[v]
  BY <1>1, Types DEF EvaluateCommit
<1>8. TypeOK'
  <2>1. IdleHandler \in HandlerRow
    BY DEF IdleHandler, HandlerRow
  <2>2. handler' \in [Workers -> HandlerRow]
    BY <1>1, <2>1, Types DEF EvaluateCommit
  <2>3. run' \in [Keys -> Verdicts \cup {"none", "open", "ungraded"}]
    BY <1>1, <1>2, Types DEF EvaluateCommit
  <2>4. outcome' \in [Item -> Verdicts \cup {None}]
    BY <1>1, <1>2, Types DEF EvaluateCommit
  <2>5. status' \in [Sessions -> Decided \cup {"none", "active"}]
    BY <1>1, <1>2, Types DEF EvaluateCommit
  <2>6. raced' \subseteq Sessions
    BY <1>1, <1>2, <1>6, Types
  <2>7. QED
    BY <1>1, <2>2, <2>3, <2>4, <2>5, <2>6, Types DEF TypeOK, RequestRow, HandlerRow
<1>9. ItemsFit'
  <2>1. \A t \in Sessions : status[t] # "none" => status'[t] # "none"
    BY <1>2, <1>5 DEF Decided
  <2>2. \A t \in Sessions : ItemsOf(t) = {} => status'[t] = status[t]
    BY <1>2, <1>5
  <2>3. \A j \in items : j[1] \in Sessions
    BY <1>1, Types, ItemSession
  <2>4. \A t \in Sessions : ItemsOf(t)' = ItemsOf(t)
    BY <1>1 DEF ItemsOf
  <2>5. \A j \in Item : outcome'[j] # None => j \in items'
    BY <1>1, <1>2, <1>4 DEF RInv, ItemsFit
  <2>6. \A j \in items' : status'[j[1]] # "none"
    BY <1>1, <2>1, <2>3 DEF RInv, ItemsFit
  <2>7. \A t \in Sessions : /\ retrying'[t] \subseteq {t} \X Concepts
                            /\ retrying'[t] # {} => status'[t] = "active" /\ ItemsOf(t)' = {}
    BY <1>1, <2>2, <2>4 DEF RInv, ItemsFit
  <2>8. QED
    BY <2>5, <2>6, <2>7 DEF ItemsFit
<1>10. LinksFit'
  <2>1. \A j \in Item : link[j] # None => link[j] \in Keys
    BY <1>1, Types
  <2>2. \A l \in Keys : /\ run[l] # "none" => run'[l] # "none"
                        /\ run[l] \in Verdicts => run'[l] \in Verdicts
    BY <1>2, <1>3 DEF Verdicts
  <2>3. ASSUME NEW j \in Item \ crossed', outcome'[j] # None
        PROVE  link'[j] # None /\ run'[link'[j]] \in Verdicts
    <3>1. CASE j = i
      BY <1>1, <1>2, <1>3, <2>3, <3>1 DEF HandlerFits
    <3>2. CASE j # i
      BY <1>1, <1>4, <2>1, <2>2, <2>3, <3>2 DEF RInv, LinksFit
    <3>3. QED
      BY <3>1, <3>2
  <2>4. QED
    BY <1>1, <2>1, <2>2, <2>3 DEF RInv, LinksFit
<1>11. RequestsFit'
  BY <1>1 DEF RInv, RequestsFit, RequestFits
<1>12. HandlersFit'
  <2>1. ASSUME NEW v \in Workers \ {w}, handler[v].pc # "idle" PROVE HandlerFits(handler[v])'
    <3> DEFINE g == handler[v]
    <3>1. /\ HandlerFits(g) /\ handler'[v] = g /\ g.key \in Keys \ {k} /\ g.item \in Item
          /\ g.item[1] \in Sessions
      BY <1>1, <1>7, <2>1, Types, ItemSession DEF RInv, HandlersFit, HandlerFits
    <3>2. run'[g.key] = "open"
      BY <1>3, <3>1 DEF HandlerFits
    <3>3. ASSUME g.pc = "commit", g.item[1] \notin raced'
          PROVE  g.decision = Decision(g.item, g.verdict)'
      <4>1. g.item[1] # s
        BY <1>6, <3>3
      <4>2. \A j \in ItemsOf(g.item[1]) : outcome'[j] = outcome[j]
        BY <1>1, <1>2, <1>4, <4>1, Types DEF ItemsOf
      <4>3. ItemsOf(g.item[1])' = ItemsOf(g.item[1])
        BY <1>1, <3>1 DEF ItemsOf
      <4>4. Decision(g.item, g.verdict)' = Decision(g.item, g.verdict)
        BY <3>1, <4>2, <4>3 DEF Decision
      <4>5. QED
        BY <1>6, <3>1, <3>3, <4>4 DEF HandlerFits
    <3>4. QED
      BY <1>1, <3>1, <3>2, <3>3 DEF HandlerFits
  <2>2. \A v \in Workers : handler'[v].pc # "idle" => v # w /\ handler'[v] = handler[v]
    BY <1>7 DEF IdleHandler
  <2>3. QED
    BY <2>1, <2>2 DEF RInv, HandlersFit
<1>13. DecisionMatchesItems'
  <2> SUFFICES ASSUME NEW t \in Sessions \ raced'
               PROVE  /\ status'[t] \in Decided
                            <=> ItemsOf(t) # {} /\ \A j \in ItemsOf(t) : outcome'[j] # None
                      /\ status'[t] = "completed"
                            <=> ItemsOf(t) # {} /\ \A j \in ItemsOf(t) : outcome'[j] = "pass"
    BY <1>1 DEF DecisionMatchesItems, ItemsOf
  <2>1. t \notin raced
    BY <1>6
  <2>2. CASE t # s
    <3>1. status'[t] = status[t] /\ \A j \in ItemsOf(t) : outcome'[j] = outcome[j]
      BY <1>1, <1>2, <1>4, <1>5, <2>2, Types DEF ItemsOf
    <3>2. QED
      BY <2>1, <3>1 DEF RInv, DecisionMatchesItems
  <2>3. CASE t = s
    <3>1. h.decision = Decision(i, h.verdict)
      BY <1>1, <1>2, <2>1, <2>3 DEF HandlerFits
    <3>2. /\ \A j \in ItemsOf(s) \ {i} : outcome'[j] = outcome[j]
          /\ outcome'[i] = h.verdict /\ h.verdict # None
      BY <1>1, <1>2, <1>4, Types, Settings DEF ItemsOf
    <3>3. CASE h.decision = None
      <4>1. PICK j \in ItemsOf(s) \ {i} : outcome[j] = None
        BY <3>1, <3>3, Settings DEF Decision, Decided
      <4>2. status'[s] = status[s]
        BY <1>2, <1>5, <3>3
      <4>3. status[s] \notin Decided /\ status[s] # "completed"
        BY <2>1, <2>3, <4>1 DEF RInv, DecisionMatchesItems, Decided
      <4>4. j \in ItemsOf(s) /\ outcome'[j] = None /\ None # "pass"
        BY <3>2, <4>1, Settings DEF Verdicts
      <4>5. QED
        BY <2>3, <4>2, <4>3, <4>4
    <3>4. CASE h.decision # None
      <4>1. \A j \in ItemsOf(s) \ {i} : outcome[j] # None
        BY <3>1, <3>4 DEF Decision
      <4>2. h.decision = "completed"
               <=> (h.verdict = "pass" /\ \A j \in ItemsOf(s) \ {i} : outcome[j] = "pass")
        BY <3>1, <4>1 DEF Decision
      <4>3. status'[t] = h.decision
        BY <1>5, <2>3, <3>4
      <4>4. h.decision \in Decided /\ i \in ItemsOf(s)
        BY <1>2, <3>4
      <4>5. \A j \in ItemsOf(s) : outcome'[j] # None
        BY <3>2, <4>1
      <4>6. (h.verdict = "pass" /\ \A j \in ItemsOf(s) \ {i} : outcome[j] = "pass")
               <=> \A j \in ItemsOf(s) : outcome'[j] = "pass"
        BY <3>2, <4>4
      <4>7. QED
        BY <2>3, <4>2, <4>3, <4>4, <4>5, <4>6
    <3>5. QED
      BY <3>3, <3>4
  <2>4. QED
    BY <2>2, <2>3
<1>14. QED
  BY <1>8, <1>9, <1>10, <1>11, <1>12, <1>13 DEF RInv

LEMMA EndUngradedInv == ASSUME RInv, NEW k \in Keys, EndUngraded(k) PROVE RInv'
<1>1. /\ TypeOK /\ run[k] = "open" /\ ~InHand(k)
      /\ UNCHANGED <<status, items, link, outcome, made, request, handler, retrying, raced, crossed>>
  BY DEF EndUngraded, RInv
<1>2. run'[k] = "ungraded" /\ \A l \in Keys \ {k} : run'[l] = run[l]
  BY <1>1, Types DEF EndUngraded
<1>3. TypeOK'
  <2>1. run' \in [Keys -> Verdicts \cup {"none", "open", "ungraded"}]
    BY <1>1, Types DEF EndUngraded
  <2>2. QED
    BY <1>1, <2>1, Types DEF TypeOK
<1>4. LinksFit'
  <2>1. \A i \in Item : link[i] # None => link[i] \in Keys
    BY <1>1, Types
  <2>2. \A l \in Keys : /\ run[l] # "none" => run'[l] # "none"
                        /\ run[l] \in Verdicts => run'[l] \in Verdicts
    BY <1>1, <1>2 DEF Verdicts
  <2>3. QED
    BY <1>1, <2>1, <2>2 DEF RInv, LinksFit
<1>5. ItemsFit' /\ RequestsFit' /\ DecisionMatchesItems'
  BY <1>1 DEF RInv, ItemsFit, ItemsOf, RequestsFit, RequestFits, DecisionMatchesItems
<1>6. HandlersFit'
  <2>1. ASSUME NEW v \in Workers, HandlerFits(handler[v]) PROVE HandlerFits(handler[v])'
    <3>1. handler[v].key \in Keys \ {k}
      BY <1>1, <2>1 DEF HandlerFits, InHand
    <3>2. QED
      BY <1>1, <1>2, <2>1, <3>1 DEF HandlerFits, Decision, ItemsOf
  <2>2. QED
    BY <1>1, <2>1 DEF RInv, HandlersFit
<1>7. QED
  BY <1>3, <1>4, <1>5, <1>6 DEF RInv
-----------------------------------------------------------------------------
LEMMA NextInv == RInv /\ [Next]_vars => RInv'
<1> SUFFICES ASSUME RInv, [Next]_vars PROVE RInv'
  OBVIOUS
<1>1. ASSUME NEW s \in Sessions, NEW S \in SUBSET Concepts, CreateSession(s, S) PROVE RInv'
  BY <1>1, CreateSessionInv
<1>2. ASSUME NEW s \in Sessions, NEW failed \in Sessions, RetryCreate(s, failed) PROVE RInv'
  BY <1>2, RetryCreateInv
<1>3. ASSUME NEW s \in Sessions, RetryItems(s) PROVE RInv'
  BY <1>3, RetryItemsInv
<1>4. ASSUME NEW q \in Requests, NEW i \in Item, NEW k \in Keys, AnswerRead(q, i, k) PROVE RInv'
  BY <1>4, AnswerReadInv
<1>5. ASSUME NEW q \in Requests, AnswerWrite(q) \/ AnswerAbort(q) PROVE RInv'
  BY <1>5, AnswerWriteInv, AnswerAbortInv
<1>6. ASSUME NEW w \in Workers, WorkerStep(w) PROVE RInv'
  BY <1>6, EvaluateBeginInv, EvaluateSaveInv, EvaluateCommitInv DEF WorkerStep
<1>7. ASSUME NEW k \in Keys, EndUngraded(k) PROVE RInv'
  BY <1>7, EndUngradedInv
<1>8. CASE UNCHANGED vars
  <2>1. TypeOK' /\ ItemsFit' /\ LinksFit'
    BY <1>8 DEF RInv, vars, TypeOK, ItemsFit, ItemsOf, LinksFit
  <2>2. RequestsFit' /\ DecisionMatchesItems'
    BY <1>8 DEF RInv, vars, ItemsOf, RequestsFit, RequestFits, DecisionMatchesItems
  <2>3. HandlersFit'
    BY <1>8 DEF RInv, vars, HandlersFit, HandlerFits, Decision, ItemsOf
  <2>4. QED
    BY <2>1, <2>2, <2>3 DEF RInv
<1>9. QED
  BY <1>1, <1>2, <1>3, <1>4, <1>5, <1>6, <1>7, <1>8 DEF Next

LEMMA AlwaysRInv == Spec => []RInv
BY InitInv, NextInv, PTL DEF Spec
-----------------------------------------------------------------------------
\* Rows, requests and transactions keep the shapes the code gives them.
THEOREM ReviewTypes == Spec => []TypeOK
<1>1. RInv => TypeOK
  BY DEF RInv
<1>2. QED
  BY <1>1, AlwaysRInv, PTL

\* A session is decided exactly when all its items have an outcome, completed
\* exactly when all have passed, unless evaluations of it overlapped: a
\* decision is taken from outcomes that are still the committed ones when it
\* is written (evaluate_session_completion).
THEOREM SessionMatchesItems == Spec => []DecisionMatchesItems
<1>1. RInv => DecisionMatchesItems
  BY DEF RInv
<1>2. QED
  BY <1>1, AlwaysRInv, PTL

\* An item that was answered is not submitted and run again, whatever keys the
\* answers carry, unless two answers to it overlapped (submit_item_answer).
THEOREM ItemRunOnce == Spec => []ItemRunsOnce
<1>1. RInv => ItemRunsOnce
  <2> SUFFICES ASSUME RInv, NEW i \in Item \ crossed PROVE Cardinality(RunsFor(i)) <= 1
    BY DEF ItemRunsOnce
  <2>1. \A k, l \in RunsFor(i) : k = l
    BY DEF RInv, LinksFit, RunsFor
  <2>2. CASE RunsFor(i) = {}
    BY <2>2, FS_EmptySet
  <2>3. ASSUME NEW k \in RunsFor(i) PROVE Cardinality(RunsFor(i)) <= 1
    <3>1. RunsFor(i) = {k}
      BY <2>1
    <3>2. Cardinality({k}) = 1
      BY FS_Singleton
    <3>3. QED
      BY <3>1, <3>2
  <2>4. QED
    BY <2>2, <2>3
<1>2. QED
  BY <1>1, AlwaysRInv, PTL

\* A completed session stays completed: the items of one whose answers never
\* overlapped have had their one evaluation, and no other can decide it again.
THEOREM CompletionStays == Spec => CompletedIsFinal
<1> DEFINE Stays(s) == \/ status'[s] = "completed"
                       \/ s \in raced'
                       \/ ItemsOf(s) \cap crossed # {}
<1>1. RInv /\ [Next]_vars => [\A s \in Sessions : status[s] = "completed" => Stays(s)]_vars
  <2> SUFFICES ASSUME RInv, Next, NEW s \in Sessions, status[s] = "completed" PROVE Stays(s)
    BY DEF vars
  <2>1. ASSUME NEW w \in Workers, EvaluateCommit(w), status'[s] # status[s],
               s \notin raced', ItemsOf(s) \cap crossed = {}
        PROVE  FALSE
    <3> DEFINE h == handler[w]
    <3>1. /\ TypeOK /\ HandlerFits(h) /\ h.item \in items /\ h.item \in Item /\ h.item[1] = s
          /\ raced \subseteq raced'
      BY <2>1, Types, ItemSession DEF RInv, EvaluateCommit, HandlersFit, HandlerFits
    <3>2. h.item \notin crossed /\ s \notin raced /\ h.item \in ItemsOf(s)
      BY <2>1, <3>1 DEF ItemsOf
    <3>3. link[h.item] = h.key /\ run[h.key] = "open"
      BY <3>1, <3>2 DEF HandlerFits
    <3>4. outcome[h.item] = None
      BY <3>1, <3>2, <3>3 DEF RInv, LinksFit, Verdicts
    <3>5. outcome[h.item] # None
      BY <3>2 DEF RInv, DecisionMatchesItems, Decided
    <3>6. QED
      BY <3>4, <3>5
  <2>2. ASSUME NEW t \in Sessions, status[t] = "none", status' = [status EXCEPT ![t] = "active"]
        PROVE  status'[s] = status[s]
    BY <2>2, Types DEF RInv
  <2>3. ASSUME UNCHANGED status PROVE Stays(s)
    BY <2>3
  <2>4. \/ UNCHANGED status
        \/ \E w \in Workers : EvaluateCommit(w)
        \/ \E t \in Sessions : status[t] = "none" /\ status' = [status EXCEPT ![t] = "active"]
    BY DEF Next, CreateSession, RetryCreate, Fresh, RetryItems, AnswerRead, AnswerWrite,
           AnswerAbort, WorkerStep, EvaluateBegin, EvaluateSave, EndUngraded
  <2>5. QED
    BY <2>1, <2>2, <2>3, <2>4
<1>2. QED
  BY <1>1, AlwaysRInv, PTL DEF Spec, CompletedIsFinal
=============================================================================
