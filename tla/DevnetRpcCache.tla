--------------------------- MODULE DevnetRpcCache ---------------------------
(***************************************************************************)
(* The caching JSON-RPC proxy between the site and the devnet endpoint:    *)
(* createDevnetRpcCache in the API server, and the same code inlined in    *)
(* the site's development server.                                          *)
(*                                                                         *)
(* handle() runs without interruption up to its first await, and when a    *)
(* fetch settles its `finally' and every handler awaiting it run before    *)
(* the event loop takes another request: each of the two is one action.    *)
(* A caller has one request at a time, and a fetch is named by the caller  *)
(* whose request started it.                                               *)
(***************************************************************************)
EXTENDS Naturals, FiniteSets

CONSTANTS
  Callers,     \* HTTP requests being served at the same time
  Keys,        \* JSON.stringify({method, params}) of well-formed requests
  NoKey,       \* stands for the key of a body that is not a JSON-RPC call
  Ids,         \* JSON-RPC ids
  NoId,        \* the id of a body that is not a JSON object
  Ttl,         \* Ttl[k]: RPC_TTL_MS of the method of k, or DEFAULT_TTL_MS
  Statuses,    \* HTTP statuses the endpoint answers with
  MaxNow,      \* bound on the clock
  MaxSlot      \* bound on the slot

ASSUME CacheConstants ==
  /\ NoKey \notin Keys /\ NoId \notin Ids
  /\ Ttl \in [Keys -> Nat \ {0}]
  /\ Statuses \subseteq Nat
  /\ MaxNow \in Nat /\ MaxSlot \in Nat

BadGateway == 502

VARIABLES
  now,        \* Date.now()
  slot,       \* how far the chain has got at the endpoint
  cache,      \* cache[k]: the entry of key k
  inflight,   \* inflight[k]: the fetch that callers asking for k share
  fetches,    \* fetches[f]: a request to the endpoint that has not settled
  waiting,    \* waiting[c]: the request c has sent and the fetch it awaits
  answers,    \* the responses that the last step sent
  newest      \* history: the highest slot anyone was shown for each key

vars == <<now, slot, cache, inflight, fetches, waiting, answers, newest>>

\* What the endpoint's response says: the slot it was computed at and the id
\* it carries.
Body == [slot: 0 .. MaxSlot, id: Ids \cup {NoId}]

CacheEntry ==
  [body: Body, status: Statuses, expiresAt: Nat, arrived: 0 .. MaxNow]

\* A fetch has reached the endpoint when `replies' is not empty.
Fetch ==
  [key: Keys \cup {NoKey}, id: Ids \cup {NoId},
   replies: {{}} \cup {{r} : r \in [body: Body, status: Statuses]}]

Waiting == [key: Keys \cup {NoKey}, id: Ids \cup {NoId}, on: Callers]

\* `arrived' is when the body came from the endpoint, `at' when it was served.
Answer ==
  [to: Callers, key: Keys \cup {NoKey}, asked: Ids \cup {NoId}, how: {"hit", "miss", "bypass"},
   status: Statuses \cup {BadGateway}, body: Body, upstream: BOOLEAN,
   arrived: 0 .. MaxNow, at: 0 .. MaxNow]

-----------------------------------------------------------------------------
Init ==
  /\ now = 0
  /\ slot = 0
  /\ cache = [k \in {} |-> k]
  /\ inflight = [k \in {} |-> k]
  /\ fetches = [f \in {} |-> f]
  /\ waiting = [c \in {} |-> c]
  /\ answers = {}
  /\ newest = [k \in Keys |-> 0]

Set(m, k, v) == [x \in DOMAIN m \cup {k} |-> IF x = k THEN v ELSE m[x]]
Drop(m, S) == [x \in DOMAIN m \ S |-> m[x]]

\* This step sends the responses A.
Send(A) ==
  /\ answers' = A
  /\ newest' = [k \in Keys |->
       IF \E a \in A : a.upstream /\ a.key = k /\ a.body.slot > newest[k]
       THEN (CHOOSE a \in A : a.upstream /\ a.key = k).body.slot
       ELSE newest[k]]

Tick == now < MaxNow /\ now' = now + 1
        /\ Send({})
        /\ UNCHANGED <<slot, cache, inflight, fetches, waiting>>

ChainAdvances == slot < MaxSlot /\ slot' = slot + 1
        /\ Send({})
        /\ UNCHANGED <<now, cache, inflight, fetches, waiting>>

\* Mutation: the upstream's body is returned as it came.
WriteBodyVerbatim(body, id) == body

\* writeBody: a JSON object gets the id of the request it answers; another
\* body is returned as it came.
WriteBody(body, id) == IF body.id = NoId THEN body ELSE [body EXCEPT !.id = id]

\* Mutation: an entry is served at the instant it expires, too.
LiveAtExpiry(k) == k \in DOMAIN cache /\ cache[k].expiresAt >= now

Live(k) == k \in DOMAIN cache /\ cache[k].expiresAt > now

\* Mutation: the fetch in flight is not looked up.
NothingShared(k) == FALSE

\* A fetch for k is in flight, to be shared.
Shared(k) == k \in DOMAIN inflight

\* A live cache entry answers at once.
Hit(c, k, id) ==
  /\ Live(k)
  /\ Send({[to |-> c, key |-> k, asked |-> id, how |-> "hit", status |-> cache[k].status,
        body |-> WriteBody(cache[k].body, id), upstream |-> TRUE,
        arrived |-> cache[k].arrived, at |-> now]})
  /\ UNCHANGED <<now, slot, cache, inflight, fetches, waiting>>

\* Without one the caller awaits the fetch in flight for the key.
Join(c, k, id) ==
  /\ ~Live(k) /\ Shared(k)
  /\ waiting' = Set(waiting, c, [key |-> k, id |-> id, on |-> inflight[k]])
  /\ Send({})
  /\ UNCHANGED <<now, slot, cache, inflight, fetches>>

\* Without either it starts one and awaits it.
Start(c, k, id) ==
  /\ ~Live(k) /\ ~Shared(k)
  /\ fetches' = Set(fetches, c, [key |-> k, id |-> id, replies |-> {}])
  /\ inflight' = Set(inflight, k, c)
  /\ waiting' = Set(waiting, c, [key |-> k, id |-> id, on |-> c])
  /\ Send({})
  /\ UNCHANGED <<now, slot, cache>>

\* A body that is not a JSON-RPC call goes to the endpoint verbatim; whatever
\* id it has, the proxy neither reads nor writes it.
Bypass(c) ==
  /\ fetches' = Set(fetches, c, [key |-> NoKey, id |-> NoId, replies |-> {}])
  /\ waiting' = Set(waiting, c, [key |-> NoKey, id |-> NoId, on |-> c])
  /\ Send({})
  /\ UNCHANGED <<now, slot, cache, inflight>>

\* A caller with no request pending sends one.
handle(c) ==
  /\ c \notin DOMAIN waiting
  /\ \/ \E k \in Keys, id \in Ids : Hit(c, k, id) \/ Join(c, k, id) \/ Start(c, k, id)
     \/ Bypass(c)

\* The endpoint computes its response to fetch f.
Reply(f) ==
  /\ f \in DOMAIN fetches /\ fetches[f].replies = {}
  /\ \E status \in Statuses, id \in {fetches[f].id, NoId} :
       fetches' = [fetches EXCEPT ![f].replies =
                     {[body |-> [slot |-> slot, id |-> id], status |-> status]}]
  /\ Send({})
  /\ UNCHANGED <<now, slot, cache, inflight, waiting>>

\* Mutation: a rate-limit answer is kept, too.
CacheableBelow500(status) == status < 500

Cacheable(status) == status < 500 /\ status # 429

\* Mutation: the fetch stays registered when it is rejected (`then' instead
\* of `finally').
ForgetOnSuccess(f, ok) ==
  IF ok THEN Drop(inflight, {fetches[f].key}) ELSE inflight

\* The `finally' of fetch f.
Forget(f, ok) == Drop(inflight, {fetches[f].key})

\* The handlers that await fetch f.
Waiters(f) == {c \in DOMAIN waiting : waiting[c].on = f}

\* Everyone awaiting fetch f goes on.
Release(f) == waiting' = Drop(waiting, Waiters(f))

AnswerTo(c, f, status, body, upstream) ==
  [to |-> c, key |-> waiting[c].key, asked |-> waiting[c].id,
   how |-> IF fetches[f].key = NoKey THEN "bypass" ELSE "miss",
   status |-> status, body |-> body, upstream |-> upstream,
   arrived |-> now, at |-> now]

\* The response to fetch f arrives.
Arrive(f) ==
  /\ f \in DOMAIN fetches
  /\ \E r \in fetches[f].replies :
       /\ IF fetches[f].key # NoKey /\ Cacheable(r.status)
          THEN cache' = Set(cache, fetches[f].key,
                 [body |-> r.body, status |-> r.status,
                  expiresAt |-> now + Ttl[fetches[f].key], arrived |-> now])
          ELSE UNCHANGED cache
       /\ Send({AnswerTo(c, f, r.status,
                  IF fetches[f].key = NoKey THEN r.body
                  ELSE WriteBody(r.body, waiting[c].id), TRUE) : c \in Waiters(f)})
  /\ Release(f)
  /\ inflight' = Forget(f, TRUE)
  /\ fetches' = Drop(fetches, {f})
  /\ UNCHANGED <<now, slot>>

\* Fetch f is rejected: the connection fails, before or after the endpoint
\* has replied.  Each waiter gets a 502 of the proxy's own making, with its
\* id, except that a bypass has none.
Reject(f) ==
  /\ f \in DOMAIN fetches
  /\ Send({AnswerTo(c, f, BadGateway,
             [slot |-> 0, id |-> waiting[c].id], FALSE) : c \in Waiters(f)})
  /\ Release(f)
  /\ inflight' = Forget(f, FALSE)
  /\ fetches' = Drop(fetches, {f})
  /\ UNCHANGED <<now, slot, cache>>

Next ==
  \/ Tick \/ ChainAdvances
  \/ \E c \in Callers : handle(c)
  \/ \E f \in Callers : Reply(f) \/ Arrive(f) \/ Reject(f)

\* A fetch settles in the end, one way or the other: the runtime's HTTP client
\* rejects it when the endpoint stays silent.
Fairness == \A f \in Callers : WF_vars(Arrive(f) \/ Reject(f))

Spec == Init /\ [][Next]_vars
FairSpec == Spec /\ Fairness

-----------------------------------------------------------------------------
\* Every value has its type, and a registered fetch is always an open one.
TypeOK ==
  /\ now \in 0 .. MaxNow /\ slot \in 0 .. MaxSlot
  /\ DOMAIN cache \subseteq Keys /\ \A k \in DOMAIN cache : cache[k] \in CacheEntry
  /\ DOMAIN inflight \subseteq Keys
  /\ \A k \in DOMAIN inflight : inflight[k] \in DOMAIN fetches
  /\ DOMAIN fetches \subseteq Callers /\ \A f \in DOMAIN fetches : fetches[f] \in Fetch
  /\ DOMAIN waiting \subseteq Callers /\ \A c \in DOMAIN waiting : waiting[c] \in Waiting
  /\ \A a \in answers : a \in Answer
  /\ newest \in [Keys -> 0 .. MaxSlot]

\* Single flight: however many callers ask for a key at once, the endpoint
\* sees one request for it, and everyone who waits, waits for that one.
OneFetchPerKey ==
  /\ \A f, g \in DOMAIN fetches :
       fetches[f].key = fetches[g].key /\ fetches[f].key # NoKey => f = g
  /\ \A c \in DOMAIN waiting :
       /\ waiting[c].on \in DOMAIN fetches
       /\ fetches[waiting[c].on].key = waiting[c].key

\* A hit is younger than the lifetime of its method, and is never a failure
\* or a rate-limit answer: those are asked again.
HitsAreSound ==
  \A a \in answers : a.how = "hit" =>
    /\ a.at - a.arrived < Ttl[a.key]
    /\ a.status < 500 /\ a.status # 429

\* However requests are shared, each caller's JSON answer has its own id.
IdsLineUp ==
  \A a \in answers : a.body.id \in {a.asked, NoId}

\* Sharing and caching never take a page back in time: an answer for a key
\* that came from the endpoint is no older than any given for that key
\* before, to whomever it went.
AnswersNeverGoBack ==
  \A a \in answers : a.upstream /\ a.key # NoKey => a.body.slot >= newest[a.key]

\* The answers of the last step that show something of the chain.
shown == {[key |-> a.key, slot |-> a.body.slot] :
            a \in {b \in answers : b.upstream /\ b.key # NoKey}}

Reads == INSTANCE OrderedReads WITH answers <- shown

\* Lifetimes, sharing, failures and ids left aside, the proxy implements an
\* endpoint whose answers for a key never go back in time.
ImplementsOrderedReads == Reads!Spec

\* No caller waits for ever: a rejected fetch answers everyone who shared it
\* and leaves nothing behind for later callers to hang on.
EveryRequestAnswered ==
  \A c \in Callers : c \in DOMAIN waiting ~> c \notin DOMAIN waiting

=============================================================================
