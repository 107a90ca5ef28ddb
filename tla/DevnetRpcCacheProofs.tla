------------------------ MODULE DevnetRpcCacheProofs ------------------------
(***************************************************************************)
(* Theorems of DevnetRpcCache, for any number of callers and keys, every   *)
(* choice of lifetimes and statuses, and clocks that run for any time.     *)
(***************************************************************************)
EXTENDS DevnetRpcCache, TLAPS

\* The table of fetches in flight lists every open fetch that has a key, under
\* its key and no other; who started a fetch awaits it.
TableExact ==
  /\ \A k \in DOMAIN inflight :
       inflight[k] \in DOMAIN fetches /\ fetches[inflight[k]].key = k
  /\ \A f \in DOMAIN fetches :
       /\ f \in DOMAIN waiting /\ waiting[f].on = f
       /\ fetches[f].key # NoKey =>
            fetches[f].key \in DOMAIN inflight /\ inflight[fetches[f].key] = f
  /\ \A c \in DOMAIN waiting :
       waiting[c].on \in DOMAIN fetches /\ fetches[waiting[c].on].key = waiting[c].key

\* While an entry lives nobody fetches its key, so it stays the newest there is.
EntriesNewest ==
  \A k \in DOMAIN cache :
    /\ cache[k].expiresAt = cache[k].arrived + Ttl[k]
    /\ Cacheable(cache[k].status)
    /\ cache[k].body.slot <= slot
    /\ Live(k) => /\ newest[k] <= cache[k].body.slot
                  /\ \A f \in DOMAIN fetches : fetches[f].key # k

\* A reply under way is no older than what was shown for its key before it, and
\* carries the id it was asked with.
RepliesNewest ==
  \A f \in DOMAIN fetches :
    /\ fetches[f].key = NoKey => fetches[f].id = NoId
    /\ \A r \in fetches[f].replies :
         /\ r.body.slot <= slot /\ r.body.id \in {fetches[f].id, NoId}
         /\ fetches[f].key # NoKey => newest[fetches[f].key] <= r.body.slot

ShownReached == \A k \in Keys : newest[k] <= slot

AnswersSound == HitsAreSound /\ IdsLineUp /\ AnswersNeverGoBack

IInv ==
  /\ TypeOK /\ TableExact /\ EntriesNewest /\ RepliesNewest /\ ShownReached
  /\ AnswersSound

-----------------------------------------------------------------------------
\* A step that sends nothing shows nothing.
LEMMA SendNothing ==
  ASSUME TypeOK, Send({})
  PROVE  answers' = {} /\ newest' = newest
<1>1. newest' = [k \in Keys |-> newest[k]]
  BY DEF Send
<1>2. newest = [k \in Keys |-> newest[k]]
  BY DEF TypeOK
<1> QED BY <1>1, <1>2 DEF Send

\* When all answers for key k show one slot s, not behind the newest shown, s is
\* the newest afterwards, or nothing was shown for k.
LEMMA SendShows ==
  ASSUME TypeOK, NEW A, Send(A), NEW k \in Keys, NEW s \in Nat, newest[k] <= s,
         \A a \in A : a.upstream /\ a.key = k => a.body.slot = s
  PROVE  /\ newest'[k] \in {newest[k], s}
         /\ \A a \in A : a.upstream /\ a.key = k => newest'[k] = s
<1>1. newest[k] \in Nat
  BY CacheConstants DEF TypeOK
<1>2. newest'[k] = IF \E a \in A : a.upstream /\ a.key = k /\ a.body.slot > newest[k]
                   THEN (CHOOSE a \in A : a.upstream /\ a.key = k).body.slot
                   ELSE newest[k]
  BY DEF Send
<1>3. ASSUME NEW b \in A, b.upstream, b.key = k
      PROVE  (CHOOSE a \in A : a.upstream /\ a.key = k).body.slot = s
  <2> DEFINE a0 == CHOOSE a \in A : a.upstream /\ a.key = k
  <2>1. a0 \in A /\ a0.upstream /\ a0.key = k
    BY <1>3
  <2> QED BY <2>1
<1>4. CASE \E a \in A : a.upstream /\ a.key = k /\ a.body.slot > newest[k]
  BY <1>2, <1>3, <1>4
<1>5. CASE ~ \E a \in A : a.upstream /\ a.key = k /\ a.body.slot > newest[k]
  <2>1. newest'[k] = newest[k]
    BY <1>2, <1>5
  <2>2. ASSUME NEW a \in A, a.upstream, a.key = k PROVE newest[k] = s
    <3>1. a.body.slot = s /\ ~(s > newest[k])
      BY <1>5, <2>2
    <3> QED BY <1>1, <3>1
  <2> QED BY <2>1, <2>2
<1> QED BY <1>4, <1>5

\* Nothing is shown for a key without an answer.
LEMMA SendSkips ==
  ASSUME TypeOK, NEW A, Send(A), NEW k \in Keys,
         \A a \in A : ~(a.upstream /\ a.key = k)
  PROVE  newest'[k] = newest[k]
BY DEF Send

\* Whoever awaits fetch f asked for its key.
LEMMA WaitersKey ==
  ASSUME TableExact, NEW f, NEW c \in Waiters(f)
  PROVE  c \in DOMAIN waiting /\ waiting[c].key = fetches[f].key
BY DEF Waiters, TableExact

\* A reply has the type of one.
LEMMA ReplyType ==
  ASSUME TypeOK, NEW f \in DOMAIN fetches, NEW r \in fetches[f].replies
  PROVE  r \in [body: Body, status: Statuses]
BY DEF TypeOK, Fetch

LEMMA InitIInv == Init => IInv
<1> SUFFICES ASSUME Init PROVE IInv
  OBVIOUS
<1>1. /\ DOMAIN cache = {} /\ DOMAIN inflight = {} /\ DOMAIN fetches = {}
      /\ DOMAIN waiting = {} /\ answers = {} /\ now = 0 /\ slot = 0
      /\ newest = [k \in Keys |-> 0]
  BY DEF Init
<1>2. TypeOK
  BY <1>1, CacheConstants DEF TypeOK
<1> QED BY <1>1, <1>2
     DEF IInv, TableExact, EntriesNewest, RepliesNewest, ShownReached,
         AnswersSound, HitsAreSound, IdsLineUp, AnswersNeverGoBack

-----------------------------------------------------------------------------
\* Time passes and the chain advances: entries only die, bounds only grow.
LEMMA ClocksIInv == IInv /\ (Tick \/ ChainAdvances) => IInv'
<1> SUFFICES ASSUME IInv, Tick \/ ChainAdvances PROVE IInv'
  OBVIOUS
<1>1. /\ answers' = {} /\ newest' = newest
      /\ cache' = cache /\ inflight' = inflight /\ fetches' = fetches
      /\ waiting' = waiting
  BY SendNothing DEF IInv, Tick, ChainAdvances
<1>2. /\ now \in Nat /\ now' \in 0 .. MaxNow /\ now <= now'
      /\ slot \in Nat /\ slot' \in 0 .. MaxSlot /\ slot <= slot'
  BY CacheConstants DEF IInv, TypeOK, Tick, ChainAdvances
<1>3. TypeOK'
  BY <1>1, <1>2 DEF IInv, TypeOK
<1>4. TableExact'
  BY <1>1 DEF IInv, TableExact
<1>5. EntriesNewest'
  <2>1. \A k \in DOMAIN cache : cache[k].expiresAt \in Nat /\ cache[k].body.slot \in Nat
    BY CacheConstants DEF IInv, TypeOK, CacheEntry, Body
  <2>2. \A k : Live(k)' => Live(k)
    BY <1>1, <1>2, <2>1 DEF Live
  <2>3. \A k \in DOMAIN cache : cache[k].body.slot <= slot'
    BY <1>2, <2>1 DEF IInv, EntriesNewest
  <2> QED BY <1>1, <2>2, <2>3 DEF IInv, EntriesNewest
<1>6. RepliesNewest'
  <2>1. ASSUME NEW f \in DOMAIN fetches, NEW r \in fetches[f].replies
        PROVE  r.body.slot <= slot'
    <3>1. r.body.slot \in Nat
      BY ReplyType, CacheConstants DEF IInv, Body
    <3> QED BY <1>2, <3>1 DEF IInv, RepliesNewest
  <2> QED BY <1>1, <2>1 DEF IInv, RepliesNewest
<1>7. ShownReached'
  BY <1>1, <1>2, CacheConstants DEF IInv, ShownReached, TypeOK
<1>8. AnswersSound'
  BY <1>1 DEF AnswersSound, HitsAreSound, IdsLineUp, AnswersNeverGoBack
<1> QED BY <1>3, <1>4, <1>5, <1>6, <1>7, <1>8 DEF IInv

-----------------------------------------------------------------------------
LEMMA HitIInv ==
  ASSUME IInv, NEW c \in Callers, NEW k \in Keys, NEW id \in Ids, Hit(c, k, id)
  PROVE  IInv'
<1> DEFINE a == [to |-> c, key |-> k, asked |-> id, how |-> "hit",
                 status |-> cache[k].status,
                 body |-> WriteBody(cache[k].body, id), upstream |-> TRUE,
                 arrived |-> cache[k].arrived, at |-> now]
           s == cache[k].body.slot
<1>1. /\ Live(k) /\ k \in DOMAIN cache /\ cache[k].expiresAt > now
      /\ Send({a}) /\ answers' = {a}
      /\ now' = now /\ slot' = slot /\ cache' = cache /\ inflight' = inflight
      /\ fetches' = fetches /\ waiting' = waiting
  BY DEF Hit, Live, Send
<1>2. /\ cache[k] \in CacheEntry /\ cache[k].body \in Body
      /\ s \in 0 .. MaxSlot /\ s \in Nat
      /\ cache[k].arrived \in 0 .. MaxNow /\ cache[k].arrived \in Nat
      /\ cache[k].expiresAt \in Nat /\ now \in Nat /\ now \in 0 .. MaxNow
      /\ cache[k].status \in Statuses
  BY <1>1, CacheConstants DEF IInv, TypeOK, CacheEntry, Body
<1>3. /\ newest[k] <= s /\ s <= slot
      /\ \A f \in DOMAIN fetches : fetches[f].key # k
      /\ cache[k].expiresAt = cache[k].arrived + Ttl[k]
      /\ Cacheable(cache[k].status)
  BY <1>1 DEF IInv, EntriesNewest
<1>4. /\ WriteBody(cache[k].body, id) \in Body
      /\ WriteBody(cache[k].body, id).slot = s
      /\ WriteBody(cache[k].body, id).id \in {id, NoId}
  BY <1>2 DEF WriteBody, Body
<1>5. a \in Answer
  BY <1>2, <1>4 DEF Answer
<1>6. /\ a.key = k /\ a.upstream /\ a.body.slot = s /\ a.how = "hit" /\ a.asked = id
      /\ a.body.id \in {id, NoId} /\ a.at = now /\ a.arrived = cache[k].arrived
      /\ a.status = cache[k].status
  BY <1>4
<1> HIDE DEF a, s
<1>7. newest'[k] = s
  BY <1>1, <1>2, <1>3, <1>6, SendShows DEF IInv
<1>8. \A x \in Keys : x # k => newest'[x] = newest[x]
  BY <1>1, <1>6, SendSkips DEF IInv
<1>9. TypeOK'
  <2>1. newest' = [x \in Keys |-> newest'[x]]
    BY <1>1 DEF Send
  <2>2. newest' \in [Keys -> 0 .. MaxSlot]
    BY <1>2, <1>7, <1>8, <2>1 DEF IInv, TypeOK
  <2> QED BY <1>1, <1>5, <2>2 DEF IInv, TypeOK
<1>10. TableExact'
  BY <1>1 DEF IInv, TableExact
<1>11. EntriesNewest'
  <2>1. \A x : Live(x)' <=> Live(x)
    BY <1>1 DEF Live
  <2>2. DOMAIN cache \subseteq Keys
    BY DEF IInv, TypeOK
  <2>3. \A x \in DOMAIN cache : Live(x) => newest'[x] <= cache[x].body.slot
    BY <1>2, <1>7, <1>8, <2>2 DEF IInv, EntriesNewest, s
  <2> QED BY <1>1, <2>1, <2>3 DEF IInv, EntriesNewest
<1>12. RepliesNewest'
  <2>1. \A f \in DOMAIN fetches : fetches[f].key # NoKey =>
          fetches[f].key \in Keys /\ newest'[fetches[f].key] = newest[fetches[f].key]
    BY <1>3, <1>8 DEF IInv, TypeOK, Fetch
  <2> QED BY <1>1, <2>1 DEF IInv, RepliesNewest
<1>13. ShownReached'
  BY <1>1, <1>3, <1>7, <1>8 DEF IInv, ShownReached
<1>14. AnswersSound'
  <2>1. HitsAreSound'
    BY <1>1, <1>2, <1>3, <1>6, CacheConstants DEF HitsAreSound, Cacheable
  <2>2. IdsLineUp'
    BY <1>1, <1>6 DEF IdsLineUp
  <2>3. AnswersNeverGoBack'
    BY <1>1, <1>2, <1>6, <1>7 DEF AnswersNeverGoBack
  <2> QED BY <2>1, <2>2, <2>3 DEF AnswersSound
<1> QED BY <1>9, <1>10, <1>11, <1>12, <1>13, <1>14 DEF IInv

-----------------------------------------------------------------------------
\* A caller who begins to wait, on a fetch there is or on one it opens.
LEMMA JoinIInv ==
  ASSUME IInv, NEW c \in Callers, c \notin DOMAIN waiting,
         NEW k \in Keys, NEW id \in Ids, Join(c, k, id)
  PROVE  IInv'
<1> DEFINE w == [key |-> k, id |-> id, on |-> inflight[k]]
<1>1. /\ answers' = {} /\ newest' = newest /\ waiting' = Set(waiting, c, w)
      /\ now' = now /\ slot' = slot /\ cache' = cache /\ inflight' = inflight
      /\ fetches' = fetches /\ k \in DOMAIN inflight
  BY SendNothing DEF IInv, Join, Shared
<1>2. /\ DOMAIN waiting' = DOMAIN waiting \cup {c} /\ waiting'[c] = w
      /\ \A x \in DOMAIN waiting : waiting'[x] = waiting[x]
  BY <1>1 DEF Set
<1>3. /\ inflight[k] \in DOMAIN fetches /\ fetches[inflight[k]].key = k
      /\ inflight[k] \in Callers
  BY <1>1 DEF IInv, TableExact, TypeOK
<1>4. w \in Waiting
  BY <1>3 DEF Waiting
<1>5. TypeOK'
  BY <1>1, <1>2, <1>4 DEF IInv, TypeOK
<1>6. TableExact'
  BY <1>1, <1>2, <1>3 DEF IInv, TableExact
<1>7. EntriesNewest' /\ RepliesNewest' /\ ShownReached'
  BY <1>1 DEF IInv, EntriesNewest, Live, RepliesNewest, ShownReached
<1>8. AnswersSound'
  BY <1>1 DEF AnswersSound, HitsAreSound, IdsLineUp, AnswersNeverGoBack
<1> QED BY <1>5, <1>6, <1>7, <1>8 DEF IInv

LEMMA StartIInv ==
  ASSUME IInv, NEW c \in Callers, c \notin DOMAIN waiting,
         NEW k \in Keys, NEW id \in Ids, Start(c, k, id)
  PROVE  IInv'
<1> DEFINE w == [key |-> k, id |-> id, on |-> c]
           f0 == [key |-> k, id |-> id, replies |-> {}]
<1>1. /\ answers' = {} /\ newest' = newest /\ waiting' = Set(waiting, c, w)
      /\ fetches' = Set(fetches, c, f0) /\ inflight' = Set(inflight, k, c)
      /\ now' = now /\ slot' = slot /\ cache' = cache
      /\ ~Live(k) /\ k \notin DOMAIN inflight
  BY SendNothing DEF IInv, Start, Shared
<1>2. /\ w \in Waiting /\ f0 \in Fetch
      /\ w.key = k /\ w.on = c /\ f0.key = k /\ f0.replies = {}
  BY DEF Waiting, Fetch
<1> HIDE DEF w, f0
<1>3. /\ DOMAIN waiting' = DOMAIN waiting \cup {c} /\ waiting'[c] = w
      /\ \A x \in DOMAIN waiting : waiting'[x] = waiting[x]
  BY <1>1 DEF Set
<1>4. c \notin DOMAIN fetches
  BY DEF IInv, TableExact
<1>5. /\ DOMAIN fetches' = DOMAIN fetches \cup {c} /\ fetches'[c] = f0
      /\ \A x \in DOMAIN fetches : fetches'[x] = fetches[x]
  BY <1>1, <1>4 DEF Set
<1>6. /\ DOMAIN inflight' = DOMAIN inflight \cup {k} /\ inflight'[k] = c
      /\ \A x \in DOMAIN inflight : inflight'[x] = inflight[x]
  BY <1>1 DEF Set
<1>7. k # NoKey
  BY CacheConstants
<1>8. TypeOK'
  BY <1>1, <1>2, <1>3, <1>5, <1>6 DEF IInv, TypeOK
<1>9. TableExact'
  BY <1>2, <1>3, <1>4, <1>5, <1>6 DEF IInv, TableExact
<1>10. EntriesNewest'
  <2>1. \A x : Live(x)' <=> Live(x)
    BY <1>1 DEF Live
  <2> QED BY <1>1, <1>2, <1>5, <2>1 DEF IInv, EntriesNewest
<1>11. RepliesNewest'
  BY <1>1, <1>2, <1>5, <1>7 DEF IInv, RepliesNewest
<1>12. ShownReached' /\ AnswersSound'
  BY <1>1 DEF IInv, ShownReached, AnswersSound, HitsAreSound, IdsLineUp, AnswersNeverGoBack
<1> QED BY <1>8, <1>9, <1>10, <1>11, <1>12 DEF IInv

LEMMA BypassIInv ==
  ASSUME IInv, NEW c \in Callers, c \notin DOMAIN waiting, Bypass(c)
  PROVE  IInv'
<1> DEFINE w == [key |-> NoKey, id |-> NoId, on |-> c]
           f0 == [key |-> NoKey, id |-> NoId, replies |-> {}]
<1>1. /\ answers' = {} /\ newest' = newest /\ waiting' = Set(waiting, c, w)
      /\ fetches' = Set(fetches, c, f0)
      /\ now' = now /\ slot' = slot /\ cache' = cache /\ inflight' = inflight
  BY SendNothing DEF IInv, Bypass
<1>2. /\ w \in Waiting /\ f0 \in Fetch /\ w.key = NoKey /\ w.on = c
      /\ f0.key = NoKey /\ f0.id = NoId /\ f0.replies = {}
  BY DEF Waiting, Fetch
<1> HIDE DEF w, f0
<1>3. /\ DOMAIN waiting' = DOMAIN waiting \cup {c} /\ waiting'[c] = w
      /\ \A x \in DOMAIN waiting : waiting'[x] = waiting[x]
  BY <1>1 DEF Set
<1>4. c \notin DOMAIN fetches
  BY DEF IInv, TableExact
<1>5. /\ DOMAIN fetches' = DOMAIN fetches \cup {c} /\ fetches'[c] = f0
      /\ \A x \in DOMAIN fetches : fetches'[x] = fetches[x]
  BY <1>1, <1>4 DEF Set
<1>6. DOMAIN cache \subseteq Keys /\ NoKey \notin Keys
  BY CacheConstants DEF IInv, TypeOK
<1>7. TypeOK'
  BY <1>1, <1>2, <1>3, <1>5 DEF IInv, TypeOK
<1>8. TableExact'
  BY <1>1, <1>2, <1>3, <1>4, <1>5 DEF IInv, TableExact
<1>9. EntriesNewest'
  <2>1. \A x : Live(x)' <=> Live(x)
    BY <1>1 DEF Live
  <2> QED BY <1>1, <1>2, <1>5, <1>6, <2>1 DEF IInv, EntriesNewest
<1>10. RepliesNewest'
  BY <1>1, <1>2, <1>5 DEF IInv, RepliesNewest
<1>11. ShownReached' /\ AnswersSound'
  BY <1>1 DEF IInv, ShownReached, AnswersSound, HitsAreSound, IdsLineUp, AnswersNeverGoBack
<1> QED BY <1>7, <1>8, <1>9, <1>10, <1>11 DEF IInv

\* The endpoint's reply is computed at the present slot, ahead of all shown.
LEMMA ReplyIInv ==
  ASSUME IInv, NEW f \in Callers, Reply(f)
  PROVE  IInv'
<1>1. PICK status \in Statuses, id \in {fetches[f].id, NoId} :
        fetches' = [fetches EXCEPT ![f].replies =
                      {[body |-> [slot |-> slot, id |-> id], status |-> status]}]
  BY DEF Reply
<1>2. /\ answers' = {} /\ newest' = newest /\ f \in DOMAIN fetches
      /\ now' = now /\ slot' = slot /\ cache' = cache /\ inflight' = inflight
      /\ waiting' = waiting
  BY SendNothing DEF IInv, Reply
<1> DEFINE r == [body |-> [slot |-> slot, id |-> id], status |-> status]
<1>3. /\ fetches[f] \in Fetch /\ fetches[f].id \in Ids \cup {NoId}
      /\ fetches[f].key \in Keys \cup {NoKey} /\ slot \in 0 .. MaxSlot /\ slot \in Nat
  BY <1>2, CacheConstants DEF IInv, TypeOK, Fetch
<1>4. r \in [body: Body, status: Statuses]
  BY <1>1, <1>3 DEF Body
<1>5. /\ DOMAIN fetches' = DOMAIN fetches
      /\ fetches'[f].key = fetches[f].key /\ fetches'[f].id = fetches[f].id
      /\ fetches'[f].replies = {r}
      /\ \A g \in DOMAIN fetches : g # f => fetches'[g] = fetches[g]
  BY <1>1, <1>2, <1>3 DEF Fetch
<1>6. r.body.slot = slot /\ r.body.id \in {fetches[f].id, NoId}
  BY <1>1
<1>7. fetches'[f] \in Fetch
  <2>1. fetches'[f] = [fetches[f] EXCEPT !.replies = {r}]
    BY <1>1, <1>2
  <2> QED BY <1>3, <1>4, <2>1 DEF Fetch
<1> HIDE DEF r
<1>8. TypeOK'
  BY <1>2, <1>5, <1>7 DEF IInv, TypeOK
<1>9. \A g \in DOMAIN fetches' : fetches'[g].key = fetches[g].key
  BY <1>5
<1>10. TableExact'
  BY <1>2, <1>5, <1>9 DEF IInv, TableExact
<1>11. EntriesNewest'
  <2>1. \A x : Live(x)' <=> Live(x)
    BY <1>2 DEF Live
  <2> QED BY <1>2, <1>5, <1>9, <2>1 DEF IInv, EntriesNewest
<1>12. RepliesNewest'
  <2>1. fetches[f].key # NoKey => newest[fetches[f].key] <= slot
    BY <1>3 DEF IInv, ShownReached
  <2>2. \A q \in fetches'[f].replies :
          /\ q.body.slot <= slot /\ q.body.id \in {fetches'[f].id, NoId}
          /\ fetches'[f].key # NoKey => newest[fetches'[f].key] <= q.body.slot
    BY <1>3, <1>5, <1>6, <2>1
  <2> QED BY <1>2, <1>5, <2>2 DEF IInv, RepliesNewest
<1>13. ShownReached' /\ AnswersSound'
  BY <1>2 DEF IInv, ShownReached, AnswersSound, HitsAreSound, IdsLineUp, AnswersNeverGoBack
<1> QED BY <1>8, <1>10, <1>11, <1>12, <1>13 DEF IInv

-----------------------------------------------------------------------------
(* A fetch that settles, by an answer or by a failure. *)

\* What both leave of the fetch and of those who awaited it: nothing.
Settles(f) ==
  /\ f \in DOMAIN fetches
  /\ waiting' = Drop(waiting, Waiters(f))
  /\ inflight' = Drop(inflight, {fetches[f].key})
  /\ fetches' = Drop(fetches, {f})

LEMMA SettleTable ==
  ASSUME IInv, NEW f, Settles(f)
  PROVE  /\ TableExact'
         /\ DOMAIN inflight' \subseteq Keys
         /\ \A k \in DOMAIN inflight' : inflight'[k] \in DOMAIN fetches'
         /\ DOMAIN fetches' = DOMAIN fetches \ {f}
         /\ \A g \in DOMAIN fetches' : fetches'[g] = fetches[g]
         /\ DOMAIN fetches' \subseteq Callers
         /\ \A g \in DOMAIN fetches' : fetches'[g] \in Fetch
         /\ DOMAIN waiting' \subseteq Callers
         /\ \A c \in DOMAIN waiting' : waiting'[c] \in Waiting
<1> DEFINE key == fetches[f].key
<1>1. /\ DOMAIN waiting' = DOMAIN waiting \ Waiters(f)
      /\ \A c \in DOMAIN waiting' : waiting'[c] = waiting[c]
      /\ DOMAIN inflight' = DOMAIN inflight \ {key}
      /\ \A k \in DOMAIN inflight' : inflight'[k] = inflight[k]
      /\ DOMAIN fetches' = DOMAIN fetches \ {f}
      /\ \A g \in DOMAIN fetches' : fetches'[g] = fetches[g]
      /\ f \in DOMAIN fetches
  BY DEF Settles, Drop
<1> HIDE DEF key
<1>2. ASSUME NEW k \in DOMAIN inflight'
      PROVE  inflight'[k] \in DOMAIN fetches' /\ fetches'[inflight'[k]].key = k
  <2>1. k \in DOMAIN inflight /\ k # key /\ inflight'[k] = inflight[k]
    BY <1>1
  <2>2. inflight[k] \in DOMAIN fetches /\ fetches[inflight[k]].key = k
    BY <2>1 DEF IInv, TableExact
  <2>3. inflight[k] # f
    BY <2>1, <2>2 DEF key
  <2> QED BY <1>1, <2>1, <2>2, <2>3
<1>3. ASSUME NEW g \in DOMAIN fetches'
      PROVE  /\ g \in DOMAIN waiting' /\ waiting'[g].on = g
             /\ fetches'[g].key # NoKey =>
                  fetches'[g].key \in DOMAIN inflight' /\ inflight'[fetches'[g].key] = g
  <2>1. g \in DOMAIN fetches /\ g # f /\ fetches'[g] = fetches[g]
    BY <1>1
  <2>2. g \in DOMAIN waiting /\ waiting[g].on = g
    BY <2>1 DEF IInv, TableExact
  <2>3. g \notin Waiters(f)
    BY <2>1, <2>2 DEF Waiters
  <2>4. ASSUME fetches[g].key # NoKey
        PROVE  fetches[g].key \in DOMAIN inflight' /\ inflight'[fetches[g].key] = g
    <3>1. fetches[g].key \in DOMAIN inflight /\ inflight[fetches[g].key] = g
      BY <2>1, <2>4 DEF IInv, TableExact
    <3>2. key # NoKey => inflight[key] = f
      BY <1>1 DEF IInv, TableExact, key
    <3>3. fetches[g].key # key
      BY <2>1, <2>4, <3>1, <3>2
    <3> QED BY <1>1, <3>1, <3>3
  <2> QED BY <1>1, <2>1, <2>2, <2>3, <2>4
<1>4. ASSUME NEW c \in DOMAIN waiting'
      PROVE  waiting'[c].on \in DOMAIN fetches' /\ fetches'[waiting'[c].on].key = waiting'[c].key
  <2>1. c \in DOMAIN waiting /\ c \notin Waiters(f) /\ waiting'[c] = waiting[c]
    BY <1>1
  <2>2. waiting[c].on # f
    BY <2>1 DEF Waiters
  <2>3. waiting[c].on \in DOMAIN fetches /\ fetches[waiting[c].on].key = waiting[c].key
    BY <2>1 DEF IInv, TableExact
  <2> QED BY <1>1, <2>1, <2>2, <2>3
<1>5. TableExact'
  BY <1>2, <1>3, <1>4 DEF TableExact
<1> QED BY <1>1, <1>2, <1>5 DEF IInv, TypeOK

\* A rejected fetch answers its waiters without the endpoint's help.
LEMMA RejectIInv ==
  ASSUME IInv, NEW f \in Callers, Reject(f)
  PROVE  IInv'
<1> DEFINE A == {AnswerTo(c, f, BadGateway, [slot |-> 0, id |-> waiting[c].id], FALSE) :
                   c \in Waiters(f)}
<1>1. /\ Settles(f) /\ Send(A) /\ answers' = A
      /\ now' = now /\ slot' = slot /\ cache' = cache
  BY DEF Reject, Settles, Release, Forget, Send
<1>2. ASSUME NEW a \in A
      PROVE  /\ a \in Answer /\ ~a.upstream /\ a.how # "hit" /\ a.body.id = a.asked
  <2>1. PICK c \in Waiters(f) :
          a = AnswerTo(c, f, BadGateway, [slot |-> 0, id |-> waiting[c].id], FALSE)
    BY <1>2
  <2>2. waiting[c] \in Waiting /\ c \in Callers
    BY <2>1 DEF Waiters, IInv, TypeOK
  <2>3. /\ 0 \in 0 .. MaxSlot /\ now \in 0 .. MaxNow
        /\ waiting[c].key \in Keys \cup {NoKey} /\ waiting[c].id \in Ids \cup {NoId}
    BY <2>2, CacheConstants DEF IInv, TypeOK, Waiting
  <2> QED BY <2>1, <2>2, <2>3 DEF AnswerTo, Answer, Body
<1> HIDE DEF A
<1>3. \A k \in Keys : newest'[k] = newest[k]
  BY <1>1, <1>2, SendSkips DEF IInv
<1>4. TypeOK'
  <2>1. newest' = [k \in Keys |-> newest'[k]]
    BY <1>1 DEF Send
  <2>2. newest' \in [Keys -> 0 .. MaxSlot]
    BY <1>3, <2>1 DEF IInv, TypeOK
  <2> QED BY <1>1, <1>2, <2>2, SettleTable DEF IInv, TypeOK
<1>5. TableExact' /\ DOMAIN fetches' \subseteq DOMAIN fetches
      /\ \A g \in DOMAIN fetches' : fetches'[g] = fetches[g]
  BY <1>1, SettleTable
<1>6. EntriesNewest'
  <2>1. \A x : Live(x)' <=> Live(x)
    BY <1>1 DEF Live
  <2>2. DOMAIN cache \subseteq Keys
    BY DEF IInv, TypeOK
  <2> QED BY <1>1, <1>3, <1>5, <2>1, <2>2 DEF IInv, EntriesNewest
<1>7. RepliesNewest'
  <2>1. \A g \in DOMAIN fetches : fetches[g].key \in Keys \cup {NoKey}
    BY DEF IInv, TypeOK, Fetch
  <2> QED BY <1>1, <1>3, <1>5, <2>1 DEF IInv, RepliesNewest
<1>8. ShownReached'
  BY <1>1, <1>3 DEF IInv, ShownReached
<1>9. AnswersSound'
  BY <1>1, <1>2 DEF AnswersSound, HitsAreSound, IdsLineUp, AnswersNeverGoBack
<1> QED BY <1>4, <1>5, <1>6, <1>7, <1>8, <1>9 DEF IInv

\* A response that arrives is the newest there is for its key; if it is kept,
\* the entry lives while nobody fetches the key.
LEMMA ArriveIInv ==
  ASSUME IInv, NEW f \in Callers, Arrive(f)
  PROVE  IInv'
<1> DEFINE key == fetches[f].key
           Reply0(r, c) == IF key = NoKey THEN r.body ELSE WriteBody(r.body, waiting[c].id)
           A(r) == {AnswerTo(c, f, r.status, Reply0(r, c), TRUE) : c \in Waiters(f)}
           entry(r) == [body |-> r.body, status |-> r.status,
                        expiresAt |-> now + Ttl[key], arrived |-> now]
<1>1. PICK r \in fetches[f].replies :
        /\ IF key # NoKey /\ Cacheable(r.status)
           THEN cache' = Set(cache, key, entry(r)) ELSE cache' = cache
        /\ Send(A(r))
  BY DEF Arrive
<1>2. /\ Settles(f) /\ f \in DOMAIN fetches /\ answers' = A(r)
      /\ now' = now /\ slot' = slot
  BY <1>1 DEF Arrive, Settles, Release, Forget, Send
<1>3. /\ r \in [body: Body, status: Statuses] /\ r.body \in Body
      /\ r.body.slot \in 0 .. MaxSlot /\ r.body.slot \in Nat
      /\ r.body.id \in Ids \cup {NoId} /\ r.status \in Statuses
      /\ key \in Keys \cup {NoKey} /\ now \in 0 .. MaxNow /\ now \in Nat
  BY <1>1, <1>2, ReplyType, CacheConstants DEF IInv, TypeOK, Fetch, Body
<1>4. /\ r.body.slot <= slot /\ r.body.id \in {fetches[f].id, NoId}
      /\ key # NoKey => newest[key] <= r.body.slot
      /\ key = NoKey => r.body.id = NoId
  BY <1>1, <1>2 DEF IInv, RepliesNewest
<1>5. ASSUME NEW a \in A(r)
      PROVE  /\ a \in Answer /\ a.key = key /\ a.body.slot = r.body.slot
             /\ a.upstream /\ a.how # "hit" /\ a.body.id \in {a.asked, NoId}
  <2>1. PICK c \in Waiters(f) : a = AnswerTo(c, f, r.status, Reply0(r, c), TRUE)
    BY <1>5
  <2>2. waiting[c] \in Waiting /\ c \in Callers /\ waiting[c].key = key
    BY <2>1, WaitersKey DEF Waiters, IInv, TypeOK
  <2>3. waiting[c].id \in Ids \cup {NoId}
    BY <2>2 DEF Waiting
  <2>4. /\ Reply0(r, c) \in Body /\ Reply0(r, c).slot = r.body.slot
        /\ Reply0(r, c).id \in {waiting[c].id, NoId}
    BY <1>3, <1>4, <2>3 DEF WriteBody, Body
  <2> HIDE DEF Reply0
  <2> QED BY <1>3, <2>1, <2>2, <2>3, <2>4 DEF AnswerTo, Answer
<1> HIDE DEF key, A
<1>6. \A k \in Keys : k # key => newest'[k] = newest[k]
  BY <1>1, <1>5, SendSkips DEF IInv
<1>7. ASSUME key # NoKey
      PROVE  /\ newest'[key] \in {newest[key], r.body.slot}
             /\ \A a \in A(r) : newest'[key] = r.body.slot
             /\ newest'[key] <= r.body.slot
  <2>1. key \in Keys /\ newest[key] <= r.body.slot
    BY <1>3, <1>4, <1>7
  <2>2. /\ newest'[key] \in {newest[key], r.body.slot}
        /\ \A a \in A(r) : a.upstream /\ a.key = key => newest'[key] = r.body.slot
    BY <1>1, <1>3, <1>5, <2>1, SendShows DEF IInv
  <2>3. r.body.slot <= r.body.slot
    BY <1>3
  <2> QED BY <1>5, <2>1, <2>2, <2>3
<1>8. /\ TableExact' /\ f \notin DOMAIN fetches'
      /\ DOMAIN fetches' \subseteq DOMAIN fetches
      /\ \A g \in DOMAIN fetches' : fetches'[g] = fetches[g]
  BY <1>2, SettleTable
<1>9. \A g \in DOMAIN fetches' : key # NoKey => fetches[g].key # key
  BY <1>2, <1>8 DEF IInv, TableExact, key
<1>10. ASSUME key # NoKey
       PROVE  entry(r) \in CacheEntry /\ key \in Keys /\ Ttl[key] \in Nat /\ Ttl[key] > 0
  <2>1. key \in Keys /\ Ttl[key] \in Nat /\ Ttl[key] > 0
    BY <1>3, <1>10, CacheConstants
  <2> QED BY <1>3, <2>1 DEF CacheEntry
<1>11. /\ entry(r).body = r.body /\ entry(r).status = r.status
       /\ entry(r).expiresAt = now + Ttl[key] /\ entry(r).arrived = now
  OBVIOUS
<1> HIDE DEF entry
\* The entry of key, if kept, is the reply; every other entry is as it was.
<1>12. ASSUME NEW k \in DOMAIN cache'
       PROVE  \/ /\ k = key /\ key # NoKey /\ Cacheable(r.status) /\ cache'[k] = entry(r)
              \/ /\ k \in DOMAIN cache /\ cache'[k] = cache[k]
                 /\ k = key => ~Live(k)
  <2>1. CASE key # NoKey /\ Cacheable(r.status)
    <3>1. cache' = Set(cache, key, entry(r))
      BY <1>1, <2>1
    <3> QED BY <2>1, <3>1 DEF Set
  <2>2. CASE ~(key # NoKey /\ Cacheable(r.status))
    <3>1. cache' = cache
      BY <1>1, <2>2
    <3>2. k = key => ~Live(k)
      BY <1>2, <3>1 DEF IInv, EntriesNewest, key
    <3> QED BY <3>1, <3>2
  <2> QED BY <2>1, <2>2
<1>13. TypeOK'
  <2>1. newest' = [k \in Keys |-> newest'[k]]
    BY <1>1 DEF Send
  <2>2. \A k \in Keys : newest'[k] \in 0 .. MaxSlot
    BY <1>3, <1>6, <1>7, CacheConstants DEF IInv, TypeOK
  <2>3. newest' \in [Keys -> 0 .. MaxSlot]
    BY <2>1, <2>2
  <2>4. \A k \in DOMAIN cache' : k \in Keys /\ cache'[k] \in CacheEntry
    BY <1>10, <1>12 DEF IInv, TypeOK
  <2> QED BY <1>2, <1>5, <2>3, <2>4, SettleTable DEF IInv, TypeOK
<1>14. EntriesNewest'
  <2> SUFFICES ASSUME NEW k \in DOMAIN cache'
               PROVE  /\ cache'[k].expiresAt = cache'[k].arrived + Ttl[k]
                      /\ Cacheable(cache'[k].status)
                      /\ cache'[k].body.slot <= slot'
                      /\ Live(k)' => /\ newest'[k] <= cache'[k].body.slot
                                     /\ \A g \in DOMAIN fetches' : fetches'[g].key # k
    BY DEF EntriesNewest
  <2>1. CASE k = key /\ key # NoKey /\ Cacheable(r.status) /\ cache'[k] = entry(r)
    <3>1. \A g \in DOMAIN fetches' : fetches'[g].key # k
      BY <1>8, <1>9, <2>1
    <3> QED BY <1>2, <1>4, <1>7, <1>11, <2>1, <3>1
  <2>2. CASE k \in DOMAIN cache /\ cache'[k] = cache[k] /\ (k = key => ~Live(k))
    <3>1. Live(k)' <=> Live(k)
      BY <1>2, <2>2 DEF Live
    <3>2. k \in Keys
      BY <2>2 DEF IInv, TypeOK
    <3> QED BY <1>2, <1>6, <1>8, <2>2, <3>1, <3>2 DEF IInv, EntriesNewest
  <2> QED BY <1>12, <2>1, <2>2
<1>15. RepliesNewest'
  <2> SUFFICES ASSUME NEW g \in DOMAIN fetches'
               PROVE  /\ fetches'[g].key = NoKey => fetches'[g].id = NoId
                      /\ \A q \in fetches'[g].replies :
                           /\ q.body.slot <= slot' /\ q.body.id \in {fetches'[g].id, NoId}
                           /\ fetches'[g].key # NoKey =>
                                newest'[fetches'[g].key] <= q.body.slot
    BY DEF RepliesNewest
  <2>1. g \in DOMAIN fetches /\ fetches'[g] = fetches[g] /\ fetches[g].key \in Keys \cup {NoKey}
    BY <1>8 DEF IInv, TypeOK, Fetch
  <2>2. fetches[g].key # NoKey => newest'[fetches[g].key] = newest[fetches[g].key]
    BY <1>6, <1>9, <2>1
  <2> QED BY <1>2, <2>1, <2>2 DEF IInv, RepliesNewest
<1>16. ShownReached'
  <2> SUFFICES ASSUME NEW k \in Keys PROVE newest'[k] <= slot'
    BY DEF ShownReached
  <2>1. newest[k] <= slot /\ (k = key => key # NoKey)
    BY CacheConstants DEF IInv, ShownReached
  <2> QED BY <1>2, <1>4, <1>6, <1>7, <2>1
<1>17. AnswersSound'
  <2>1. HitsAreSound' /\ IdsLineUp'
    BY <1>2, <1>5 DEF HitsAreSound, IdsLineUp
  <2>2. AnswersNeverGoBack'
    BY <1>2, <1>3, <1>5, <1>7 DEF AnswersNeverGoBack
  <2> QED BY <2>1, <2>2 DEF AnswersSound
<1> QED BY <1>8, <1>13, <1>14, <1>15, <1>16, <1>17 DEF IInv

LEMMA NextIInv == IInv /\ [Next]_vars => IInv'
<1> SUFFICES ASSUME IInv, [Next]_vars PROVE IInv'
  OBVIOUS
<1>1. CASE UNCHANGED vars
  BY <1>1 DEF vars, IInv, TypeOK, TableExact, EntriesNewest, Live, RepliesNewest,
              ShownReached, AnswersSound, HitsAreSound, IdsLineUp, AnswersNeverGoBack
<1>2. CASE Tick \/ ChainAdvances
  BY <1>2, ClocksIInv
<1>3. ASSUME NEW c \in Callers, handle(c) PROVE IInv'
  BY <1>3, HitIInv, JoinIInv, StartIInv, BypassIInv DEF handle
<1>4. ASSUME NEW f \in Callers, Reply(f) \/ Arrive(f) \/ Reject(f) PROVE IInv'
  BY <1>4, ReplyIInv, ArriveIInv, RejectIInv
<1> QED BY <1>1, <1>2, <1>3, <1>4 DEF Next

-----------------------------------------------------------------------------
\* However requests for a key arrive, are shared, time out and fail, the
\* endpoint sees one fetch per key, hits are young and no failures, ids are the
\* askers' own, and no key is ever answered with an older slot than before.
THEOREM CacheInvariant ==
  Spec => [](/\ TypeOK /\ OneFetchPerKey /\ HitsAreSound /\ IdsLineUp
             /\ AnswersNeverGoBack)
<1>1. IInv => OneFetchPerKey
  BY DEF IInv, TableExact, OneFetchPerKey
<1>2. IInv => TypeOK /\ HitsAreSound /\ IdsLineUp /\ AnswersNeverGoBack
  BY DEF IInv, AnswersSound
<1> QED BY <1>1, <1>2, InitIInv, NextIInv, PTL DEF Spec

-----------------------------------------------------------------------------
(* The proxy implements OrderedReads: a step answers for one key, or shows   *)
(* nothing.                                                                   *)

LEMMA SilentStep ==
  ASSUME \A a \in answers' : ~(a.upstream /\ a.key # NoKey),
         newest' = newest, slot' = slot \/ ChainAdvances
  PROVE  Reads!Next
<1>1. shown' = {}
  BY DEF shown
<1>2. Reads!Advances \/ (slot' = slot /\ newest' = newest)
  BY DEF ChainAdvances, Reads!Advances
<1> QED BY <1>1, <1>2 DEF Reads!Next, Reads!Silent

\* What a step shows for key k, when all it sends is for k and shows slot v.
LEMMA ShownIs ==
  ASSUME NEW A, answers' = A, A # {}, NEW k \in Keys, NEW v,
         \A a \in A : a.upstream /\ a.key = k /\ a.body.slot = v
  PROVE  shown' = {[key |-> k, slot |-> v]}
<1>1. k # NoKey
  BY CacheConstants
<1>2. \A a \in A : [key |-> a.key, slot |-> a.body.slot] = [key |-> k, slot |-> v]
  OBVIOUS
<1>3. {b \in answers' : b.upstream /\ b.key # NoKey} = A
  BY <1>1
<1>4. shown' = {[key |-> a.key, slot |-> a.body.slot] : a \in A}
  BY <1>3 DEF shown
<1> QED BY <1>2, <1>4

LEMMA ServeStep ==
  ASSUME TypeOK, NEW A, Send(A), A # {}, NEW k \in Keys, NEW v \in Nat,
         newest[k] <= v, v <= slot, slot' = slot,
         \A a \in A : a.upstream /\ a.key = k /\ a.body.slot = v
  PROVE  Reads!Next
<1>1. newest'[k] = v
  BY SendShows
<1>2. \A x \in Keys : x # k => newest'[x] = newest[x]
  BY SendSkips
<1>3. newest' = [x \in Keys |-> newest'[x]] /\ newest \in [Keys -> 0 .. MaxSlot]
  BY DEF Send, TypeOK
<1>4. newest' = [newest EXCEPT ![k] = v]
  BY <1>1, <1>2, <1>3
<1>5. v \in Reads!Versions(k)
  BY <1>3, CacheConstants DEF TypeOK, Reads!Versions
<1>6. shown' = {[key |-> k, slot |-> v]}
  BY ShownIs DEF Send
<1> QED BY <1>4, <1>5, <1>6 DEF Reads!Next, Reads!Serve, Reads!Serves

LEMMA HitReads ==
  ASSUME IInv, NEW c \in Callers, NEW k \in Keys, NEW id \in Ids, Hit(c, k, id)
  PROVE  Reads!Next
<1> DEFINE a == [to |-> c, key |-> k, asked |-> id, how |-> "hit",
                 status |-> cache[k].status,
                 body |-> WriteBody(cache[k].body, id), upstream |-> TRUE,
                 arrived |-> cache[k].arrived, at |-> now]
           s == cache[k].body.slot
<1>1. Live(k) /\ k \in DOMAIN cache /\ Send({a}) /\ slot' = slot
  BY DEF Hit, Live
<1>2. cache[k].body \in Body /\ s \in Nat
  BY <1>1, CacheConstants DEF IInv, TypeOK, CacheEntry, Body
<1>3. newest[k] <= s /\ s <= slot
  BY <1>1 DEF IInv, EntriesNewest
<1>4. WriteBody(cache[k].body, id).slot = s
  BY <1>2 DEF WriteBody, Body
<1>5. a.upstream /\ a.key = k /\ a.body.slot = s
  BY <1>4
<1> HIDE DEF a, s
<1> QED BY <1>1, <1>2, <1>3, <1>5, ServeStep DEF IInv

LEMMA ArriveReads ==
  ASSUME IInv, NEW f \in Callers, Arrive(f)
  PROVE  Reads!Next
<1> DEFINE key == fetches[f].key
           Reply0(r, c) == IF key = NoKey THEN r.body ELSE WriteBody(r.body, waiting[c].id)
           A(r) == {AnswerTo(c, f, r.status, Reply0(r, c), TRUE) : c \in Waiters(f)}
<1>1. PICK r \in fetches[f].replies : Send(A(r))
  BY DEF Arrive
<1>2. f \in DOMAIN fetches /\ slot' = slot
  BY DEF Arrive
<1>3. r.body \in Body /\ r.body.slot \in Nat /\ key \in Keys \cup {NoKey}
  BY <1>2, ReplyType, CacheConstants DEF IInv, TypeOK, Fetch, Body
<1>4. ASSUME NEW a \in A(r)
      PROVE  a.key = key /\ a.body.slot = r.body.slot /\ a.upstream
  <2>1. PICK c \in Waiters(f) : a = AnswerTo(c, f, r.status, Reply0(r, c), TRUE)
    BY <1>4
  <2>2. Reply0(r, c).slot = r.body.slot
    BY <1>3 DEF WriteBody, Body
  <2>3. waiting[c].key = key
    BY <2>1, WaitersKey DEF IInv
  <2> HIDE DEF Reply0
  <2> QED BY <2>1, <2>2, <2>3 DEF AnswerTo
<1>5. A(r) # {}
  <2>1. f \in Waiters(f)
    BY <1>2 DEF IInv, TableExact, Waiters
  <2> QED BY <2>1
<1>6. r.body.slot <= slot /\ (key # NoKey => newest[key] <= r.body.slot)
  BY <1>2 DEF IInv, RepliesNewest
<1> HIDE DEF key, A
<1>7. CASE key = NoKey
  <2>1. answers' = A(r) /\ \A a \in A(r) : ~(a.upstream /\ a.key # NoKey)
    BY <1>1, <1>4, <1>7 DEF Send
  <2>2. \A x \in Keys : newest'[x] = newest[x]
    BY <1>1, <1>4, <1>7, CacheConstants, SendSkips DEF IInv
  <2>3. newest' = [x \in Keys |-> newest'[x]] /\ newest = [x \in Keys |-> newest[x]]
    BY <1>1 DEF Send, IInv, TypeOK
  <2>4. newest' = newest
    BY <2>2, <2>3
  <2> QED BY <1>2, <2>1, <2>4, SilentStep
<1>8. CASE key # NoKey
  BY <1>1, <1>2, <1>3, <1>4, <1>5, <1>6, <1>8, ServeStep DEF IInv
<1> QED BY <1>7, <1>8

LEMMA RejectReads ==
  ASSUME IInv, NEW f \in Callers, Reject(f)
  PROVE  Reads!Next
<1> DEFINE A == {AnswerTo(c, f, BadGateway, [slot |-> 0, id |-> waiting[c].id], FALSE) :
                   c \in Waiters(f)}
<1>1. Send(A) /\ answers' = A /\ slot' = slot
  BY DEF Reject, Send
<1>2. \A a \in A : ~a.upstream
  BY DEF AnswerTo
<1> HIDE DEF A
<1>3. \A k \in Keys : newest'[k] = newest[k]
  BY <1>1, <1>2, SendSkips DEF IInv
<1>4. newest' = [k \in Keys |-> newest'[k]] /\ newest = [k \in Keys |-> newest[k]]
  BY <1>1 DEF Send, IInv, TypeOK
<1>5. newest' = newest
  BY <1>3, <1>4
<1> QED BY <1>1, <1>2, <1>5, SilentStep

\* Every step is a step of OrderedReads, or changes nothing it speaks of.
LEMMA StepReads == IInv /\ [Next]_vars => [Reads!Next]_(Reads!vars)
<1> SUFFICES ASSUME IInv, [Next]_vars PROVE [Reads!Next]_(Reads!vars)
  OBVIOUS
<1>1. CASE UNCHANGED vars
  BY <1>1 DEF vars, Reads!vars, shown
<1>2. ASSUME Send({}), slot' = slot \/ ChainAdvances PROVE Reads!Next
  <2>1. answers' = {} /\ newest' = newest
    BY <1>2, SendNothing DEF IInv
  <2> QED BY <1>2, <2>1, SilentStep
<1>3. CASE Tick \/ ChainAdvances
  BY <1>2, <1>3 DEF Tick, ChainAdvances
<1>4. ASSUME NEW c \in Callers, handle(c) PROVE Reads!Next
  <2>1. ASSUME NEW k \in Keys, NEW id \in Ids, Join(c, k, id) \/ Start(c, k, id)
        PROVE  Reads!Next
    BY <1>2, <2>1 DEF Join, Start
  <2>2. CASE Bypass(c)
    BY <1>2, <2>2 DEF Bypass
  <2> QED BY <1>4, <2>1, <2>2, HitReads DEF handle
<1>5. ASSUME NEW f \in Callers, Reply(f) PROVE Reads!Next
  BY <1>2, <1>5 DEF Reply
<1>6. ASSUME NEW f \in Callers, Arrive(f) \/ Reject(f) PROVE Reads!Next
  BY <1>6, ArriveReads, RejectReads
<1> QED BY <1>1, <1>3, <1>4, <1>5, <1>6 DEF Next

LEMMA InitReads == Init => Reads!Init
BY DEF Init, Reads!Init, shown

\* Sharing, caching, failures and retries notwithstanding, what the proxy's
\* callers see of the chain is what an endpoint would show them whose answers
\* for a key never go back in time.
THEOREM CacheImplementsOrderedReads == Spec => ImplementsOrderedReads
<1>1. Spec => []IInv
  BY InitIInv, NextIInv, PTL DEF Spec
<1> QED BY <1>1, InitReads, StepReads, PTL DEF Spec, ImplementsOrderedReads, Reads!Spec

=============================================================================
