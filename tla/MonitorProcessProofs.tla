------------------------ MODULE MonitorProcessProofs ------------------------
(***************************************************************************)
(* Proofs about MonitorProcess, for any slices and claims and any number of*)
(* changes at the API server: Start waits for informers that were started, *)
(* its handlers miss nothing, and /readyz answers only a ready cache.      *)
(***************************************************************************)
EXTENDS MonitorProcess, FunctionTheorems, FiniteSetTheorems, SequenceTheorems, TLAPS

All == UNION {Object[k] : k \in Kind}
Event == [type : {"add", "delete", "tombstone"}, of : All]
Phase == {"init", "wait_slices", "wait_claims", "serve", "shutdown", "stop", "exited"}

-----------------------------------------------------------------------------
(* The inductive invariant *)

Typed ==
  /\ api \in [Kind -> SUBSET All]
  /\ store \in [Kind -> SUBSET All]
  /\ cached \in [Kind -> SUBSET All]
  /\ queue \in [Kind -> Seq(Event)]
  /\ informer \in [Kind -> {"off", "listing", "synced"}]
  /\ registered \subseteq Kind
  /\ main \in Phase
  /\ ready \in BOOLEAN
  /\ listening \subseteq Server

\* A kind's objects stay among themselves.
Sorted(k) ==
  /\ api[k] \subseteq Object[k] /\ store[k] \subseteq Object[k] /\ cached[k] \subseteq Object[k]
  /\ \A i \in DOMAIN queue[k] : queue[k][i].of \in Object[k]

\* Before an informer starts its store is empty, and before its handler is
\* registered nothing of it is queued or cached.
Unstarted(k) == informer[k] = "off" => store[k] = {}
Unregistered(k) == k \notin registered => queue[k] = << >> /\ cached[k] = {}

\* How far Start has come, and what Run has up.
Phases ==
  /\ main = "init" => registered = {} /\ \A k \in Kind : informer[k] = "off"
  /\ main = "wait_slices" => registered = {"slices"}
  /\ main \in {"wait_slices", "wait_claims"} => \A k \in Kind : informer[k] # "off"
  /\ ready <=> main \in {"serve", "shutdown", "stop"}
  /\ main \notin {"serve", "shutdown"} => "health" \notin listening

\* What NothingMissed says of an object, with the queue, cache and store given.
Follows(q, cache, s, o) ==
  /\ (\A i \in DOMAIN q : q[i].of # o) => (o \in cache <=> o \in s)
  /\ \A i \in DOMAIN q :
       q[i].of = o /\ (\A j \in DOMAIN q : q[j].of = o => j =< i) => (q[i].type = "add" <=> o \in s)

Kept(k) ==
  /\ Sorted(k) /\ Unstarted(k) /\ Unregistered(k)
  /\ k \in registered => \A o \in Object[k] : Follows(queue[k], cached[k], store[k], o)

ProcessInv == Typed /\ Phases /\ \A k \in Kind : Kept(k)

LEMMA InvMissesNothing == ProcessInv => NothingMissed
BY DEF ProcessInv, Typed, Kept, Follows, NothingMissed, Pending

-----------------------------------------------------------------------------
(* Notifications *)

\* The notifications told bring a handler from store s to store t: each is about
\* an object in which the two differ, all of these are told, and additions are
\* told of those in t.
Tells(told, s, t) ==
  /\ told \in Seq(Event)
  /\ \A i \in DOMAIN told : /\ told[i].of \in (t \ s) \union (s \ t)
                            /\ told[i].type = "add" <=> told[i].of \in t
  /\ \A o \in (t \ s) \union (s \ t) : \E i \in DOMAIN told : told[i].of = o

\* The sequences of a finite set hold each of its elements.
LEMMA SequencesOfSet ==
  ASSUME NEW S, IsFiniteSet(S), NEW q \in SetToSeqs(S)
  PROVE  /\ q \in Seq(S) /\ DOMAIN q = 1 .. Len(q)
         /\ \A x \in S : \E i \in DOMAIN q : q[i] = x
<1> DEFINE D == 1 .. Cardinality(S)
<1>1. Cardinality(S) \in Nat
  BY FS_CardinalityType
<1>2. q \in [D -> S] /\ \A i, j \in D : i # j => q[i] # q[j]
  BY DEF SetToSeqs
<1>3. IsFiniteSet(D) /\ Cardinality(D) = Cardinality(S)
  BY <1>1, FS_Interval
<1>4. q \in Injection(D, S)
  BY <1>2 DEF Injection, IsInjective
<1>5. q \in Surjection(D, S)
  BY <1>3, <1>4, FS_Injection
<1>6. \A x \in S : \E i \in D : q[i] = x
  BY <1>5 DEF Surjection
<1>7. q \in Seq(S) /\ Len(q) = Cardinality(S)
  BY <1>1, <1>2
<1>8. QED
  BY <1>2, <1>6, <1>7

\* The notifications of one type for a set of objects.
LEMMA AnnounceEach ==
  ASSUME NEW type \in {"add", "delete", "tombstone"}, NEW S \in SUBSET All, IsFiniteSet(S),
         NEW told \in Announce(type, S)
  PROVE  /\ told \in Seq(Event)
         /\ \A i \in 1 .. Len(told) : told[i].type = type /\ told[i].of \in S
         /\ \A o \in S : \E i \in 1 .. Len(told) : told[i].of = o
<1>1. PICK q \in SetToSeqs(S) : told = [i \in DOMAIN q |-> [type |-> type, of |-> q[i]]]
  BY DEF Announce
<1>2. /\ q \in Seq(S) /\ DOMAIN q = 1 .. Len(q)
      /\ \A x \in S : \E i \in DOMAIN q : q[i] = x
  BY SequencesOfSet
<1>3. Len(q) \in Nat /\ \A i \in 1 .. Len(q) : q[i] \in S
  BY <1>2
<1>4. \A i \in 1 .. Len(q) : [type |-> type, of |-> q[i]] \in Event
  BY <1>3 DEF Event
<1>5. told \in [1 .. Len(q) -> Event]
  BY <1>1, <1>2, <1>4
<1>6. told \in Seq(Event) /\ Len(told) = Len(q)
  BY <1>3, <1>5
<1>7. \A i \in 1 .. Len(q) : told[i].type = type /\ told[i].of = q[i]
  BY <1>1, <1>2
<1>8. QED
  BY <1>2, <1>3, <1>6, <1>7

\* What a handler is told when the store changes from s to t.
LEMMA NotifyTells ==
  ASSUME NEW s \in SUBSET All, NEW t \in SUBSET All, IsFiniteSet(s), IsFiniteSet(t),
         NEW gone \in {"delete", "tombstone"}, NEW told, told \in Notify(s, t, gone)
  PROVE  Tells(told, s, t)
<1>1. IsFiniteSet(t \ s) /\ IsFiniteSet(s \ t)
  <2>1. t \ s \in SUBSET t /\ s \ t \in SUBSET s
    OBVIOUS
  <2>2. QED
    BY <2>1, FS_Subset
<1> DEFINE came == t \ s
           went == s \ t
<1>a. /\ came \in SUBSET All /\ IsFiniteSet(came)
      /\ went \in SUBSET All /\ IsFiniteSet(went)
  BY <1>1
<1> HIDE DEF came, went
<1>2. PICK adds \in Announce("add", came), dels \in Announce(gone, went) : told = adds \o dels
  BY DEF Notify, came, went
<1>3. /\ adds \in Seq(Event)
      /\ \A i \in 1 .. Len(adds) : adds[i].type = "add" /\ adds[i].of \in came
      /\ \A o \in came : \E i \in 1 .. Len(adds) : adds[i].of = o
  BY <1>a, AnnounceEach
<1>4. /\ dels \in Seq(Event)
      /\ \A i \in 1 .. Len(dels) : dels[i].type = gone /\ dels[i].of \in went
      /\ \A o \in went : \E i \in 1 .. Len(dels) : dels[i].of = o
  <2>1. gone \in {"add", "delete", "tombstone"}
    OBVIOUS
  <2>2. QED
    BY <1>a, <2>1, AnnounceEach
<1>5. /\ told \in Seq(Event) /\ Len(told) = Len(adds) + Len(dels)
      /\ \A i \in 1 .. Len(adds) + Len(dels) : told[i] =
           IF i =< Len(adds) THEN adds[i] ELSE dels[i - Len(adds)]
  <2>1. adds \in Seq(Event) /\ dels \in Seq(Event)
    BY <1>3, <1>4
  <2>2. QED
    BY <1>2, <2>1, ConcatProperties
<1>6. Len(adds) \in Nat /\ Len(dels) \in Nat /\ DOMAIN told = 1 .. Len(adds) + Len(dels)
  BY <1>3, <1>4, <1>5
<1>7. \A i \in 1 .. Len(adds) : i \in DOMAIN told /\ told[i] = adds[i]
  BY <1>5, <1>6
<1>8. ASSUME NEW j \in 1 .. Len(dels)
      PROVE  Len(adds) + j \in DOMAIN told /\ told[Len(adds) + j] = dels[j]
  <2>1. /\ Len(adds) + j \in 1 .. Len(adds) + Len(dels) /\ ~ (Len(adds) + j =< Len(adds))
        /\ (Len(adds) + j) - Len(adds) = j
    BY <1>6
  <2>2. QED
    BY <1>5, <1>6, <2>1
<1> USE DEF came, went
<1>9. ASSUME NEW i \in DOMAIN told
      PROVE  /\ told[i].of \in (t \ s) \union (s \ t)
             /\ told[i].type = "add" <=> told[i].of \in t
  <2>1. CASE i \in 1 .. Len(adds)
    BY <1>3, <1>7, <2>1
  <2>2. CASE i \notin 1 .. Len(adds)
    <3>1. i - Len(adds) \in 1 .. Len(dels) /\ told[i] = dels[i - Len(adds)]
      BY <1>5, <1>6, <2>2
    <3>2. QED
      BY <1>4, <3>1
  <2>3. QED
    BY <2>1, <2>2
<1>10. ASSUME NEW o \in (t \ s) \union (s \ t)
       PROVE  \E i \in DOMAIN told : told[i].of = o
  <2>1. CASE o \in came
    BY <1>3, <1>7, <2>1
  <2>2. CASE o \in went
    BY <1>4, <1>8, <2>2
  <2>3. QED
    BY <2>1, <2>2
<1>11. QED
  BY <1>5, <1>9, <1>10 DEF Tells

\* A queue that ends in what the handler is told of a new store.
LEMMA DeliveredFollows ==
  ASSUME NEW q \in Seq(Event), NEW cache, NEW s, NEW t, NEW told, Tells(told, s, t),
         NEW o, Follows(q, cache, s, o)
  PROVE  q \o told \in Seq(Event) /\ Follows(q \o told, cache, t, o)
<1> DEFINE r == q \o told
<1>1. told \in Seq(Event)
  BY DEF Tells
<1>2. /\ r \in Seq(Event) /\ Len(r) = Len(q) + Len(told)
      /\ \A i \in 1 .. Len(q) + Len(told) : r[i] = IF i =< Len(q) THEN q[i] ELSE told[i - Len(q)]
  BY <1>1, ConcatProperties
<1> HIDE DEF r
<1>3. /\ Len(q) \in Nat /\ Len(told) \in Nat /\ DOMAIN q = 1 .. Len(q) /\ DOMAIN told = 1 .. Len(told)
      /\ DOMAIN r = 1 .. Len(q) + Len(told)
  BY <1>1, <1>2
<1>4. \A i \in DOMAIN q : i \in DOMAIN r /\ r[i] = q[i]
  BY <1>2, <1>3
<1>5. ASSUME NEW j \in DOMAIN told
      PROVE  Len(q) + j \in DOMAIN r /\ r[Len(q) + j] = told[j]
  <2>1. /\ Len(q) + j \in 1 .. Len(q) + Len(told) /\ ~ (Len(q) + j =< Len(q))
        /\ (Len(q) + j) - Len(q) = j
    BY <1>3
  <2>2. QED
    BY <1>2, <1>3, <2>1
<1>6. CASE o \in (t \ s) \union (s \ t)
  <2>1. PICK m \in DOMAIN told : told[m].of = o
    BY <1>6 DEF Tells
  <2>2. Len(q) + m \in DOMAIN r /\ r[Len(q) + m].of = o
    BY <1>5, <2>1
  <2>3. ASSUME NEW i \in DOMAIN r, r[i].of = o, \A j \in DOMAIN r : r[j].of = o => j =< i
        PROVE  r[i].type = "add" <=> o \in t
    <3>1. Len(q) + m =< i
      BY <2>2, <2>3
    <3>2. i - Len(q) \in DOMAIN told /\ Len(q) + (i - Len(q)) = i
      BY <1>3, <3>1
    <3>3. r[i] = told[i - Len(q)]
      BY <1>5, <3>2
    <3>4. QED
      BY <2>3, <3>2, <3>3 DEF Tells
  <2>4. QED
    BY <1>2, <2>2, <2>3 DEF Follows, r
<1>7. CASE o \notin (t \ s) \union (s \ t)
  <2>1. o \in s <=> o \in t
    BY <1>7
  <2>2. \A j \in DOMAIN told : told[j].of # o
    BY <1>7 DEF Tells
  <2>3. ASSUME NEW i \in DOMAIN r, r[i].of = o
        PROVE  i \in DOMAIN q
    <3>1. CASE i > Len(q)
      <4>1. i - Len(q) \in DOMAIN told /\ Len(q) + (i - Len(q)) = i
        BY <1>3, <3>1
      <4>2. QED
        BY <1>5, <2>2, <2>3, <4>1
    <3>2. QED
      BY <1>3, <3>1
  <2>4. (\A i \in DOMAIN r : r[i].of # o) => (o \in cache <=> o \in t)
    BY <1>4, <2>1 DEF Follows
  <2>5. ASSUME NEW i \in DOMAIN r, r[i].of = o, \A j \in DOMAIN r : r[j].of = o => j =< i
        PROVE  r[i].type = "add" <=> o \in t
    BY <1>4, <2>1, <2>3, <2>5 DEF Follows
  <2>6. QED
    BY <1>2, <2>4, <2>5 DEF Follows, r
<1>8. QED
  BY <1>6, <1>7

\* A handler that registers is told of every object of the store.
LEMMA RegisteredFollows ==
  ASSUME NEW s, NEW told, Tells(told, {}, s), NEW o
  PROVE  told \in Seq(Event) /\ Follows(told, {}, s, o)
<1> DEFINE none == << >>
<1>1. none \in Seq(Event) /\ Follows(none, {}, {}, o)
  BY DEF Follows
<1>2. told \in Seq(Event)
  BY DEF Tells
<1>3. none \o told = told
  BY <1>2, ConcatEmptySeq
<1>4. QED
  BY <1>1, <1>3, DeliveredFollows

\* A queue whose first notification is handled.
LEMMA HandledFollows ==
  ASSUME NEW q \in Seq(Event), q # << >>, NEW cache, NEW s, NEW o, Follows(q, cache, s, o)
  PROVE  Follows(Tail(q),
                 IF Head(q).type = "add" THEN cache \union {Head(q).of} ELSE cache \ {Head(q).of},
                 s, o)
<1> DEFINE r == Tail(q)
           next == IF Head(q).type = "add" THEN cache \union {Head(q).of} ELSE cache \ {Head(q).of}
<1>1. /\ Len(q) \in Nat \ {0} /\ DOMAIN q = 1 .. Len(q) /\ Head(q) = q[1]
      /\ DOMAIN r = 1 .. Len(q) - 1
      /\ \A i \in 1 .. Len(q) - 1 : r[i] = q[i + 1]
  OBVIOUS
<1> HIDE DEF r
<1>2. \A i \in DOMAIN r : i + 1 \in DOMAIN q /\ r[i] = q[i + 1]
  BY <1>1
<1>3. \A j \in DOMAIN q : j = 1 \/ (j - 1 \in DOMAIN r /\ r[j - 1] = q[j] /\ (j - 1) + 1 = j)
  BY <1>1
<1>4. ASSUME \A i \in DOMAIN r : r[i].of # o
      PROVE  o \in next <=> o \in s
  <2>1. \A j \in DOMAIN q : q[j].of = o => j = 1
    BY <1>3, <1>4
  <2>2. CASE q[1].of = o
    <3>1. 1 \in DOMAIN q /\ \A j \in DOMAIN q : q[j].of = o => j =< 1
      BY <1>1, <2>1
    <3>2. q[1].type = "add" <=> o \in s
      BY <2>2, <3>1 DEF Follows
    <3>3. QED
      BY <1>1, <2>2, <3>2
  <2>3. CASE q[1].of # o
    <3>1. o \in cache <=> o \in s
      BY <2>1, <2>3 DEF Follows
    <3>2. QED
      BY <1>1, <2>3, <3>1
  <2>4. QED
    BY <2>2, <2>3
<1>5. ASSUME NEW i \in DOMAIN r, r[i].of = o, \A j \in DOMAIN r : r[j].of = o => j =< i
      PROVE  r[i].type = "add" <=> o \in s
  <2>1. i + 1 \in DOMAIN q /\ q[i + 1].of = o /\ r[i] = q[i + 1]
    BY <1>2, <1>5
  <2>2. ASSUME NEW j \in DOMAIN q, q[j].of = o
        PROVE  j =< i + 1
    <3>1. CASE j = 1
      BY <1>1, <3>1
    <3>2. CASE j # 1
      <4>1. j - 1 =< i
        BY <1>3, <1>5, <2>2, <3>2
      <4>2. QED
        BY <1>1, <4>1
    <3>3. QED
      BY <3>1, <3>2
  <2>3. QED
    BY <2>1, <2>2 DEF Follows
<1>6. QED
  BY <1>4, <1>5 DEF Follows, r

-----------------------------------------------------------------------------
(* Init and the steps *)

LEMMA ObjectsOfKind ==
  ASSUME NEW k \in Kind
  PROVE  Object[k] \in SUBSET All /\ \A s \in SUBSET Object[k] : IsFiniteSet(s)
<1>1. Object[k] \in SUBSET All
  BY DEF All
<1>2. IsFiniteSet(Object[k])
  BY ProcessAssumption
<1>3. QED
  BY <1>1, <1>2, FS_Subset

LEMMA InitProcess == Init => ProcessInv
<1> SUFFICES ASSUME Init
             PROVE  ProcessInv
  OBVIOUS
<1>1. << >> \in Seq(Event)
  OBVIOUS
<1>2. Typed
  BY <1>1 DEF Init, Typed, All, Phase
<1>3. Phases
  BY DEF Init, Phases
<1>4. \A k \in Kind : Kept(k)
  BY DEF Init, Kept, Sorted, Unstarted, Unregistered
<1>5. QED
  BY <1>2, <1>3, <1>4 DEF ProcessInv

\* A step that leaves a kind alone but for its objects at the API server.
LEMMA LeftAlone ==
  ASSUME NEW k \in Kind, Kept(k),
         api'[k] \subseteq Object[k], informer'[k] = informer[k], store'[k] = store[k],
         queue'[k] = queue[k], cached'[k] = cached[k], registered' = registered
  PROVE  Kept(k)'
BY DEF Kept, Sorted, Unstarted, Unregistered, Follows

LEMMA ChangeKeeps ==
  ASSUME ProcessInv, NEW k \in Kind, NEW o \in Object[k], Change(k, o)
  PROVE  ProcessInv'
<1>1. Typed'
  <2>1. o \in All
    BY ObjectsOfKind
  <2>2. api' \in [Kind -> SUBSET All]
    BY <2>1 DEF ProcessInv, Typed, Change
  <2>3. QED
    BY <2>2 DEF ProcessInv, Typed, Change, informers, servers
<1>2. Phases'
  BY DEF ProcessInv, Phases, Change, informers, servers
<1>3. ASSUME NEW l \in Kind
      PROVE  Kept(l)'
  <2>1. Kept(l)
    BY DEF ProcessInv
  <2>2. api'[l] \subseteq Object[l]
    BY <2>1 DEF ProcessInv, Typed, Kept, Sorted, Change
  <2>3. QED
    BY <2>1, <2>2, LeftAlone DEF Change, informers, servers
<1>4. QED
  BY <1>1, <1>2, <1>3 DEF ProcessInv

\* The store of an informer that runs changes, whether or not its handler is told.
LEMMA DeliverKeeps ==
  ASSUME ProcessInv, NEW k \in Kind, NEW t \in SUBSET Object[k],
         NEW gone \in {"delete", "tombstone"}, Deliver(k, t, gone), informer[k] # "off",
         informer' = informer \/ informer' = [informer EXCEPT ![k] = "synced"]
  PROVE  ProcessInv'
<1>1. /\ store' = [store EXCEPT ![k] = t]
      /\ UNCHANGED <<api, registered, cached, main, ready, listening>>
  BY DEF Deliver, servers
<1>2. PICK told \in Notify(store[k], t, gone) :
        queue' = [queue EXCEPT ![k] = IF k \in registered THEN queue[k] \o told ELSE queue[k]]
  BY DEF Deliver
<1>3. Kept(k) /\ Typed /\ store[k] \subseteq Object[k] /\ queue[k] \in Seq(Event)
  BY DEF ProcessInv, Kept, Sorted, Typed
<1>4. Tells(told, store[k], t)
  <2>1. /\ store[k] \in SUBSET All /\ IsFiniteSet(store[k])
        /\ t \in SUBSET All /\ IsFiniteSet(t)
    BY <1>3, ObjectsOfKind
  <2>2. QED
    BY <2>1, NotifyTells
<1>5. queue[k] \o told \in Seq(Event)
  BY <1>3, <1>4, ConcatProperties DEF Tells
<1>6. informer' \in [Kind -> {"off", "listing", "synced"}]
  BY <1>3 DEF Typed
<1>7. \A l \in Kind : (informer'[l] = "off" <=> informer[l] = "off")
                      /\ (l # k => informer'[l] = informer[l])
  BY <1>3 DEF Typed
<1>8. Typed'
  <2>1. t \in SUBSET All
    BY ObjectsOfKind
  <2>2. store' \in [Kind -> SUBSET All]
    BY <1>1, <1>3, <2>1 DEF Typed
  <2>3. queue' \in [Kind -> Seq(Event)]
    BY <1>2, <1>3, <1>5 DEF Typed
  <2>4. QED
    BY <1>1, <1>3, <1>6, <2>2, <2>3 DEF Typed
<1>9. Phases'
  BY <1>1, <1>7 DEF ProcessInv, Phases
<1>10. Kept(k)'
  <2>1. store'[k] = t
    BY <1>1, <1>3 DEF Typed
  <2>2. queue'[k] = IF k \in registered THEN queue[k] \o told ELSE queue[k]
    BY <1>2, <1>3 DEF Typed
  <2>3. Sorted(k)'
    <3>1. ASSUME NEW i \in DOMAIN (queue[k] \o told)
          PROVE  (queue[k] \o told)[i].of \in Object[k]
      <4>1. told \in Seq(Event) /\ \A j \in DOMAIN told : told[j].of \in Object[k]
        BY <1>3, <1>4 DEF Tells
      <4>2. \A j \in DOMAIN queue[k] : queue[k][j].of \in Object[k]
        BY <1>3 DEF Kept, Sorted
      <4>3. /\ Len(queue[k] \o told) = Len(queue[k]) + Len(told)
            /\ \A j \in 1 .. Len(queue[k]) + Len(told) : (queue[k] \o told)[j] =
                 IF j =< Len(queue[k]) THEN queue[k][j] ELSE told[j - Len(queue[k])]
        BY <1>3, <4>1, ConcatProperties
      <4>4. /\ Len(queue[k]) \in Nat /\ Len(told) \in Nat
            /\ DOMAIN queue[k] = 1 .. Len(queue[k]) /\ DOMAIN told = 1 .. Len(told)
        BY <1>3, <4>1
      <4>5. i \in 1 .. Len(queue[k]) + Len(told)
        BY <1>5, <4>3
      <4>6. CASE i =< Len(queue[k])
        BY <4>2, <4>3, <4>4, <4>5, <4>6
      <4>7. CASE ~ (i =< Len(queue[k]))
        <5>1. i - Len(queue[k]) \in DOMAIN told
          BY <4>4, <4>5, <4>7
        <5>2. QED
          BY <4>1, <4>3, <4>5, <4>7, <5>1
      <4>8. QED
        BY <4>6, <4>7
    <3>2. QED
      BY <1>1, <1>3, <2>1, <2>2, <3>1 DEF Kept, Sorted
  <2>4. Unstarted(k)' /\ Unregistered(k)'
    BY <1>1, <1>3, <1>7, <2>2 DEF Kept, Unstarted, Unregistered
  <2>5. ASSUME k \in registered, NEW o \in Object[k]
        PROVE  Follows(queue[k] \o told, cached[k], t, o)
    BY <1>3, <1>4, <2>5, DeliveredFollows DEF Kept
  <2>6. QED
    BY <1>1, <2>1, <2>2, <2>3, <2>4, <2>5 DEF Kept
<1>11. ASSUME NEW l \in Kind, l # k
       PROVE  Kept(l)'
  <2>1. Kept(l) /\ api[l] \subseteq Object[l]
    BY DEF ProcessInv, Kept, Sorted
  <2>2. store'[l] = store[l] /\ queue'[l] = queue[l] /\ informer'[l] = informer[l]
    BY <1>1, <1>2, <1>3, <1>7, <1>11 DEF Typed
  <2>3. QED
    BY <1>1, <2>1, <2>2, LeftAlone
<1>12. QED
  BY <1>8, <1>9, <1>10, <1>11 DEF ProcessInv

LEMMA InformerKeeps ==
  ASSUME ProcessInv, NEW k \in Kind, Informer(k)
  PROVE  ProcessInv'
<1>1. api[k] \in SUBSET Object[k] /\ store[k] \in SUBSET Object[k]
  BY DEF ProcessInv, Kept, Sorted
<1>2. CASE FirstList(k)
  BY <1>1, <1>2, DeliverKeeps DEF FirstList
<1>3. CASE Watch(k)
  <2>1. PICK o \in Object[k] :
          Deliver(k, IF o \in api[k] THEN store[k] \union {o} ELSE store[k] \ {o}, "delete")
    BY <1>3 DEF Watch
  <2> DEFINE t == IF o \in api[k] THEN store[k] \union {o} ELSE store[k] \ {o}
  <2>2. t \in SUBSET Object[k]
    BY <1>1
  <2>3. informer[k] # "off" /\ informer' = informer
    BY <1>3 DEF Watch
  <2>4. Deliver(k, t, "delete")
    BY <2>1
  <2> HIDE DEF t
  <2>5. QED
    BY <2>2, <2>3, <2>4, DeliverKeeps
<1>4. CASE Relist(k)
  BY <1>1, <1>4, DeliverKeeps DEF Relist
<1>5. QED
  BY <1>2, <1>3, <1>4 DEF Informer

LEMMA HandleKeeps ==
  ASSUME ProcessInv, NEW k \in Kind, Handle(k)
  PROVE  ProcessInv'
<1> DEFINE event == Head(queue[k])
           next == IF event.type = "add" THEN cached[k] \union {event.of} ELSE cached[k] \ {event.of}
<1>1. /\ queue[k] # << >> /\ queue' = [queue EXCEPT ![k] = Tail(queue[k])]
      /\ cached' = [cached EXCEPT ![k] = next]
      /\ UNCHANGED <<api, informer, store, registered, main, ready, listening>>
  BY DEF Handle, servers
<1>2. Kept(k) /\ Typed /\ queue[k] \in Seq(Event) /\ cached[k] \subseteq Object[k]
  BY DEF ProcessInv, Kept, Sorted, Typed
<1>3. /\ Tail(queue[k]) \in Seq(Event) /\ 1 \in DOMAIN queue[k] /\ event = queue[k][1]
      /\ \A i \in DOMAIN Tail(queue[k]) : i + 1 \in DOMAIN queue[k]
                                          /\ Tail(queue[k])[i] = queue[k][i + 1]
  BY <1>1, <1>2
<1>4. event.of \in Object[k]
  BY <1>2, <1>3 DEF Kept, Sorted
<1>5. next \subseteq Object[k]
  BY <1>2, <1>4
<1>6. ASSUME k \in registered, NEW o \in Object[k]
      PROVE  Follows(Tail(queue[k]), next, store[k], o)
  BY <1>1, <1>2, <1>6, HandledFollows DEF Kept
<1> HIDE DEF event, next
<1>7. Typed'
  <2>1. next \in SUBSET All
    BY <1>5, ObjectsOfKind
  <2>2. QED
    BY <1>1, <1>2, <1>3, <2>1 DEF Typed
<1>8. Phases'
  BY <1>1 DEF ProcessInv, Phases
<1>9. Kept(k)'
  <2>1. queue'[k] = Tail(queue[k]) /\ cached'[k] = next
    BY <1>1, <1>2 DEF Typed
  <2>2. k \in registered
    BY <1>1, <1>2 DEF Kept, Unregistered
  <2>3. Sorted(k)'
    BY <1>1, <1>2, <1>3, <1>5, <2>1 DEF Kept, Sorted
  <2>4. QED
    BY <1>1, <1>2, <1>6, <2>1, <2>2, <2>3 DEF Kept, Unstarted, Unregistered
<1>10. ASSUME NEW l \in Kind, l # k
       PROVE  Kept(l)'
  <2>1. Kept(l) /\ api[l] \subseteq Object[l]
    BY DEF ProcessInv, Kept, Sorted
  <2>2. cached'[l] = cached[l] /\ queue'[l] = queue[l]
    BY <1>1, <1>2, <1>10 DEF Typed
  <2>3. QED
    BY <1>1, <2>1, <2>2, LeftAlone
<1>11. QED
  BY <1>7, <1>8, <1>9, <1>10 DEF ProcessInv

LEMMA StartKeeps ==
  ASSUME ProcessInv, StartInformers
  PROVE  ProcessInv'
<1>1. Typed /\ registered = {} /\ \A k \in Kind : Kept(k) /\ informer[k] = "off"
  BY DEF ProcessInv, Phases, StartInformers
<1>2. /\ registered' = {"slices"} /\ informer' = [k \in Kind |-> "listing"]
      /\ main' = "wait_slices"
      /\ UNCHANGED <<api, store, queue, cached, ready, listening>>
  BY DEF StartInformers, servers
<1>3. Typed'
  BY <1>1, <1>2 DEF Typed, Kind, Phase
<1>4. Phases'
  BY <1>2 DEF ProcessInv, Phases, StartInformers
<1>5. ASSUME NEW k \in Kind
      PROVE  Kept(k)'
  <2>1. store[k] = {} /\ queue[k] = << >> /\ cached[k] = {}
    BY <1>1 DEF Kept, Unstarted, Unregistered
  <2>2. \A o : Follows(<< >>, {}, {}, o)
    BY DEF Follows
  <2>3. QED
    BY <1>1, <1>2, <2>1, <2>2 DEF Kept, Sorted, Unstarted, Unregistered
<1>6. QED
  BY <1>3, <1>4, <1>5 DEF ProcessInv

LEMMA RegisterKeeps ==
  ASSUME ProcessInv, RegisterClaimHandler
  PROVE  ProcessInv'
<1>1. Typed /\ registered = {"slices"} /\ \A k \in Kind : Kept(k)
  BY DEF ProcessInv, Phases, RegisterClaimHandler
<1>2. /\ main' = "wait_claims" /\ registered' = Kind
      /\ UNCHANGED <<api, informer, store, cached, ready, listening>>
  BY DEF RegisterClaimHandler, servers
<1>3. PICK told \in Notify({}, store["claims"], "delete") :
        queue' = [queue EXCEPT !["claims"] = told]
  BY DEF RegisterClaimHandler
<1>4. "claims" \in Kind /\ "slices" \in Kind
  BY DEF Kind
<1>5. store["claims"] \in SUBSET Object["claims"] /\ cached["claims"] = {}
  BY <1>1, <1>4 DEF Kept, Sorted, Unregistered
<1>6. Tells(told, {}, store["claims"])
  <2>1. {} \in SUBSET All /\ IsFiniteSet({})
    BY FS_EmptySet
  <2>2. store["claims"] \in SUBSET All /\ IsFiniteSet(store["claims"])
    BY <1>4, <1>5, ObjectsOfKind
  <2>3. QED
    BY <2>1, <2>2, NotifyTells
<1>7. Typed'
  BY <1>1, <1>2, <1>3, <1>4, <1>6 DEF Typed, Tells, Phase
<1>8. Phases'
  BY <1>2 DEF ProcessInv, Phases, RegisterClaimHandler
<1>9. Kept("claims")'
  <2>1. queue'["claims"] = told
    BY <1>1, <1>3, <1>4 DEF Typed
  <2>2. \A o : Follows(told, {}, store["claims"], o)
    BY <1>6, RegisteredFollows
  <2>3. Sorted("claims")'
    BY <1>1, <1>2, <1>4, <1>5, <1>6, <2>1 DEF Kept, Sorted, Tells
  <2>4. QED
    BY <1>1, <1>2, <1>4, <1>5, <2>1, <2>2, <2>3 DEF Kept, Unstarted, Unregistered
<1>10. Kept("slices")'
  <2>1. queue'["slices"] = queue["slices"] /\ "slices" \in registered
    BY <1>1, <1>3, <1>4 DEF Typed
  <2>2. QED
    BY <1>1, <1>2, <1>4, <2>1 DEF Kept, Sorted, Unstarted, Unregistered
<1>11. QED
  BY <1>7, <1>8, <1>9, <1>10 DEF ProcessInv, Kind

\* The other steps of Run, the servers and the signal touch no kind.
LEMMA ServeKeeps ==
  ASSUME ProcessInv,
         GiveUp \/ BecomeReady \/ StopCache \/ Signal
           \/ Shutdown("serve", "metrics", "shutdown") \/ Shutdown("shutdown", "health", "stop")
           \/ \E s \in Server : ListenAndServe(s)
  PROVE  ProcessInv'
<1>1. UNCHANGED <<api, informer, store, queue, cached, registered>>
  BY DEF GiveUp, BecomeReady, StopCache, Signal, Shutdown, ListenAndServe, informers
<1>2. Typed' /\ Phases'
  <2>1. CASE GiveUp
    BY <2>1 DEF ProcessInv, Typed, Phases, Phase, GiveUp, informers, servers
  <2>2. CASE BecomeReady
    BY <2>2 DEF ProcessInv, Typed, Phases, Phase, BecomeReady, informers, servers
  <2>3. CASE StopCache
    BY <2>3 DEF ProcessInv, Typed, Phases, Phase, StopCache, informers, servers
  <2>4. CASE Signal
    BY <2>4 DEF ProcessInv, Typed, Phases, Phase, Signal, informers, servers
  <2>5. CASE Shutdown("serve", "metrics", "shutdown")
    BY <2>5 DEF ProcessInv, Typed, Phases, Phase, Shutdown, informers, servers
  <2>6. CASE Shutdown("shutdown", "health", "stop")
    BY <2>6 DEF ProcessInv, Typed, Phases, Phase, Shutdown, informers, servers
  <2>7. ASSUME NEW s \in Server, ListenAndServe(s)
        PROVE  Typed' /\ Phases'
    BY <2>7 DEF ProcessInv, Typed, Phases, Phase, ListenAndServe, informers, servers
  <2>8. QED
    BY <2>1, <2>2, <2>3, <2>4, <2>5, <2>6, <2>7
<1>3. ASSUME NEW k \in Kind
      PROVE  Kept(k)'
  <2>1. Kept(k) /\ api[k] \subseteq Object[k]
    BY DEF ProcessInv, Kept, Sorted
  <2>2. QED
    BY <1>1, <2>1, LeftAlone
<1>4. QED
  BY <1>2, <1>3 DEF ProcessInv

LEMMA NextKeeps == ProcessInv /\ [Next]_vars => ProcessInv'
<1> SUFFICES ASSUME ProcessInv, [Next]_vars
             PROVE  ProcessInv'
  OBVIOUS
<1>1. ASSUME NEW k \in Kind, NEW o \in Object[k], Change(k, o)
      PROVE  ProcessInv'
  BY <1>1, ChangeKeeps
<1>2. ASSUME NEW k \in Kind, Informer(k) \/ Handle(k)
      PROVE  ProcessInv'
  BY <1>2, InformerKeeps, HandleKeeps
<1>3. CASE Run
  BY <1>3, StartKeeps, RegisterKeeps, ServeKeeps DEF Run
<1>4. CASE \E s \in Server : ListenAndServe(s)
  BY <1>4, ServeKeeps
<1>5. CASE Signal
  BY <1>5, ServeKeeps
<1>6. CASE UNCHANGED vars
  BY <1>6 DEF vars, informers, servers, ProcessInv, Typed, Phases, Kept, Sorted, Unstarted,
              Unregistered, Follows
<1>7. QED
  BY <1>1, <1>2, <1>3, <1>4, <1>5, <1>6 DEF Next

LEMMA Invariance == Spec => []ProcessInv
<1>1. QED
  BY InitProcess, NextKeeps, PTL DEF Spec

-----------------------------------------------------------------------------
(* What follows *)

\* As long as the health server answers, /readyz finds the cache ready: Run
\* starts it once the cache is ready and shuts it down before the cache stops.
\* (monitor.go:130, 169, 203-218)
THEOREM ServedReady == Spec => []ReadyWhileServed
<1>1. ProcessInv => ReadyWhileServed
  BY DEF ProcessInv, Phases, ReadyWhileServed
<1>2. QED
  BY <1>1, Invariance, PTL

\* Neither the handlers' order of registration nor a watch that breaks loses an
\* object: whatever is registered will have cached what its informer's store
\* holds, once it has handled its queue. (cache.go:66-117, 129-220)
THEOREM CacheMissesNothing == Spec => []NothingMissed
BY Invariance, InvMissesNothing, PTL

\* In particular a cache whose handlers are registered and idle holds the very
\* objects of the informers' stores, neither fewer nor more.
QuietInLine == \A k \in registered : queue[k] = << >> => cached[k] = store[k]

THEOREM QuietCacheInLine == Spec => []QuietInLine
<1>1. ProcessInv => QuietInLine
  <2> SUFFICES ASSUME ProcessInv, NEW k \in registered, queue[k] = << >>
               PROVE  cached[k] = store[k]
    BY DEF QuietInLine
  <2>1. k \in Kind /\ Kept(k)
    BY DEF ProcessInv, Typed
  <2>2. cached[k] \subseteq Object[k] /\ store[k] \subseteq Object[k]
    BY <2>1 DEF Kept, Sorted
  <2>3. \A o \in Object[k] : o \in cached[k] <=> o \in store[k]
    BY <2>1 DEF Kept, Follows
  <2>4. QED
    BY <2>2, <2>3
<1>2. QED
  BY <1>1, Invariance, PTL
=============================================================================
