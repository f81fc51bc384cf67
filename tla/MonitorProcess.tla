--------------------------- MODULE MonitorProcess ---------------------------
(***************************************************************************)
(* The monitor process: Cache.Start and Cache.Stop (pkg/cache/cache.go)    *)
(* and Run (cmd/monitor/app/monitor.go), from the start of the informers   *)
(* to the shutdown.                                                        *)
(*                                                                         *)
(* For each kind of object an informer keeps a store in line with the API  *)
(* server and notifies a handler through a queue; the handlers bring the   *)
(* usage cache in line.  What they do with an object is in MonitorCache;   *)
(* here it is in the cache or not.  The informers are client-go's, modelled*)
(* by what Start relies on: factory.Start runs the informers requested so  *)
(* far, HasSynced says that the first list is in the store, a handler that *)
(* registers late is sent the objects of the store, and a deletion that    *)
(* the watch missed arrives as a tombstone.                                *)
(***************************************************************************)
EXTENDS Naturals, Sequences, FiniteSets, SequencesExt

CONSTANTS
  Object,     \* Object[k]: the ResourceSlices and the ResourceClaims
  MaxChanges  \* bound: changes at the API server

Kind == {"slices", "claims"}
Server == {"metrics", "health"}

ASSUME ProcessAssumption ==
  /\ DOMAIN Object = Kind /\ \A k \in Kind : IsFiniteSet(Object[k])
  /\ MaxChanges \in Nat

VARIABLES
  api,         \* the objects at the API server
  changes,     \* how often they have changed
  informer,    \* "off", "listing" until the first list, then "synced"
  store,       \* the informers' stores
  registered,  \* the kinds whose handler is registered
  queue,       \* notifications not yet handled
  cached,      \* the objects that the usage cache has taken in
  main,        \* where Run is
  ready,       \* Cache.ready
  listening,   \* HTTP servers that accept requests
  broken,      \* HTTP servers whose ListenAndServe failed
  signalled    \* the context is done

informers == <<informer, store, queue>>
servers == <<listening, broken>>
vars == <<api, changes, informers, registered, cached, main, ready, servers, signalled>>

Stopped == main = "exited"

-----------------------------------------------------------------------------
(* The API server and the informers *)

Change(k, o) ==
  /\ changes < MaxChanges
  /\ changes' = changes + 1
  /\ api' = [api EXCEPT ![k] = IF o \in @ THEN @ \ {o} ELSE @ \union {o}]
  /\ UNCHANGED <<informers, registered, cached, main, ready, servers, signalled>>

\* Notifications of one type for the objects of S, in any order.
Announce(type, S) == {[i \in DOMAIN q |-> [type |-> type, of |-> q[i]]] : q \in SetToSeqs(S)}

\* The notifications that bring a handler from store s to store t.
Notify(s, t, gone) ==
  UNION {{adds \o dels : adds \in Announce("add", t \ s)} : dels \in Announce(gone, s \ t)}

\* The store of kind k becomes t, and its handler, if any, is told.
Deliver(k, t, gone) ==
  /\ store' = [store EXCEPT ![k] = t]
  /\ \E told \in Notify(store[k], t, gone) :
       queue' = [queue EXCEPT ![k] = IF k \in registered THEN @ \o told ELSE @]
  /\ UNCHANGED <<api, changes, registered, cached, main, ready, servers, signalled>>

FirstList(k) ==
  /\ ~Stopped
  /\ informer[k] = "listing"
  /\ informer' = [informer EXCEPT ![k] = "synced"]
  /\ Deliver(k, api[k], "tombstone")

\* A watch event for one object.
Watch(k) ==
  /\ ~Stopped
  /\ informer[k] = "synced"
  /\ \E o \in Object[k] : /\ o \in store[k] <=> o \notin api[k]
                          /\ Deliver(k, IF o \in api[k] THEN store[k] \union {o}
                                                        ELSE store[k] \ {o}, "delete")
  /\ UNCHANGED informer

\* A new list after the watch broke.
Relist(k) ==
  /\ ~Stopped
  /\ informer[k] = "synced"
  /\ store[k] # api[k]
  /\ Deliver(k, api[k], "tombstone")
  /\ UNCHANGED informer

\* Mutant of Handle: the handlers know no tombstones.
HandleEventsOnly(k) ==
  /\ ~Stopped
  /\ queue[k] # << >>
  /\ queue' = [queue EXCEPT ![k] = Tail(@)]
  /\ LET event == Head(queue[k]) IN
     cached' = [cached EXCEPT ![k] = CASE event.type = "add" -> @ \union {event.of}
                                       [] event.type = "delete" -> @ \ {event.of}
                                       [] OTHER -> @]
  /\ UNCHANGED <<api, changes, informer, store, registered, main, ready, servers, signalled>>

\* The handlers of cache.go take one notification.
Handle(k) ==
  /\ ~Stopped
  /\ queue[k] # << >>
  /\ queue' = [queue EXCEPT ![k] = Tail(@)]
  /\ LET event == Head(queue[k]) IN
     cached' = [cached EXCEPT ![k] = IF event.type = "add" THEN @ \union {event.of}
                                                           ELSE @ \ {event.of}]
  /\ UNCHANGED <<api, changes, informer, store, registered, main, ready, servers, signalled>>

-----------------------------------------------------------------------------
(* Start *)

\* The device configuration or the client cannot be had: Run returns the error.
GiveUp ==
  /\ main = "init"
  /\ main' = "exited"
  /\ UNCHANGED <<api, changes, informers, registered, cached, ready, servers, signalled>>

\* Mutant of StartInformers: the claim informer is requested later only.
StartSliceInformer ==
  /\ main = "init"
  /\ main' = "wait_slices"
  /\ registered' = {"slices"}
  /\ informer' = [informer EXCEPT !["slices"] = "listing"]
  /\ UNCHANGED <<api, changes, store, queue, cached, ready, servers, signalled>>

\* The slice handler is registered and the factory started, with the claim
\* informer that claimLister has requested.
StartInformers ==
  /\ main = "init"
  /\ main' = "wait_slices"
  /\ registered' = {"slices"}
  /\ informer' = [k \in Kind |-> "listing"]
  /\ UNCHANGED <<api, changes, store, queue, cached, ready, servers, signalled>>

\* Once the slices are in their store the claim handler is registered.
RegisterClaimHandler ==
  /\ main = "wait_slices"
  /\ informer["slices"] = "synced"
  /\ main' = "wait_claims"
  /\ registered' = Kind
  /\ \E told \in Notify({}, store["claims"], "delete") :
       queue' = [queue EXCEPT !["claims"] = told]
  /\ UNCHANGED <<api, changes, informer, store, cached, ready, servers, signalled>>

\* Once the claims are in theirs the cache is ready, and Run goes on to serve.
BecomeReady ==
  /\ main = "wait_claims"
  /\ informer["claims"] = "synced"
  /\ ready' = TRUE
  /\ main' = "serve"
  /\ UNCHANGED <<api, changes, informers, registered, cached, servers, signalled>>

-----------------------------------------------------------------------------
(* Serving and shutdown *)

\* The goroutine of a server: a failure to listen is logged and nothing else.
ListenAndServe(s) ==
  /\ main = "serve" \/ (main = "shutdown" /\ s = "health")
  /\ s \notin listening \union broken
  /\ \/ listening' = listening \union {s} /\ UNCHANGED broken
     \/ broken' = broken \union {s} /\ UNCHANGED listening
  /\ UNCHANGED <<api, changes, informers, registered, cached, main, ready, signalled>>

Signal ==
  /\ ~signalled
  /\ ~Stopped
  /\ signalled' = TRUE
  /\ UNCHANGED <<api, changes, informers, registered, cached, main, ready, servers>>

\* Mutant of Shutdown: the cache is stopped before the health server.
ShutdownUnready(from, s, to) ==
  /\ main = from
  /\ signalled
  /\ main' = to
  /\ listening' = listening \ {s}
  /\ ready' = FALSE
  /\ UNCHANGED <<api, changes, informers, registered, cached, broken, signalled>>

\* Mutant of Shutdown: it waits for a server that never listened.
ShutdownListening(from, s, to) ==
  /\ main = from
  /\ signalled
  /\ s \in listening
  /\ main' = to
  /\ listening' = listening \ {s}
  /\ UNCHANGED <<api, changes, informers, registered, cached, ready, broken, signalled>>

\* Shutdown closes a server; one that is not listening will not do so any more.
Shutdown(from, s, to) ==
  /\ main = from
  /\ signalled
  /\ main' = to
  /\ listening' = listening \ {s}
  /\ UNCHANGED <<api, changes, informers, registered, cached, ready, broken, signalled>>

\* The deferred Stop, last of all.
StopCache ==
  /\ main = "stop"
  /\ main' = "exited"
  /\ ready' = FALSE
  /\ UNCHANGED <<api, changes, informers, registered, cached, servers, signalled>>

-----------------------------------------------------------------------------
Init ==
  /\ api \in {a \in [Kind -> SUBSET UNION {Object[k] : k \in Kind}] :
               \A k \in Kind : a[k] \subseteq Object[k]}
  /\ changes = 0
  /\ informer = [k \in Kind |-> "off"]
  /\ store = [k \in Kind |-> {}]
  /\ registered = {}
  /\ queue = [k \in Kind |-> << >>]
  /\ cached = [k \in Kind |-> {}]
  /\ main = "init"
  /\ ready = FALSE
  /\ listening = {}
  /\ broken = {}
  /\ signalled = FALSE

Run == \/ GiveUp
       \/ StartInformers
       \/ RegisterClaimHandler
       \/ BecomeReady
       \/ Shutdown("serve", "metrics", "shutdown")
       \/ Shutdown("shutdown", "health", "stop")
       \/ StopCache

Informer(k) == FirstList(k) \/ Watch(k) \/ Relist(k)

Next == \/ \E k \in Kind : \E o \in Object[k] : Change(k, o)
        \/ \E k \in Kind : Informer(k) \/ Handle(k)
        \/ Run
        \/ \E s \in Server : ListenAndServe(s)
        \/ Signal

\* Goroutines are scheduled, and the API server answers: a list or a watch
\* event comes when there is something to report.  Objects need not change, and
\* nobody has to send a signal.
Fairness == /\ WF_vars(Run)
            /\ \A k \in Kind : WF_vars(Informer(k)) /\ WF_vars(Handle(k))
            /\ \A s \in Server : WF_vars(ListenAndServe(s))

Spec == Init /\ [][Next]_vars /\ Fairness

-----------------------------------------------------------------------------
(* Properties *)

\* A monitor that has its configuration becomes ready: the order in which Start
\* requests, starts, waits for and registers with its two informers
\* (cache.go:66) leaves none of them waited for that was never started.
BecomesReady == <>(ready \/ Stopped)

\* Whatever objects come and go before, during and after the start, and however
\* the watch breaks, the cache ends up with the objects of the API server once
\* they change no more, unless the monitor is told to stop: no object falls
\* between the store's sync and the handler's registration (cache.go:89-101),
\* and none that is gone stays (cache.go:149-162, 200-211).
CacheFollows == <>[](Stopped \/ signalled \/ cached = api)

\* The notifications about an object that its handler has not taken yet.
Pending(k, o) == {i \in DOMAIN queue[k] : queue[k][i].of = o}

\* The cache misses nothing, at any moment: once a handler is registered, its
\* cache and the last notification still to come about an object agree with
\* the informer's store, whether the object came before or after the
\* registration and whether the watch saw it go or a later list did not show it.
NothingMissed ==
  \A k \in registered : \A o \in Object[k] :
    /\ Pending(k, o) = {} => (o \in cached[k] <=> o \in store[k])
    /\ \A i \in Pending(k, o) :
         (\A j \in Pending(k, o) : j =< i) => (queue[k][i].type = "add" <=> o \in store[k])

\* Told to stop, Run returns, whichever of its servers runs (monitor.go:203-218).
StopsOnSignal == signalled ~> Stopped

\* As long as the health server answers, the cache is ready: /readyz reports the
\* cache (monitor.go:169) and is closed before the cache stops (monitor.go:130).
ReadyWhileServed == "health" \in listening => ready
=============================================================================
