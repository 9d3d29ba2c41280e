------------------------------ MODULE MockServer ------------------------------
(***************************************************************************)
(* The life of a mock endpoint, src/internal/mockllm/server.go: concurrent *)
(* calls of Start, Close and Shutdown, the goroutine that serves, the one  *)
(* that closes the server when the context of StartContext is done, and    *)
(* requests.  Of net/http.Server the model keeps what the calls rely on:   *)
(* a stopped server refuses to serve, stopping closes the listener being   *)
(* served, Close cuts connections, Shutdown waits for them, and neither    *)
(* knows of a hijacked one.  Accepting a connection and registering it is  *)
(* one step.                                                               *)
(***************************************************************************)
EXTENDS Integers, FiniteSets

CONSTANTS
    Starters,       \* goroutines that call StartContext
    Stoppers,       \* goroutines that call Close or Shutdown
    Watcher,        \* the goroutine that waits for ctx and then calls Close
    Requests        \* connections, one request each

ASSUME WatcherAssumption == Watcher \notin Stoppers /\ Starters \cap Stoppers = {}

Closers == Stoppers \cup {Watcher}

VARIABLES
    start,      \* where each call of StartContext is
    stop,       \* where each call of Close or Shutdown is
    started, closed,    \* the fields of Server
    ln,         \* s.ln is set
    http,       \* s.http: "nil", "new", or "stopped" once net/http was told to
    listener,   \* the bound socket: "none", "open", "closed"
    serve,      \* the serve goroutine: "none", "starting", "accepting", "ended", "gone"
    ctxDone,    \* the context of StartContext is done
    conn        \* each request: "none", "active", "hijacked", "cut", "finished"

vars == <<start, stop, started, closed, ln, http, listener, serve, ctxDone, conn>>

Init ==
    /\ start = [s \in Starters |-> "idle"]
    /\ stop = [c \in Closers |-> IF c = Watcher THEN "unborn" ELSE "idle"]
    /\ started = FALSE /\ closed = FALSE /\ ln = FALSE
    /\ http = "nil" /\ listener = "none" /\ serve = "none"
    /\ ctxDone = FALSE
    /\ conn = [r \in Requests |-> "none"]

Goes(s, from, to) == start[s] = from /\ start' = [start EXCEPT ![s] = to]
StopGoes(c, from, to) == stop[c] = from /\ stop' = [stop EXCEPT ![c] = to]

Active == {r \in Requests : conn[r] = "active"}
-----------------------------------------------------------------------------
(* StartContext.                                                           *)

\* Mutant: a second call is not refused.
StartBeginsAgain(s) ==
    /\ Goes(s, "idle", "listening")
    /\ started' = TRUE
    /\ UNCHANGED <<stop, closed, ln, http, listener, serve, ctxDone, conn>>

StartBegins(s) ==
    /\ Goes(s, "idle", IF started THEN "refused" ELSE "listening")
    /\ started' = TRUE
    /\ UNCHANGED <<stop, closed, ln, http, listener, serve, ctxDone, conn>>

\* net.Listen; a failure leaves started set.
Listens(s) ==
    /\ \/ Goes(s, "listening", "bound") /\ listener' = "open"
       \/ Goes(s, "listening", "failed") /\ UNCHANGED listener
    /\ UNCHANGED <<stop, started, closed, ln, http, serve, ctxDone, conn>>

\* The second critical section: s.ln is set, unless Close was called already.
Publishes(s) ==
    /\ Goes(s, "bound", IF closed THEN "returned" ELSE "published")
    /\ ln' = ~closed
    /\ listener' = IF closed THEN "closed" ELSE listener
    /\ UNCHANGED <<stop, started, closed, http, serve, ctxDone, conn>>

\* s.http is set after the unlock.
SetsHTTP(s) ==
    /\ Goes(s, "published", "ready")
    /\ http' = "new"
    /\ UNCHANGED <<stop, started, closed, ln, listener, serve, ctxDone, conn>>

\* The goroutines are started and StartContext returns.
Spawns(s) ==
    /\ Goes(s, "ready", "returned")
    /\ serve' = "starting"
    /\ stop' = [stop EXCEPT ![Watcher] = "idle"]
    /\ UNCHANGED <<started, closed, ln, http, listener, ctxDone, conn>>

-----------------------------------------------------------------------------
(* The serve goroutine and requests.                                       *)

\* Mutant: Serve begins whatever happened before.
ServeBeginsAnyhow ==
    /\ serve = "starting"
    /\ serve' = "accepting"
    /\ UNCHANGED <<start, stop, started, closed, ln, http, listener, ctxDone, conn>>

\* Serve registers the listener, or closes it when the server was stopped.
ServeBegins ==
    /\ serve = "starting"
    /\ serve' = IF http = "stopped" THEN "ended" ELSE "accepting"
    /\ listener' = IF http = "stopped" THEN "closed" ELSE listener
    /\ UNCHANGED <<start, stop, started, closed, ln, http, ctxDone, conn>>

ServeEnds ==
    /\ serve = "accepting" /\ listener = "closed"
    /\ serve' = "ended"
    /\ UNCHANGED <<start, stop, started, closed, ln, http, listener, ctxDone, conn>>

\* serveErr is stored and doneChan closed.
DoneCloses ==
    /\ serve = "ended"
    /\ serve' = "gone"
    /\ UNCHANGED <<start, stop, started, closed, ln, http, listener, ctxDone, conn>>

RequestGoes(r, from, to) ==
    /\ conn[r] \in from
    /\ conn' = [conn EXCEPT ![r] = to]
    /\ UNCHANGED <<start, stop, started, closed, ln, http, listener, serve, ctxDone>>

Accepts(r) ==
    /\ serve = "accepting" /\ listener = "open"
    /\ RequestGoes(r, {"none"}, "active")

\* A raw scenario takes the connection over.
Hijacks(r) == RequestGoes(r, {"active"}, "hijacked")
Finishes(r) == RequestGoes(r, {"active", "hijacked", "cut"}, "finished")

-----------------------------------------------------------------------------
(* Close and Shutdown.                                                     *)

\* Mutant: s.http is not compared with nil.
StopBeginsBlindly(c, op) ==
    /\ c = Watcher => ctxDone /\ op = "closing"
    /\ StopGoes(c, "idle", IF closed THEN "late" ELSE op)
    /\ closed' = TRUE
    /\ UNCHANGED <<start, started, ln, http, listener, serve, ctxDone, conn>>

\* The critical section both start with.  A call that finds the server closed,
\* or s.http not yet set, has nothing more to do.
StopBegins(c, op) ==
    /\ c = Watcher => ctxDone /\ op = "closing"
    /\ StopGoes(c, "idle", IF closed THEN "late" ELSE IF http = "nil" THEN "early" ELSE op)
    /\ closed' = TRUE
    /\ UNCHANGED <<start, started, ln, http, listener, serve, ctxDone, conn>>

\* Mutant: the listener is left open.
StopsQuietly == http' = "stopped" /\ UNCHANGED listener

\* What http.Server.Close and Shutdown begin with: no more connections.
StopsListening ==
    /\ http' = "stopped"
    /\ listener' = IF serve = "accepting" THEN "closed" ELSE listener

HTTPCloses(c) ==
    /\ StopGoes(c, "closing", "cut")
    /\ StopsListening
    /\ conn' = [r \in Requests |-> IF r \in Active THEN "cut" ELSE conn[r]]
    /\ UNCHANGED <<start, started, closed, ln, serve, ctxDone>>

HTTPShutsDown(c) ==
    /\ StopGoes(c, "shutting", "draining")
    /\ StopsListening
    /\ UNCHANGED <<start, started, closed, ln, serve, ctxDone, conn>>

\* Shutdown has seen every connection idle; it then waits for the serve
\* goroutine.
Drains(c) ==
    /\ Active = {}
    /\ StopGoes(c, "draining", "waiting")
    /\ UNCHANGED <<start, started, closed, ln, http, listener, serve, ctxDone, conn>>

SeesDone(c) ==
    /\ serve = "gone"
    /\ StopGoes(c, "waiting", "drained")
    /\ UNCHANGED <<start, started, closed, ln, http, listener, serve, ctxDone, conn>>

\* The context of Shutdown expires.
Expires(c) ==
    /\ StopGoes(c, "draining", "expired") \/ StopGoes(c, "waiting", "expired")
    /\ UNCHANGED <<start, started, closed, ln, http, listener, serve, ctxDone, conn>>

CtxEnds ==
    /\ ~ctxDone /\ ctxDone' = TRUE
    /\ UNCHANGED <<start, stop, started, closed, ln, http, listener, serve, conn>>

-----------------------------------------------------------------------------
StartSteps(s) ==
    StartBegins(s) \/ Listens(s) \/ Publishes(s) \/ SetsHTTP(s) \/ Spawns(s)

ServeSteps == ServeBegins \/ ServeEnds \/ DoneCloses

\* What a call of Close or Shutdown does once it has begun.
StopSteps(c) ==
    HTTPCloses(c) \/ HTTPShutsDown(c) \/ Drains(c) \/ SeesDone(c) \/ Expires(c)

Next ==
    \/ \E s \in Starters : StartSteps(s)
    \/ ServeSteps
    \/ \E c \in Closers : StopSteps(c) \/ \E op \in {"closing", "shutting"} : StopBegins(c, op)
    \/ \E r \in Requests : Accepts(r) \/ Hijacks(r) \/ Finishes(r)
    \/ CtxEnds

Spec == Init /\ [][Next]_vars

\* Calls that have begun go on, the goroutines run; nobody has to call
\* anything, and a request may take for ever.
FairSpec ==
    /\ Spec
    /\ \A s \in Starters : WF_vars(start[s] # "idle" /\ StartSteps(s))
    /\ WF_vars(ServeSteps)
    /\ \A c \in Closers : WF_vars(StopSteps(c))
    /\ WF_vars(StopBegins(Watcher, "closing"))

-----------------------------------------------------------------------------
TypeOK ==
    /\ start \in [Starters -> {"idle", "refused", "listening", "failed", "bound",
                               "published", "ready", "returned"}]
    /\ stop \in [Closers -> {"unborn", "idle", "late", "early", "closing", "cut",
                             "shutting", "draining", "waiting", "drained", "expired"}]
    /\ started \in BOOLEAN /\ closed \in BOOLEAN /\ ln \in BOOLEAN
    /\ http \in {"nil", "new", "stopped"}
    /\ listener \in {"none", "open", "closed"}
    /\ serve \in {"none", "starting", "accepting", "ended", "gone"}
    /\ ctxDone \in BOOLEAN
    /\ conn \in [Requests -> {"none", "active", "hijacked", "cut", "finished"}]

\* Close and Shutdown read s.http while StartContext, which sets it outside the
\* lock, may be anywhere: whoever goes on to use it, the serve goroutine too,
\* has one to use.  A nil server would panic.
NeverNil ==
    serve # "none" \/ (\E c \in Closers : stop[c] \in {"closing", "shutting"}) => http # "nil"

\* However many callers race, at most one call of StartContext gets a listener,
\* so doneChan is closed at most once: a second close would panic.
StartsOnce ==
    Cardinality({s \in Starters :
        start[s] \in {"listening", "bound", "published", "ready", "returned", "failed"}}) <= 1

\* Calls of Close or Shutdown that have begun and not yet stopped anything.
Stopping == {c \in Closers : stop[c] \in {"closing", "shutting", "draining"}}

\* A Close that stopped the server, or a Shutdown that drained it, leaves no
\* request that net/http knows of, and none is accepted ever after, even when
\* the serve goroutine had not begun to serve by then.  Once a server is stopped
\* only an expired Shutdown can have left one, which a later Close does not cut.
StopIsFinal ==
    /\ (\E c \in Closers : stop[c] \in {"cut", "waiting", "drained"}) => Active = {}
    /\ http = "stopped" /\ Stopping = {} /\ Active # {} => \E c \in Closers : stop[c] = "expired"

\* A Close or Shutdown that found the server running ends it: the listener is
\* closed and Done tells so, whatever requests are doing.
StopEndsServing ==
    (\E c \in Closers : stop[c] \in {"closing", "shutting"}) ~> (serve = "gone" /\ listener = "closed")

\* Close is "safe to call concurrently with Start" (server.go:177-178): once it
\* was called, no listener stays open for good.
CloseStopsTheServer == closed ~> []~(listener = "open")

=============================================================================
