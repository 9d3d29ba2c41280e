--------------------------- MODULE MockServerProofs ---------------------------
(***************************************************************************)
(* Proofs about MockServer, for any number of callers and requests: one    *)
(* caller of StartContext goes on, and a stop is final.                    *)
(***************************************************************************)
EXTENDS MockServer, FiniteSetTheorems, TLAPS

-----------------------------------------------------------------------------
(* The inductive invariant.                                                *)

\* Calls of StartContext that were not refused.
Going(s) == start[s] \in {"listening", "bound", "published", "ready", "returned", "failed"}

OneGoes ==
    /\ \A s \in Starters : Going(s) => started
    /\ \A s, t \in Starters : Going(s) /\ Going(t) => s = t

\* What the one call has reached: before s.http is set nothing can be stopped,
\* and before the goroutines are started nothing serves and nobody waits for ctx.
StartReaches ==
    /\ \A s \in Starters : start[s] \in {"listening", "bound", "published"} => http = "nil"
    /\ \A s \in Starters : start[s] = "ready" => http # "nil"
    /\ (\E s \in Starters : start[s] # "returned" /\ Going(s)) => serve = "none"
    /\ ~started => http = "nil" /\ serve = "none"
    /\ serve = "none" => stop[Watcher] = "unborn"

\* Nothing is accepted by a server that was stopped.
StoppedIsDeaf ==
    /\ serve # "none" => http # "nil"
    /\ http = "stopped" /\ serve = "accepting" => listener = "closed"

Stopped(c) == stop[c] \in {"cut", "draining", "waiting", "drained", "expired"}

\* A server was stopped by some call, and a call that is past its draining, or
\* that cut the connections, has left none behind.
StopsTell ==
    /\ \A c \in Closers : Stopped(c) => http = "stopped"
    /\ \A c \in Closers : stop[c] \in {"closing", "shutting"} => http # "nil"
    /\ http = "stopped" => \E c \in Closers : Stopped(c)
    /\ \A c \in Closers : stop[c] \in {"cut", "waiting", "drained"} => Active = {}

ServerInv == TypeOK /\ OneGoes /\ StartReaches /\ StoppedIsDeaf /\ StopsTell

LEMMA InitServerInv == Init => ServerInv
<1> SUFFICES ASSUME Init PROVE ServerInv
  OBVIOUS
<1>1. TypeOK
  BY DEF Init, TypeOK
<1>2. OneGoes /\ StartReaches /\ StoppedIsDeaf
  BY WatcherAssumption DEF Init, OneGoes, Going, StartReaches, StoppedIsDeaf, Closers
<1>3. StopsTell
  BY DEF Init, StopsTell, Stopped
<1>4. QED
  BY <1>1, <1>2, <1>3 DEF ServerInv

-----------------------------------------------------------------------------
(* One lemma per kind of step.                                             *)

LEMMA StartStepInv ==
    ASSUME ServerInv, NEW s \in Starters, StartSteps(s)
    PROVE  ServerInv'
<1> USE DEF Goes
<1>1. CASE StartBegins(s)
  <2>1. TypeOK'
    BY <1>1 DEF ServerInv, TypeOK, StartBegins
  <2>2. OneGoes'
    BY <1>1 DEF ServerInv, OneGoes, Going, TypeOK, StartBegins
  <2>3. StartReaches'
    BY <1>1 DEF ServerInv, OneGoes, StartReaches, Going, TypeOK, StartBegins
  <2>4. StoppedIsDeaf' /\ StopsTell'
    BY <1>1 DEF ServerInv, StoppedIsDeaf, StopsTell, Stopped, Active, StartBegins
  <2>5. QED
    BY <2>1, <2>2, <2>3, <2>4 DEF ServerInv
<1>2. CASE Listens(s)
  <2>1. TypeOK'
    BY <1>2 DEF ServerInv, TypeOK, Listens
  <2>2. OneGoes'
    BY <1>2 DEF ServerInv, OneGoes, Going, TypeOK, Listens
  <2>3. StartReaches'
    BY <1>2 DEF ServerInv, StartReaches, Going, TypeOK, Listens
  <2>4. StoppedIsDeaf' /\ StopsTell'
    BY <1>2 DEF ServerInv, StartReaches, StoppedIsDeaf, StopsTell, Stopped, Active, Going,
                Listens
  <2>5. QED
    BY <2>1, <2>2, <2>3, <2>4 DEF ServerInv
<1>3. CASE Publishes(s)
  <2>1. TypeOK'
    BY <1>3 DEF ServerInv, TypeOK, Publishes
  <2>2. OneGoes'
    BY <1>3 DEF ServerInv, OneGoes, Going, TypeOK, Publishes
  <2>3. StartReaches'
    BY <1>3 DEF ServerInv, StartReaches, Going, TypeOK, Publishes
  <2>4. StoppedIsDeaf' /\ StopsTell'
    BY <1>3 DEF ServerInv, StartReaches, StoppedIsDeaf, StopsTell, Stopped, Active, Going,
                Publishes
  <2>5. QED
    BY <2>1, <2>2, <2>3, <2>4 DEF ServerInv
<1>4. CASE SetsHTTP(s)
  <2>1. TypeOK'
    BY <1>4 DEF ServerInv, TypeOK, SetsHTTP
  <2>2. OneGoes'
    BY <1>4 DEF ServerInv, OneGoes, Going, TypeOK, SetsHTTP
  <2>3. StartReaches'
    BY <1>4 DEF ServerInv, OneGoes, StartReaches, Going, TypeOK, SetsHTTP
  <2>4. StoppedIsDeaf' /\ StopsTell'
    BY <1>4 DEF ServerInv, StartReaches, StoppedIsDeaf, StopsTell, Stopped, Active, Going,
                SetsHTTP
  <2>5. QED
    BY <2>1, <2>2, <2>3, <2>4 DEF ServerInv
<1>5. CASE Spawns(s)
  <2>0. serve = "none" /\ http # "nil" /\ stop[Watcher] = "unborn"
    BY <1>5 DEF ServerInv, StartReaches, Going, Spawns
  <2>1. TypeOK'
    BY <1>5 DEF ServerInv, TypeOK, Spawns
  <2>2. OneGoes'
    BY <1>5 DEF ServerInv, OneGoes, Going, TypeOK, Spawns
  <2>3. StartReaches'
    BY <1>5 DEF ServerInv, OneGoes, StartReaches, Going, TypeOK, Spawns
  <2>4. StoppedIsDeaf'
    BY <1>5, <2>0 DEF StoppedIsDeaf, Spawns
  <2>5. StopsTell'
    <3>1. \A c \in Closers : stop'[c] = stop[c] \/ (c = Watcher /\ stop'[c] = "idle")
      BY <1>5 DEF ServerInv, TypeOK, Spawns
    <3>2. UNCHANGED <<http, conn>>
      BY <1>5 DEF Spawns
    <3>3. QED
      BY <2>0, <3>1, <3>2 DEF ServerInv, StopsTell, Stopped, Active
  <2>6. QED
    BY <2>1, <2>2, <2>3, <2>4, <2>5 DEF ServerInv
<1>6. QED
  BY <1>1, <1>2, <1>3, <1>4, <1>5 DEF StartSteps

LEMMA ServeStepInv ==
    ASSUME ServerInv, ServeSteps
    PROVE  ServerInv'
<1>1. UNCHANGED <<start, stop, started, http, conn>> /\ serve # "none" /\ serve' # "none"
  BY DEF ServeSteps, ServeBegins, ServeEnds, DoneCloses
<1>2. TypeOK'
  BY DEF ServerInv, TypeOK, ServeSteps, ServeBegins, ServeEnds, DoneCloses
<1>3. OneGoes' /\ StartReaches' /\ StopsTell'
  BY <1>1 DEF ServerInv, OneGoes, Going, StartReaches, StopsTell, Stopped, Active
<1>4. StoppedIsDeaf'
  BY DEF ServerInv, StoppedIsDeaf, ServeSteps, ServeBegins, ServeEnds, DoneCloses
<1>5. QED
  BY <1>2, <1>3, <1>4 DEF ServerInv

LEMMA RequestStepInv ==
    ASSUME ServerInv, NEW r \in Requests, Accepts(r) \/ Hijacks(r) \/ Finishes(r)
    PROVE  ServerInv'
<1> USE DEF RequestGoes
<1>1. UNCHANGED <<start, stop, started, closed, ln, http, listener, serve, ctxDone>>
  BY DEF Accepts, Hijacks, Finishes
<1>2. TypeOK'
  BY <1>1 DEF ServerInv, TypeOK, Accepts, Hijacks, Finishes
<1>3. OneGoes' /\ StartReaches' /\ StoppedIsDeaf'
  BY <1>1 DEF ServerInv, OneGoes, Going, StartReaches, StoppedIsDeaf
<1>4. StopsTell'
  <2>1. CASE Accepts(r)
    <3>1. http # "stopped"
      BY <2>1 DEF Accepts, ServerInv, StoppedIsDeaf
    <3>2. QED
      BY <1>1, <3>1 DEF ServerInv, StopsTell, Stopped
  <2>2. CASE Hijacks(r) \/ Finishes(r)
    <3>1. Active' \subseteq Active
      BY <2>2 DEF Hijacks, Finishes, Active, ServerInv, TypeOK
    <3>2. QED
      BY <1>1, <3>1 DEF ServerInv, StopsTell, Stopped
  <2>3. QED
    BY <2>1, <2>2
<1>5. QED
  BY <1>2, <1>3, <1>4 DEF ServerInv

LEMMA StopStepInv ==
    ASSUME ServerInv, NEW c \in Closers,
           StopSteps(c) \/ \E op \in {"closing", "shutting"} : StopBegins(c, op)
    PROVE  ServerInv'
<1> USE DEF StopGoes
<1>1. UNCHANGED <<start, started, serve>>
  BY DEF StopSteps, StopBegins, HTTPCloses, HTTPShutsDown, Drains, SeesDone, Expires
<1>2. TypeOK'
  <2>1. CASE \E op \in {"closing", "shutting"} : StopBegins(c, op)
    <3>1. PICK op \in {"closing", "shutting"} : StopBegins(c, op)
      BY <2>1
    <3>2. \E to \in {"late", "early", "closing", "shutting"} : stop' = [stop EXCEPT ![c] = to]
      BY <3>1, Zenon DEF StopBegins
    <3>3. QED
      BY <3>1, <3>2 DEF ServerInv, TypeOK, StopBegins
  <2>2. CASE HTTPCloses(c)
    BY <2>2 DEF ServerInv, TypeOK, HTTPCloses, StopsListening
  <2>3. CASE HTTPShutsDown(c)
    BY <2>3 DEF ServerInv, TypeOK, HTTPShutsDown, StopsListening
  <2>4. CASE Drains(c) \/ SeesDone(c) \/ Expires(c)
    BY <2>4 DEF ServerInv, TypeOK, Drains, SeesDone, Expires
  <2>5. QED
    BY <2>1, <2>2, <2>3, <2>4 DEF StopSteps
<1>3. OneGoes'
  BY <1>1 DEF ServerInv, OneGoes, Going
<1>4. \A d \in Closers \ {c} : stop'[d] = stop[d]
  BY DEF ServerInv, TypeOK, StopSteps, StopBegins, HTTPCloses, HTTPShutsDown, Drains,
         SeesDone, Expires
<1>5. stop[c] # "unborn"
  BY DEF StopSteps, StopBegins, HTTPCloses, HTTPShutsDown, Drains, SeesDone, Expires
<1>6. http' = http \/ (http # "nil" /\ http' = "stopped")
  BY DEF ServerInv, StopsTell, StopSteps, StopBegins, HTTPCloses, HTTPShutsDown,
         StopsListening, Drains, SeesDone, Expires
<1>7. StartReaches'
  <2>1. serve' = "none" => stop'[Watcher] = "unborn"
    BY <1>1, <1>4, <1>5 DEF ServerInv, StartReaches, Closers
  <2>2. QED
    BY <1>1, <1>6, <2>1 DEF ServerInv, StartReaches, Going
<1>8. StoppedIsDeaf'
  <2>1. CASE UNCHANGED <<http, listener>>
    BY <1>1, <2>1 DEF ServerInv, StoppedIsDeaf
  <2>2. CASE StopsListening
    BY <1>1, <2>2 DEF ServerInv, StoppedIsDeaf, StopsListening
  <2>3. QED
    BY <2>1, <2>2 DEF StopSteps, StopBegins, HTTPCloses, HTTPShutsDown, Drains, SeesDone,
                      Expires
<1>9. StopsTell'
  <2>1. CASE \E op \in {"closing", "shutting"} : StopBegins(c, op)
    <3>1. UNCHANGED <<http, conn>> /\ stop[c] = "idle"
      BY <2>1 DEF StopBegins
    <3>2. stop'[c] \in {"late", "early"} \/ (stop'[c] \in {"closing", "shutting"} /\ http # "nil")
      BY <2>1 DEF StopBegins, ServerInv, TypeOK
    <3>3. QED
      BY <1>4, <3>1, <3>2 DEF ServerInv, StopsTell, Stopped, Active
  <2>2. CASE HTTPCloses(c)
    <3>1. http' = "stopped" /\ stop'[c] = "cut"
      BY <2>2 DEF HTTPCloses, StopsListening, ServerInv, TypeOK
    <3>2. Active' = {}
      BY <2>2 DEF HTTPCloses, Active
    <3>3. QED
      BY <1>4, <3>1, <3>2 DEF ServerInv, StopsTell, Stopped
  <2>3. CASE HTTPShutsDown(c)
    <3>1. http' = "stopped" /\ stop'[c] = "draining" /\ Active' = Active
      BY <2>3 DEF HTTPShutsDown, StopsListening, ServerInv, TypeOK, Active
    <3>2. QED
      BY <1>4, <3>1 DEF ServerInv, StopsTell, Stopped
  <2>4. CASE Drains(c) \/ SeesDone(c) \/ Expires(c)
    <3>1. UNCHANGED <<http, conn>> /\ Stopped(c) /\ stop'[c] \in {"waiting", "drained", "expired"}
      BY <2>4 DEF Drains, SeesDone, Expires, Stopped, ServerInv, TypeOK
    <3>2. stop'[c] \in {"waiting", "drained"} => Active = {}
      BY <2>4 DEF Drains, SeesDone, Expires, ServerInv, StopsTell, TypeOK
    <3>3. QED
      BY <1>4, <3>1, <3>2 DEF ServerInv, StopsTell, Stopped, Active
  <2>5. QED
    BY <2>1, <2>2, <2>3, <2>4 DEF StopSteps
<1>10. QED
  BY <1>2, <1>3, <1>7, <1>8, <1>9 DEF ServerInv

LEMMA NextServerInv ==
    ASSUME ServerInv, [Next]_vars
    PROVE  ServerInv'
<1> USE DEF ServerInv
<1>1. CASE UNCHANGED vars
  BY <1>1 DEF vars, TypeOK, OneGoes, Going, StartReaches, StoppedIsDeaf, StopsTell, Stopped, Active
<1>2. CASE CtxEnds
  BY <1>2 DEF CtxEnds, TypeOK, OneGoes, Going, StartReaches, StoppedIsDeaf, StopsTell, Stopped,
              Active
<1>3. QED
  BY <1>1, <1>2, StartStepInv, ServeStepInv, StopStepInv, RequestStepInv DEF Next

LEMMA ServerInvAlways == Spec => []ServerInv
  BY InitServerInv, NextServerInv, PTL DEF Spec

-----------------------------------------------------------------------------
\* Type correctness of the mock server.
THEOREM ServerTypeCorrect == Spec => []TypeOK
<1>1. ServerInv => TypeOK
  BY DEF ServerInv
<1>2. QED
  BY <1>1, ServerInvAlways, PTL

\* However many goroutines start and stop a server, none uses a server that is
\* not there.
THEOREM AlwaysAServer == Spec => []NeverNil
<1>1. ServerInv => NeverNil
  BY DEF ServerInv, StoppedIsDeaf, StopsTell, NeverNil
<1>2. QED
  BY <1>1, ServerInvAlways, PTL

\* However many goroutines call Start, at most one gets a listener: the channel
\* of Done is closed at most once.
THEOREM AlwaysStartsOnce == Spec => []StartsOnce
<1>1. ServerInv => StartsOnce
  <2> SUFFICES ASSUME ServerInv PROVE StartsOnce
    OBVIOUS
  <2> DEFINE going == {s \in Starters :
        start[s] \in {"listening", "bound", "published", "ready", "returned", "failed"}}
  <2>1. CASE going = {}
    BY <2>1, FS_EmptySet DEF StartsOnce
  <2>2. CASE going # {}
    <3>1. PICK s \in going : TRUE
      BY <2>2
    <3>2. going = {s}
      BY <3>1 DEF ServerInv, OneGoes, Going
    <3>3. Cardinality(going) = 1
      BY <3>2, FS_Singleton
    <3>4. QED
      BY <3>3 DEF StartsOnce
  <2>3. QED
    BY <2>1, <2>2
<1>2. QED
  BY <1>1, ServerInvAlways, PTL

\* A Close that stopped the server, or a Shutdown that drained it, leaves no
\* request and none is accepted ever after; only an expired Shutdown leaves one.
THEOREM StopAlwaysFinal == Spec => []StopIsFinal
<1>1. ServerInv => StopIsFinal
  BY DEF ServerInv, StopIsFinal, StopsTell, Stopped, Stopping
<1>2. QED
  BY <1>1, ServerInvAlways, PTL

=============================================================================
