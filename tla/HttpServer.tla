---------------------------- MODULE HttpServer ----------------------------
(***************************************************************************)
(* The HTTP side of the backend: the chain of middlewares a request passes *)
(* (app/main.py, core/rate_limit.py, core/timeout.py, core/middleware.py,  *)
(* iam/middleware/authentication.py), the database session around its      *)
(* handler (database/session.py), the answers to exceptions, and the       *)
(* shutdown that drains requests and closes the WebSockets                 *)
(* (core/shutdown.py, core/connection_manager.py).                         *)
(*                                                                         *)
(* A request is suspended where it is handed to the next middleware's task *)
(* and where it waits for the database; a step of the model runs from one  *)
(* such point to the next.  ShutdownManager._lock is never held across a   *)
(* suspension.  wait_for only gives up waiting for the inner task: after a *)
(* timeout the client has its 504 and the handler goes on.                 *)
(***************************************************************************)
EXTENDS ErrorMapping

CONSTANTS Requests,      \* requests the server receives
          Sockets,       \* browser WebSockets
          Ips,           \* client addresses
          IpLimit,       \* RATE_LIMIT_PER_IP
          EndpointLimit, \* RATE_LIMIT_PER_ENDPOINT
          OrgLimit,      \* RATE_LIMIT_PER_ORGANIZATION
          Window,        \* RATE_LIMIT_WINDOW_SECONDS
          DatabaseEnabled, \* DATABASE_URL is set
          Raisable,      \* exceptions the IAM routes end with
          MaxTime        \* bound on the clock

ASSUME HttpAssumption == /\ IsFiniteSet(Requests)
                         /\ IpLimit \in Nat \ {0} /\ EndpointLimit \in Nat \ {0}
                         /\ OrgLimit \in Nat \ {0} /\ Window \in Nat \ {0}
                         /\ MaxTime \in Nat /\ DatabaseEnabled \in BOOLEAN
                         /\ Raisable \subseteq Exceptions

VARIABLES now,       \* time.monotonic, in seconds
          pc,        \* how far a request has come
          path,      \* the kind of path it asks for
          from,      \* its client address
          answer,    \* what the client has been sent
          committed, \* its database session has been committed
          window,    \* _events of the limiters, by key
          admitted,  \* history: the times a limiter said yes, by key
          active,    \* ShutdownManager._active_requests
          drain,     \* ShutdownManager._drain_event is set
          life,      \* where lifespan is; past "serving" means _shutting_down
          forced,    \* history: the drain timed out
          socket,    \* a WebSocket's endpoint
          manager,   \* ConnectionManager.active_connections
          closing,   \* connections disconnect_all has still to close
          engine     \* the database engine and session factory exist

reqVars  == <<pc, path, from, answer, committed>>
limVars  == <<window, admitted>>
lifeVars == <<life, forced, closing, engine>>
wsVars   == <<socket, manager>>
vars     == <<now, reqVars, limVars, active, drain, lifeVars, wsVars>>

-----------------------------------------------------------------------------
(* Paths by what the middlewares tell apart: /api/v1/health, /twilio, a     *)
(* public IAM route, an IAM route asked for with a bearer token or with an  *)
(* API key, and the rest.                                                   *)
Paths   == {"health", "twilio", "login", "api", "keyed", "other"}
Exempt  == {"health", "twilio"}            \* from rate limits and timeouts
Timed   == Paths \ Exempt
ApiV1   == {"health", "login", "api", "keyed"}
Guarded == {"api", "keyed"}                \* needs a principal
UsesDb  == {"login", "api", "keyed"}

NoAnswer == Answer(0, "none")
Success  == Answer(200, "none")
Unhealthy == Answer(503, "none")
NoSuchRoute == Answer(404, "none")
Limited  == build_error_response(429, "rate_limit_exceeded", "retry_after")
TimedOut == build_error_response(504, "request_timeout", "timeout")
Answers  == {NoAnswer, Success}
              \cup {resolve_exception[e] : e \in Exceptions}
              \cup {Limited, TimedOut, Unhealthy, NoSuchRoute}

Org    == <<"organization", "org">>
Tenant == <<"tenant", "tenant">>
ApiKey == <<"api_key", "key">>
Limiters == {<<"ip", i>> : i \in Ips} \cup {<<"endpoint", p>> : p \in Timed}
              \cup {Org, Tenant, ApiKey}
Limit(k) == CASE k[1] = "ip" -> IpLimit
              [] k[1] = "endpoint" -> EndpointLimit
              [] OTHER -> OrgLimit

Places == {"idle", "context", "auth", "route", "work", "done"}
Inside == {r \in Requests : pc[r] \in {"auth", "route", "work"}}
Lives  == {"starting", "refused", "serving", "draining", "sockets", "closed"}
ShuttingDownNow == life \in {"draining", "sockets", "closed"}
Listening == life \in {"serving", "draining", "sockets"}

(* Types.                                                                   *)
TypeOK ==
  /\ now \in 0..MaxTime
  /\ pc \in [Requests -> Places]
  /\ path \in [Requests -> Paths]
  /\ from \in [Requests -> Ips]
  /\ answer \in [Requests -> Answers]
  /\ committed \in [Requests -> BOOLEAN]
  /\ window \in [Limiters -> Seq(0..MaxTime)]
  /\ admitted \in [Limiters -> Seq(0..MaxTime)]
  /\ active \in Nat /\ drain \in BOOLEAN
  /\ life \in Lives /\ forced \in BOOLEAN
  /\ socket \in [Sockets -> {"none", "connecting", "open", "over"}]
  /\ manager \subseteq Sockets /\ closing \subseteq Sockets
  /\ engine \in BOOLEAN

Init ==
  /\ now = 0
  /\ pc = [r \in Requests |-> "idle"]
  /\ path \in [Requests -> Paths] /\ from \in [Requests -> Ips]
  /\ answer = [r \in Requests |-> NoAnswer]
  /\ committed = [r \in Requests |-> FALSE]
  /\ window = [k \in Limiters |-> <<>>] /\ admitted = [k \in Limiters |-> <<>>]
  /\ active = 0 /\ drain = TRUE
  /\ life = "starting" /\ forced = FALSE
  /\ socket = [s \in Sockets |-> "none"] /\ manager = {} /\ closing = {}
  /\ engine = FALSE

-----------------------------------------------------------------------------
(* _SlidingWindowCounter.allow, for a list of keys consulted in order until *)
(* one refuses.  The keys before it stay charged.  popleft runs until the   *)
(* deque is empty or starts with a time that is within the window.          *)
Stops_Late(k) ==
  {n \in 0..Len(window[k]) : n < Len(window[k]) => window[k][n + 1] + Window > now + 1}
Stops(k)   == {n \in 0..Len(window[k]) : n < Len(window[k]) => window[k][n + 1] + Window > now}
Expired(k) == CHOOSE n \in Stops(k) : \A m \in Stops(k) : n <= m
Recent(k)  == SubSeq(window[k], Expired(k) + 1, Len(window[k]))
Refuses(k) == Len(Recent(k)) >= Limit(k)
Refusing(keys) == {i \in DOMAIN keys : Refuses(keys[i])}
Allowed(keys)  == Refusing(keys) = {}

Charge(keys) ==
  LET Before(i) == \A j \in Refusing(keys) : i < j
      Yes == {keys[i] : i \in {i \in DOMAIN keys : Before(i)}}
      No  == {keys[i] : i \in {i \in Refusing(keys) : \A j \in Refusing(keys) : i <= j}}
  IN /\ window' = [k \in Limiters |-> IF k \in Yes THEN Append(Recent(k), now)
                                      ELSE IF k \in No THEN Recent(k) ELSE window[k]]
     /\ admitted' = [k \in Limiters |-> IF k \in Yes THEN Append(admitted[k], now)
                                        ELSE admitted[k]]

-----------------------------------------------------------------------------
(* ShutdownManager.                                                         *)
begin_request == active' = active + 1 /\ drain' = FALSE

end_request ==
  LET left == IF active = 0 THEN 0 ELSE active - 1
  IN active' = left /\ drain' = (drain \/ left = 0)

(* The client gets the first answer only; what the inner task produces      *)
(* after a timeout is dropped.                                              *)
Reply(r, a) == answer' = [answer EXCEPT ![r] = IF @ = NoAnswer THEN a ELSE @]
Goto(r, place) == pc' = [pc EXCEPT ![r] = place]

(* The request leaves RequestContextMiddleware, with a response or an       *)
(* exception for the handlers.                                              *)
Leave(r, a) == Goto(r, "done") /\ Reply(r, a) /\ end_request
Raise(r, e) == Leave(r, resolve_exception[e])

-----------------------------------------------------------------------------
(* RateLimitMiddleware.dispatch.                                            *)
LimitRequest(r) ==
  LET keys == <<<<"ip", from[r]>>, <<"endpoint", path[r]>>>>
  IN /\ pc[r] = "idle" /\ Listening
     /\ IF path[r] \in Exempt
        THEN Goto(r, "context") /\ UNCHANGED <<answer, limVars>>
        ELSE /\ Charge(keys)
             /\ IF Allowed(keys) THEN Goto(r, "context") /\ UNCHANGED answer
                ELSE Goto(r, "done") /\ Reply(r, Limited)
     /\ UNCHANGED <<now, path, from, committed, active, drain, lifeVars, wsVars>>

(* RequestTimeoutMiddleware.dispatch: wait_for gives up.                    *)
TimeoutRequest_HandlerOnly(r) ==
  /\ pc[r] = "work" /\ path[r] \in Timed /\ answer[r] = NoAnswer
  /\ Reply(r, TimedOut)
  /\ UNCHANGED <<now, pc, path, from, committed, limVars, active, drain, lifeVars, wsVars>>
TimeoutRequest(r) ==
  /\ pc[r] \notin {"idle", "done"} /\ path[r] \in Timed /\ answer[r] = NoAnswer
  /\ Reply(r, TimedOut)
  /\ UNCHANGED <<now, pc, path, from, committed, limVars, active, drain, lifeVars, wsVars>>

(* RequestContextMiddleware.dispatch up to call_next.                       *)
EnterContext_Unchecked(r) ==
  /\ pc[r] = "context"
  /\ IF ShuttingDownNow /\ path[r] \in ApiV1
     THEN /\ Goto(r, "done") /\ Reply(r, Answer(503, "service_unavailable"))
          /\ UNCHANGED <<active, drain>>
     ELSE Goto(r, "auth") /\ begin_request /\ UNCHANGED answer
  /\ UNCHANGED <<now, path, from, committed, limVars, lifeVars, wsVars>>
EnterContext(r) ==
  /\ pc[r] = "context"
  /\ \/ /\ ShuttingDownNow /\ path[r] \in ApiV1
        /\ Goto(r, "done") /\ Reply(r, Answer(503, "service_unavailable"))
        /\ UNCHANGED <<active, drain>>
     \/ /\ ShuttingDownNow /\ path[r] \notin ApiV1        \* begin_request raises
        /\ Goto(r, "done") /\ Reply(r, resolve_exception[ShuttingDown])
        /\ UNCHANGED <<active, drain>>
     \/ /\ ~ShuttingDownNow
        /\ Goto(r, "auth") /\ begin_request /\ UNCHANGED answer
  /\ UNCHANGED <<now, path, from, committed, limVars, lifeVars, wsVars>>

(* AuthenticationMiddleware.dispatch: a principal, the limits of its        *)
(* organization, tenant and key, and the rights the path asks for.          *)
AuthErrors == {"AuthenticationError", "InvalidCredentialsError", "TokenExpiredError",
               "OperationalError"}
AccessErrors == {"CrossOrganizationAccessError", "InsufficientPermissionsError"}

PassThrough(r) ==
  /\ pc[r] = "auth" /\ path[r] \notin Guarded
  /\ Goto(r, "route")
  /\ UNCHANGED <<now, path, from, answer, committed, limVars, active, drain, lifeVars, wsVars>>

RefuseAuthentication(r, c) ==
  /\ pc[r] = "auth" /\ path[r] \in Guarded
  /\ Leave(r, IF ~DatabaseEnabled THEN Answer(503, "service_unavailable")
              ELSE IF ~engine THEN resolve_exception[Exc("RuntimeError")]
              ELSE resolve_exception[Exc(c)])
  /\ UNCHANGED <<now, path, from, committed, limVars, lifeVars, wsVars>>

Authenticate(r, denied) ==
  LET keys == IF path[r] = "keyed" THEN <<Org, Tenant, ApiKey>> ELSE <<Org>>
  IN /\ pc[r] = "auth" /\ path[r] \in Guarded /\ engine
     /\ Charge(keys)
     /\ CASE ~Allowed(keys) -> Leave(r, Limited)
          [] denied -> \E c \in AccessErrors : Leave(r, resolve_exception[Exc(c)])
          [] OTHER -> Goto(r, "route") /\ UNCHANGED <<answer, active, drain>>
     /\ UNCHANGED <<now, path, from, committed, lifeVars, wsVars>>

-----------------------------------------------------------------------------
(* get_session and get_db_session: the handler gets its session, commits    *)
(* when it returns and rolls back when it raises, before the answer goes.   *)
(* A path without a route is answered by the framework's own 404.           *)
Route(r) ==
  /\ pc[r] = "route"
  /\ CASE path[r] \in UsesDb /\ ~DatabaseEnabled -> Raise(r, HTTPException(503))
       [] path[r] \in UsesDb /\ DatabaseEnabled /\ ~engine -> Raise(r, Exc("RuntimeError"))
       [] path[r] = "other" -> Leave(r, NoSuchRoute)
       [] OTHER -> Goto(r, "work") /\ UNCHANGED <<answer, active, drain>>
  /\ UNCHANGED <<now, path, from, committed, limVars, lifeVars, wsVars>>

(* The health endpoints: live is always healthy, ready and deep need the    *)
(* database to answer (reachable) when one is configured.                   *)
HealthAnswer(probe, reachable) ==
  IF probe # "live" /\ DatabaseEnabled /\ ~(engine /\ reachable) THEN Unhealthy ELSE Success

Finish(r) ==
  /\ pc[r] = "work"
  /\ committed' = [committed EXCEPT ![r] = path[r] \in UsesDb]
  /\ IF path[r] = "health"
     THEN \E probe \in {"live", "ready", "deep"}, reachable \in BOOLEAN :
            Leave(r, HealthAnswer(probe, reachable))
     ELSE Leave(r, Success)
  /\ UNCHANGED <<now, path, from, limVars, lifeVars, wsVars>>

CommitFails_Kept(r, c) ==
  /\ pc[r] = "work" /\ path[r] \in UsesDb
  /\ Raise(r, Exc(c))
  /\ committed' = [committed EXCEPT ![r] = TRUE]
  /\ UNCHANGED <<now, path, from, limVars, lifeVars, wsVars>>
CommitFails(r, c) ==
  /\ pc[r] = "work" /\ path[r] \in UsesDb
  /\ Raise(r, Exc(c))
  /\ UNCHANGED <<now, path, from, committed, limVars, lifeVars, wsVars>>

(* What a handler raises: the IAM routes anything, the Twilio webhook a     *)
(* refusal of the signature, the health endpoints nothing.                  *)
Raises(p) == CASE p \in UsesDb -> Raisable
               [] p = "twilio" -> {HTTPException(403)}
               [] OTHER -> {}

Fail(r, e) ==
  /\ pc[r] = "work" /\ e \in Raises(path[r])
  /\ Raise(r, e)
  /\ UNCHANGED <<now, path, from, committed, limVars, lifeVars, wsVars>>

-----------------------------------------------------------------------------
(* lifespan: the engine is made, then the settings and the voice providers  *)
(* are validated; what raises there keeps the server from serving.          *)
init_database  == engine' = DatabaseEnabled
close_database == engine' = FALSE

Start(valid) ==
  /\ life = "starting"
  /\ life' = (IF valid THEN "serving" ELSE "refused")
  /\ init_database
  /\ UNCHANGED <<now, reqVars, limVars, active, drain, forced, closing, wsVars>>

initiate_shutdown ==
  /\ life = "serving"
  /\ life' = "draining"
  /\ UNCHANGED <<now, reqVars, limVars, active, drain, forced, closing, engine, wsVars>>

(* The drain wait ends, with the event or without it, and disconnect_all    *)
(* takes its list of connections.                                           *)
EndDrain_NoTimeout(timedOut) ==
  /\ life = "draining" /\ drain /\ ~timedOut
  /\ life' = "sockets" /\ forced' = FALSE /\ closing' = manager
  /\ UNCHANGED <<now, reqVars, limVars, active, drain, engine, wsVars>>
EndDrain(timedOut) ==
  /\ life = "draining" /\ timedOut = ~drain
  /\ life' = "sockets" /\ forced' = timedOut /\ closing' = manager
  /\ UNCHANGED <<now, reqVars, limVars, active, drain, engine, wsVars>>

CloseSocket(s) ==
  /\ s \in closing
  /\ closing' = closing \ {s} /\ manager' = manager \ {s}
  /\ UNCHANGED <<now, reqVars, limVars, active, drain, life, forced, engine, socket>>

(* close_http_client and close_database.                                    *)
CloseDatabase ==
  /\ life = "sockets" /\ closing = {}
  /\ life' = "closed" /\ close_database
  /\ UNCHANGED <<now, reqVars, limVars, active, drain, forced, closing, wsVars>>

-----------------------------------------------------------------------------
(* A browser connection: ConnectionManager.connect waits for the database   *)
(* (when it authenticates) and for accept; disconnect runs when the         *)
(* endpoint ends.                                                           *)
Connect(s) ==
  /\ socket[s] = "none" /\ Listening
  /\ socket' = [socket EXCEPT ![s] = "connecting"]
  /\ UNCHANGED <<now, reqVars, limVars, active, drain, lifeVars, manager>>

EndConnect(s, accepted) ==
  /\ socket[s] = "connecting"
  /\ socket' = [socket EXCEPT ![s] = IF accepted THEN "open" ELSE "over"]
  /\ manager' = IF accepted THEN manager \cup {s} ELSE manager
  /\ UNCHANGED <<now, reqVars, limVars, active, drain, lifeVars>>

Disconnect(s) ==
  /\ socket[s] = "open"
  /\ socket' = [socket EXCEPT ![s] = "over"] /\ manager' = manager \ {s}
  /\ UNCHANGED <<now, reqVars, limVars, active, drain, lifeVars>>

Tick ==
  /\ now < MaxTime /\ now' = now + 1
  /\ UNCHANGED <<reqVars, limVars, active, drain, lifeVars, wsVars>>

RequestStep(r) ==
  \/ LimitRequest(r) \/ TimeoutRequest(r) \/ EnterContext(r) \/ PassThrough(r)
  \/ \E c \in AuthErrors : RefuseAuthentication(r, c)
  \/ \E denied \in BOOLEAN : Authenticate(r, denied)
  \/ Route(r) \/ Finish(r)
  \/ \E c \in {"IntegrityError", "OperationalError"} : CommitFails(r, c)
  \/ \E e \in Raises(path[r]) : Fail(r, e)

SocketStep(s) ==
  \/ Connect(s) \/ Disconnect(s) \/ CloseSocket(s)
  \/ \E accepted \in BOOLEAN : EndConnect(s, accepted)

Lifespan ==
  \/ \E valid \in BOOLEAN : Start(valid)
  \/ initiate_shutdown \/ CloseDatabase
  \/ \E timedOut \in BOOLEAN : EndDrain(timedOut)

Next ==
  \/ Tick
  \/ Lifespan
  \/ \E r \in Requests : RequestStep(r)
  \/ \E s \in Sockets : SocketStep(s)

(* The middlewares and lifespan run on; the timeouts fire.  Handlers, the   *)
(* database and the clients may take for ever.                              *)
Fairness ==
  /\ \A r \in Requests : WF_vars(EnterContext(r)) /\ WF_vars(TimeoutRequest(r))
  /\ \A s \in Sockets : WF_vars(CloseSocket(s))
  /\ WF_vars(\E timedOut \in BOOLEAN : EndDrain(timedOut))
  /\ WF_vars(CloseDatabase)

Spec == Init /\ [][Next]_vars /\ Fairness

-----------------------------------------------------------------------------
(* Once shutdown has drained without a timeout, no request is being         *)
(* processed and none gets in: the sockets, the shared client and the       *)
(* database are only closed under a running handler when the drain timed    *)
(* out.                                                                     *)
DrainKept == life \in {"sockets", "closed"} /\ ~forced => Inside = {}

(* Over any stretch of the window a limiter admits at most its limit: the   *)
(* admissions Limit apart are at least the window apart.                    *)
WindowRespected ==
  \A k \in Limiters : \A i \in 1..(Len(admitted[k]) - Limit(k)) :
    admitted[k][i + Limit(k)] - admitted[k][i] >= Window

(* A client that is told of an error other than the timeout of its request  *)
(* can repeat it: nothing of it has been committed.                         *)
ErrorMeansRolledBack ==
  \A r \in Requests : committed[r] => answer[r] \in {Success, TimedOut}

(* A request that has a timeout is answered even when its handler, or the   *)
(* database it waits for, never returns (unless the process ends first).    *)
TimedAnswered ==
  \A r \in Requests : pc[r] # "idle" /\ path[r] \in Timed ~> answer[r] # NoAnswer

(* Shutdown ends although a handler hangs and clients do not leave.         *)
ShutdownEnds == life = "draining" ~> life = "closed"
=============================================================================
