------------------------------- MODULE RestApi -------------------------------
(***************************************************************************)
(* The REST service: threads of the web host take HTTP requests through the *)
(* message handler that authenticates their JWT, the filter that authorizes *)
(* them and the demo controller.                                            *)
(***************************************************************************)
EXTENDS Integers

CONSTANTS
    Threads,       \* the threads of the web host
    Calls,         \* the HTTP requests that may ever be sent
    Certificates,  \* the client certificates
    Nobody,        \* no certificate, no token, no user, no status
    JwtCvr,        \* the configured CVR number
    JwtClockSkew   \* default tolerance of TokenValidationParameters

Cvrs == {JwtCvr, "another cvr", "no cvr"}

\* The confirmation claim of a JWT: absent, for the key of a certificate, or
\* without an x5t#S256 value.
Confirmations == {"absent", "malformed"} \cup Certificates

Jwts == [signer : {"sts", "other"}, issuer : {"sts", "other"},
         confirmation : Confirmations, cvr : Cvrs, notBefore : Int, expires : Int]

ASSUME RestApiAssumption ==
    /\ Nobody \notin Certificates \cup Jwts
    /\ JwtClockSkew \in Nat
    /\ JwtCvr \notin {"another cvr", "no cvr"}
    /\ \A r \in Calls : /\ r.path \in {"api", "nested api", "other"}
                        /\ r.authorization \in {"absent", "without token", "token"}
                        /\ r.token \in Jwts \cup {Nobody}
                        /\ (r.token = Nobody) <=> (r.authorization # "token")
                        /\ r.certificate \in Certificates \cup {Nobody}

VARIABLES
    work,       \* work[t]: the request thread t serves, and how far it is
    user,       \* user[t]: HttpContext.Current.User of that request
    responses,  \* the status each request was answered with, and when it was checked
    now         \* the clock

apiVars == <<work, user, responses>>

Statuses == {"OK", "Unauthorized", "Forbidden", "NotFound"}

IdleWork == [stage |-> "idle", request |-> Nobody, checked |-> 0, status |-> Nobody]

ApiTypeOK ==
    /\ work \in [Threads ->
          [stage : {"idle", "received", "routed", "authorized", "answering"},
           request : Calls \cup {Nobody}, checked : Nat, status : Statuses \cup {Nobody}]]
    /\ user \in [Threads -> Jwts \cup {Nobody}]
    /\ responses \subseteq [request : Calls, checked : Nat, status : Statuses]

ApiInit ==
    /\ work = [t \in Threads |-> IdleWork]
    /\ user = [t \in Threads |-> Nobody]
    /\ responses = {}

\* Mistaken form of Context: the principal is kept in one place for all requests.
SharedContext(t) == CHOOSE u \in Threads : TRUE

\* HttpContext.Current is the context of the request that the thread serves.
Context(t) == t

Continue(t, w) == work' = [work EXCEPT ![t] = w]

\* Mistaken form of Respond: the task completes without a response message.
RespondNothing(t, status) == Continue(t, [work[t] EXCEPT !.stage = "answering"])

Respond(t, status) ==
    Continue(t, [work[t] EXCEPT !.stage = "answering", !.status = status])

-----------------------------------------------------------------------------
(* ValidateToken: the base handler, then the confirmation. *)

ValidJwt(token) ==
    /\ token.signer = "sts"
    /\ token.issuer = "sts"
    /\ token.notBefore <= now + JwtClockSkew
    /\ now <= token.expires + JwtClockSkew

\* Mistaken form of Confirmed: any client certificate will do.
ConfirmedByAnyCertificate(r) ==
    \/ r.token.confirmation = "absent"
    \/ r.certificate # Nobody /\ r.token.confirmation # "malformed"

\* A token without confirmation is a bearer token.
Confirmed(r) ==
    \/ r.token.confirmation = "absent"
    \/ r.certificate # Nobody /\ r.token.confirmation = r.certificate

Valid(r) == r.authorization = "token" /\ ValidJwt(r.token) /\ Confirmed(r)

-----------------------------------------------------------------------------
(* The pipeline. *)

\* A request starts with an anonymous user.
Accept(t, r) ==
    /\ work[t].stage = "idle"
    /\ Continue(t, [work[t] EXCEPT !.stage = "received", !.request = r])
    /\ user' = [user EXCEPT ![Context(t)] = Nobody]
    /\ UNCHANGED responses

\* /api/ may stand anywhere in the path.
CanHandle(r) == r.path # "other"

\* SendAsync leaves other paths alone, sets the principal of a valid token, and
\* answers whatever Validate throws with Unauthorized.
SendAsync(t) ==
    LET r == work[t].request
    IN /\ work[t].stage = "received"
       /\ \/ /\ ~CanHandle(r)
             /\ Continue(t, [work[t] EXCEPT !.stage = "routed"])
             /\ UNCHANGED user
          \/ /\ CanHandle(r)
             /\ Valid(r)
             /\ user' = [user EXCEPT ![Context(t)] = r.token]
             /\ Continue(t, [work[t] EXCEPT !.stage = "routed", !.checked = now])
          \/ /\ CanHandle(r)
             /\ ~Valid(r)
             /\ Respond(t, "Unauthorized")
             /\ UNCHANGED user
       /\ UNCHANGED responses

\* The only route starts with api/.
RouteNotFound(t) ==
    /\ work[t].stage = "routed"
    /\ work[t].request.path # "api"
    /\ Respond(t, "NotFound")
    /\ UNCHANGED <<user, responses>>

\* The filter reads the principal back from the context of the request.
OnAuthorizationAsync(t) ==
    /\ work[t].stage = "routed"
    /\ work[t].request.path = "api"
    /\ IF user[Context(t)] = Nobody \/ user[Context(t)].cvr # JwtCvr
       THEN Respond(t, "Forbidden")
       ELSE Continue(t, [work[t] EXCEPT !.stage = "authorized"])
    /\ UNCHANGED <<user, responses>>

Ping(t) ==
    /\ work[t].stage = "authorized"
    /\ Respond(t, "OK")
    /\ UNCHANGED <<user, responses>>

SendResponse(t) ==
    /\ work[t].stage = "answering"
    /\ responses' = responses \cup {[request |-> work[t].request,
                                     checked |-> work[t].checked,
                                     status |-> work[t].status]}
    /\ Continue(t, IdleWork)
    /\ UNCHANGED user

Work(t) ==
    \/ SendAsync(t) \/ RouteNotFound(t) \/ OnAuthorizationAsync(t)
    \/ Ping(t) \/ SendResponse(t)
=============================================================================
