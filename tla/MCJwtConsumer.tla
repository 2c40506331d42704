---------------------------- MODULE MCJwtConsumer ----------------------------
(***************************************************************************)
(* Instances of the REST service and its consumers for TLC.                 *)
(***************************************************************************)
EXTENDS JwtConsumer

\* The tests, and a user of another CVR.
AllPlans ==
    {SendOAuthRequestSuccessfully,
     SendOAuthRequestAndCallRESTAPISuccessfully,
     SendOAuthRequestAndCallRESTAPIFailedBecauseOfWrongClientCertificateX5t,
     SendOAuthRequestInvalidClientIdError,
     SendOAuthRequestInvalidScopeError,
     [SendOAuthRequestAndCallRESTAPISuccessfully EXCEPT !.scope = "another cvr"]}

AToken == [signer |-> "sts", issuer |-> "sts", confirmation |-> "client", cvr |-> JwtCvr,
           notBefore |-> 0, expires |-> JwtLifetime]

ACall == [id |-> "other", path |-> "api", authorization |-> "token",
          token |-> [AToken EXCEPT !.confirmation = "malformed", !.signer = "other"],
          certificate |-> Nobody]

\* Calls with a token of another issuer, to a path that only contains /api/,
\* without a token, and to another path.
SomeOtherCalls ==
    {ACall, [ACall EXCEPT !.path = "nested api", !.token = AToken, !.certificate = "client"],
     [ACall EXCEPT !.authorization = "absent", !.token = Nobody],
     [ACall EXCEPT !.path = "other", !.authorization = "without token", !.token = Nobody]}

TheCalls ==
    SomeOtherCalls \cup
    {CallWith(c, TokenAt(p, clock), p.callWith) :
        c \in Consumers, p \in {q \in Plans : Granted(q)}, clock \in 0..MaxTime}
=============================================================================
