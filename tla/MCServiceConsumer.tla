-------------------------- MODULE MCServiceConsumer --------------------------
(***************************************************************************)
(* Instances of the consumers of the web service for TLC.                   *)
(***************************************************************************)
EXTENDS ServiceConsumer

TheLogFiles == {ReceivedRequest, SentResponse}

\* The test, a call without the framework header, and one with a token that is
\* for another service.
ACall == SendRstAndThenExecuteServiceServiceSuccessfully
SomePlans ==
    {ACall, [ACall EXCEPT !.framework = "missing"],
     [ACall EXCEPT !.request.certificate = "onBehalfOf",
                   !.request.rst.appliesTo = "bootstrap"]}

PlannedRequests == {p.request : p \in Plans}
PlannedHeaders == {p.framework : p \in Plans}
NoForeignTokens == {}

PlannedPings ==
    {[id |-> c, signer |-> p.request.certificate, framework |-> p.framework,
      created |-> clock, expires |-> clock + PingValidity,
      token |-> TokenAt(p.request, issued)] :
        c \in Consumers, p \in Plans, clock \in 0 .. MaxTime, issued \in 0 .. MaxTime}
=============================================================================
