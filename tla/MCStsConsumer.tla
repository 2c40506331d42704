---------------------------- MODULE MCStsConsumer ----------------------------
(***************************************************************************)
(* Instances of the consumers and their token service for TLC.              *)
(***************************************************************************)
EXTENDS StsConsumer

TheLogFiles == {ReceivedRequest, SentResponse}

\* A user, another user and somebody on behalf of that one, and a replay, at once.
ConcurrentPlans ==
    {SendRstAndThenExecuteServiceServiceSuccessfully,
     SendRstWithNormalOnBehalfOfSuccessfully, ReplayRstWillReturnErrorResponse}
ClearedPlans == {SendRstWithWrongFormatWillReturnErrorResponse}

MessagesOf(p) ==
    UNION {[id : {<<c, n>> : c \in Consumers}, certificate : {p.requests[n].certificate},
            intact : BOOLEAN, wellFormed : BOOLEAN, created : {clock},
            expires : {clock + p.duration}, rst : {p.requests[n].rst}] :
              n \in 1 .. Len(p.requests), clock \in 0..MaxTime}
PlannedMessages == UNION {MessagesOf(p) : p \in Plans}
=============================================================================
