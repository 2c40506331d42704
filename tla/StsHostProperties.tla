-------------------------- MODULE StsHostProperties --------------------------
(***************************************************************************)
(* What module StsHost is checked for.                                      *)
(***************************************************************************)
EXTENDS StsHost

Serving(t) == call[t].message # Nothing

\* A log file is open exactly while the inspector of its owner writes it
\* (AfterReceiveRequest, BeforeSendReply): no path through the host, the error
\* paths included, leaves a file open for ever or closes somebody else's.
LogOwnership ==
    \A t \in Threads :
        /\ writer[ReceivedRequest] = t <=> call[t].stage = "loggingRequest"
        /\ writer[SentResponse] = t <=> call[t].stage = "loggingReply"

\* However often a message is delivered and whatever the threads do meanwhile,
\* it is served at most once: no two threads hold the same message id, and none
\* holds one that was answered.
ServedAtMostOnce ==
    /\ \A t, u \in Threads :
          t # u /\ Serving(t) /\ Serving(u) => call[t].message.id # call[u].message.id
    /\ \A t \in Threads, a \in answers :
          Serving(t) => call[t].message.id # a.message.id
    /\ \A a, b \in answers : a.message.id = b.message.id => a = b

\* CreateToken reads the request from the service object's clientRequest field,
\* the base class issues for the request it was called with: both are the same
\* request in every token, so recipient and subject belong together.
TokensMatchTheirRequest ==
    \A a \in answers :
        a.reply.kind = "token" =>
            /\ a.reply.recipient = a.message.rst.appliesTo
            /\ a.reply.audience = a.reply.recipient
            /\ a.reply.subject = SubjectName(Principal(a.message.certificate), a.message.rst)
            /\ a.reply.confirmedBy = "none" <=> a.message.rst.onBehalfOf = NoOnBehalfOf
            /\ a.reply.confirmedBy \in {"none", GetSubjectNameId(a.message.certificate)}

\* The confirmation data (dated by CreateToken's own reading of the clock) never
\* expires before the conditions (dated earlier by the base class), so a relying
\* party that checks only the conditions checks enough.
ConfirmationOutlivesConditions ==
    \A a \in answers :
        a.reply.kind = "token" =>
            a.reply.conditions.notOnOrAfter <= a.reply.confirmationExpires

\* One request at a time leaves both log files about the same exchange.
LogsPairWhenQuiet ==
    (\A t \in Threads : ~Serving(t)) => logged[ReceivedRequest] = logged[SentResponse]

\* The host keeps the promise of module TokenIssuing.
Disturbed ==
    {call[t].message : t \in {u \in Threads : \/ call[u].exception = IOException
                                              \/ call[u].reply = FaultOfLastResort}}
Promise == INSTANCE TokenIssuing WITH accepted <- seen, disturbed <- Disturbed
ImplementsTokenIssuing == Promise!Spec

\* With one request at a time every reply is the one its message calls for: the
\* fault of the first check that fails, or a token about its own request, valid for
\* the period it asked for, which is within the limits of the configuration.
RepliesAreDue ==
    \A a \in answers : Promise!ReplyIsDue(a.message, a.reply, now)

-----------------------------------------------------------------------------
(* What the repository says and the code does not do. *)

\* STS/readme.md: SoapMessageLogLocation is "a folder to store all the received
\* request to this service".  Every request that was answered is in its log file.
AllRequestsAreStored ==
    (\A t \in Threads : ~Serving(t)) =>
        \A a \in answers : a.message = logged[ReceivedRequest]

\* The text of fault 5015: the request "must contain a CVR claim".
TokensNeedACvrClaim ==
    \A a \in answers : a.reply.kind = "token" => "cvr" \in a.message.rst.claims
=============================================================================
