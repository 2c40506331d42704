------------------------- MODULE ServiceConsumerProofs -------------------------
(***************************************************************************)
(* The calls of the web service, for any number of consumers and threads:   *)
(* how each ends, that a refused one has not run, and whose exchange the    *)
(* log files of both sides hold.                                            *)
(***************************************************************************)
EXTENDS ServiceConsumer, EndToEndProofs

-----------------------------------------------------------------------------
(* The inductive invariant, next to that of the samples without consumers. *)

\* What c's request got, if it has been answered.
TokenHeld(c) ==
    LET token == progress[c].token
        request == plan[c].request
    IN Called(c) => /\ token.type = "saml2"
                    /\ token.issuer = "sts"
                    /\ token.holder = request.certificate
                    /\ token.content.audience = request.rst.appliesTo
                    /\ token.content.method = "holder-of-key"
                    /\ token.content.conditions.notBefore <= now
                    /\ request.certificate \in {"client", "onBehalfOf"}

\* A ping is its consumer's: with the token and the header of the call, and dated
\* after the token was there.
OwnPing(p) ==
    /\ p.id \in Consumers
    /\ Called(p.id)
    /\ p.token = progress[p.id].token
    /\ p.signer = plan[p.id].request.certificate
    /\ p.framework = plan[p.id].framework
    /\ p.created \in p.token.content.conditions.notBefore .. now
    /\ p.expires = p.created + PingValidity

\* Every consumer sends one ping, which stays until the channel refuses it.
NetworkFits ==
    /\ seen \subseteq sent
    /\ \A p, q \in sent : p.id = q.id => p = q
    /\ \A p \in sent : OwnPing(p)

InNetwork(c) == \E p \in sent : p.id = c
Answered(c) == \E r \in replies : r.ping.id = c
NotRun == {Thrown("sts"), Thrown("requestLog"), SecurityFault}

ProgressFits(c) ==
    LET p == progress[c]
    IN /\ p.step = "obtain" => ~Called(c)
       /\ p.step \in {"logRequest", "send", "wait", "logResponse"} => Called(c)
       /\ p.step \in {"obtain", "logRequest", "send"} => ~InNetwork(c)
       /\ p.writing => Logging(c)
       /\ p.step = "logResponse" =>
             p.outcome \in PingReplies /\ IsDue(c, p.outcome) /\ Answered(c)
       /\ p.step = "done" =>
             /\ p.outcome \in Outcomes /\ IsDue(c, p.outcome)
             /\ p.outcome # Thrown("sts") => Called(c)
             /\ p.outcome \in NotRun => ~InNetwork(c)
             /\ p.outcome \in PingReplies => Answered(c)

\* A client log file is open exactly while its consumer writes it.
ClientLogsOwned ==
    \A c \in Consumers, step \in DOMAIN FileOf :
        clientWriter[FileOf[step]] = c <=> progress[c].writing /\ progress[c].step = step

\* A ping in service that lost its answer lost it to another call or the disk.
LossIsExplained(t) == Lost(call[t]) => MayCollide(call[t].ping.id)

\* What the consumer's log files hold once it has written them, if it is alone.
Replied(c) == progress[c].step = "done" /\ progress[c].outcome \in PingReplies
ClientLogFits(c) ==
    EnableClientLog /\ ~MayCollide(c) =>
        /\ progress[c].step \in {"send", "wait", "logResponse"} \/ Replied(c)
              => clientLogged[SentRequestToService] = c
        /\ Replied(c) => clientLogged[ReceivedResponse] = c

\* And those of the service.
HostLogFits(c) ==
    ~MayCollide(c) =>
        /\ \A t \in Threads : call[t].ping # Nothing /\ call[t].ping.id = c =>
              /\ call[t].stage \in {"dispatched", "replying", "loggingReply", "sending"}
                    => logged[ReceivedRequest].id = c
              /\ call[t].stage = "sending" => logged[SentResponse].id = c
        /\ Answered(c) => logged[ReceivedRequest].id = c /\ logged[SentResponse].id = c

CInv ==
    /\ IInv
    /\ CallerTypeOK
    /\ NetworkFits
    /\ ClientLogsOwned
    /\ \A c \in Consumers :
          TokenHeld(c) /\ ProgressFits(c) /\ ClientLogFits(c) /\ HostLogFits(c)
    /\ \A t \in Threads : LossIsExplained(t)

-----------------------------------------------------------------------------
LEMMA CallersInitInvariant == CallersInit => CInv
<1> SUFFICES ASSUME CallersInit PROVE CInv
  OBVIOUS
<1>1. IInv
  BY InitInvariant DEF CallersInit
<1>2. /\ sent = {} /\ seen = {} /\ replies = {} /\ wallet = {}
      /\ \A t \in Threads : call[t] = IdleCall
      /\ plan \in [Consumers -> Plans]
      /\ \A c \in Consumers : progress[c] = [step |-> "obtain", writing |-> FALSE,
                                           token |-> Nothing, outcome |-> Nothing]
  BY DEF CallersInit, Init, ServiceInit
<1>3. CallerTypeOK
  BY <1>1, <1>2
     DEF IInv, CallersInit, CallerTypeOK, ClientLog!LogInit, ClientLog!LogTypeOK, Steps
<1>4. NetworkFits
  BY <1>2 DEF NetworkFits
<1>5. ClientLogsOwned
  BY <1>2, ServiceConsumerAssumption
     DEF CallersInit, ClientLog!LogInit, ClientLogsOwned, FileOf
<1>6. \A c \in Consumers : ~Called(c) /\ ~InNetwork(c) /\ ~Answered(c)
  BY <1>2 DEF Called, InNetwork, Answered
<1>7. \A t \in Threads : call[t].ping = Nothing /\ ~Lost(call[t])
  <2> SUFFICES ASSUME NEW t \in Threads PROVE call[t].ping = Nothing /\ ~Lost(call[t])
    OBVIOUS
  <2>1. call[t].ping = Nothing /\ call[t].reply = Nothing
    BY <1>2 DEF IdleCall
  <2> QED
    BY <2>1, DisturbancesAreReplies DEF Lost
<1>8. \A c \in Consumers : ProgressFits(c) /\ ClientLogFits(c)
  BY <1>2, <1>6 DEF ProgressFits, ClientLogFits, Replied
<1>9. \A c \in Consumers : TokenHeld(c) /\ HostLogFits(c)
  BY <1>6, <1>7 DEF TokenHeld, HostLogFits
<1> QED
  BY <1>1, <1>3, <1>4, <1>5, <1>7, <1>8, <1>9 DEF CInv, LossIsExplained

-----------------------------------------------------------------------------
(* What every step keeps.                                                     *)

ProgressType == [step : Steps, writing : BOOLEAN, token : wallet \cup {Nothing},
                 outcome : Outcomes \cup {Nothing}]

LEMMA ProgressTypes ==
    ASSUME CInv, NEW c \in Consumers
    PROVE  /\ progress \in [Consumers -> ProgressType] /\ progress[c] \in ProgressType
           /\ plan[c] \in Plans
           /\ TokenHeld(c) /\ ProgressFits(c) /\ ClientLogFits(c) /\ HostLogFits(c)
  BY DEF CInv, CallerTypeOK, ProgressType

\* Time passes, tokens and answers are added, and who has a token keeps it.
Frame ==
    /\ UNCHANGED plan
    /\ wallet \subseteq wallet'
    /\ replies \subseteq replies'
    /\ now' \in Nat /\ now <= now'
    /\ \A c \in Consumers : Called(c) => progress'[c].token = progress[c].token

LEMMA CalledStays ==
    ASSUME Frame, NEW c
    PROVE  /\ c \in Consumers /\ Called(c) => Called(c)'
           /\ MayCollide(c) => MayCollide(c)'
           /\ Answered(c) => Answered(c)'
           /\ ForService(c)' = ForService(c) /\ RightHeader(c)' = RightHeader(c)
<1>1. \A d \in Consumers : Called(d) => Called(d)'
  BY DEF Frame, Called
<1>2. MayCollide(c) => MayCollide(c)'
  BY <1>1 DEF MayCollide
<1>3. Answered(c) => Answered(c)'
  BY DEF Frame, Answered
<1> QED
  BY <1>1, <1>2, <1>3 DEF Frame, ForService, RightHeader

\* The numbers in a token that is held.
LEMMA TokenNumbers ==
    ASSUME CInv, NEW c \in Consumers, Called(c)
    PROVE  /\ progress[c].token \in wallet
           /\ progress[c].token \in IssuedTokens
           /\ progress[c].token.content.conditions.notBefore \in Int
           /\ progress[c].token.content.conditions.notOnOrAfter \in Int
           /\ now \in Nat
<1>1. progress[c].token \in wallet
  BY ProgressTypes DEF ProgressType, Called
<1>2. progress[c].token \in IssuedTokens /\ now \in Nat
  BY <1>1 DEF CInv, IInv, TypeOK
<1> QED
  BY <1>1, <1>2 DEF IssuedTokens, Tokens, Periods

LEMMA TokenStays ==
    ASSUME CInv, Frame, NEW c \in Consumers, Called(c)
    PROVE  TokenHeld(c)' /\ (Late(c) => Late(c)')
<1> DEFINE token == progress[c].token
<1>1. progress'[c].token = token /\ plan'[c] = plan[c] /\ now <= now' /\ now' \in Nat
  BY DEF Frame
<1>2. /\ token.content.conditions.notBefore \in Int
      /\ token.content.conditions.notOnOrAfter \in Int
      /\ now \in Nat
  BY TokenNumbers
<1>3. TokenHeld(c)'
  <2>1. TokenHeld(c)
    BY ProgressTypes
  <2> QED
    BY <1>1, <1>2, <2>1 DEF TokenHeld
<1>4. Late(c) => Late(c)'
  BY <1>1, <1>2, EndToEndAssumption, PingServiceAssumption DEF Late
<1> QED
  BY <1>3, <1>4

\* What was due stays due: consumers that called stay around, time does not turn
\* back.
LEMMA DueStays ==
    ASSUME CInv, Frame, NEW c \in Consumers, NEW o \in Outcomes, IsDue(c, o),
           o = Thrown("sts") => progress'[c].token = progress[c].token,
           o # Thrown("sts") => Called(c)
    PROVE  IsDue(c, o)'
<1>1. CASE o = Thrown("sts")
  <2>1. ~Called(c)
    BY <1>1 DEF IsDue, Thrown, SecurityFault
  <2>2. ~Called(c)'
    BY <1>1, <2>1 DEF Called
  <2> QED
    BY <1>1, <2>2 DEF IsDue, Thrown, SecurityFault
<1>2. CASE o # Thrown("sts")
  <2>1. MayCollide(c) => MayCollide(c)'
    BY CalledStays
  <2>2. ForService(c)' = ForService(c) /\ RightHeader(c)' = RightHeader(c)
    BY CalledStays
  <2>3. Late(c) => Late(c)'
    BY <1>2, TokenStays
  <2> QED
    BY <1>2, <2>1, <2>2, <2>3 DEF IsDue
<1> QED
  BY <1>1, <1>2

\* A reply of the service is an outcome, and none that says the call has not run.
LEMMA RepliesAreOutcomes ==
    ASSUME NEW o \in PingReplies
    PROVE  o \in Outcomes /\ o \notin NotRun /\ o # SecurityFault /\ \A by : o # Thrown(by)
<1>1. o.kind \in {"response", "fault", "fault of last resort"}
  <2>1. CASE o \in PingResponses
    BY <2>1 DEF PingResponses
  <2>2. CASE o \in PingFaults
    BY <2>2 DEF PingFaults
  <2>3. CASE o = FaultOfLastResort
    BY <2>3 DEF FaultOfLastResort
  <2> QED
    BY <2>1, <2>2, <2>3 DEF PingReplies
<1>2. \A by : Thrown(by).kind = "thrown"
  BY DEF Thrown
<1>3. SecurityFault.kind = "security fault"
  BY DEF SecurityFault
<1>4. o # SecurityFault /\ \A by : o # Thrown(by)
  BY <1>1, <1>2, <1>3
<1> QED
  BY <1>4 DEF Outcomes, NotRun

\* A reply that waits to be logged.
LEMMA PendingReply ==
    ASSUME CInv, Frame, NEW c \in Consumers, NEW o, o = progress[c].outcome,
           progress[c].step = "logResponse"
    PROVE  o \in PingReplies /\ o \in Outcomes /\ o \notin NotRun /\ IsDue(c, o)'
<1>1. o \in PingReplies /\ IsDue(c, o) /\ Called(c)
  BY ProgressTypes DEF ProgressFits
<1>2. o \in Outcomes /\ o \notin NotRun /\ o # Thrown("sts")
  BY <1>1, RepliesAreOutcomes
<1> QED
  BY <1>1, <1>2, DueStays

\* A consumer that does nothing.
LEMMA ConsumerStays ==
    ASSUME CInv, Frame, NEW c \in Consumers, progress'[c] = progress[c],
           InNetwork(c)' => InNetwork(c),
           clientLogged' = clientLogged \/ MayCollide(c)
    PROVE  TokenHeld(c)' /\ ProgressFits(c)' /\ ClientLogFits(c)'
<1>1. progress[c] \in ProgressType /\ TokenHeld(c) /\ ProgressFits(c) /\ ClientLogFits(c)
  BY ProgressTypes
<1>2. Called(c)' = Called(c) /\ Logging(c)' = Logging(c) /\ Replied(c)' = Replied(c)
  BY DEF Called, Logging, Replied
<1>3. (MayCollide(c) => MayCollide(c)') /\ (Answered(c) => Answered(c)')
  BY CalledStays
<1>4. TokenHeld(c)'
  BY <1>2, TokenStays DEF TokenHeld
<1>5. progress[c].step = "logResponse" => IsDue(c, progress[c].outcome)'
  BY PendingReply
<1>6. progress[c].step = "done" => IsDue(c, progress[c].outcome)'
  <2> SUFFICES ASSUME progress[c].step = "done" PROVE IsDue(c, progress[c].outcome)'
    OBVIOUS
  <2>1. /\ progress[c].outcome \in Outcomes /\ IsDue(c, progress[c].outcome)
        /\ progress[c].outcome # Thrown("sts") => Called(c)
    BY <1>1 DEF ProgressFits
  <2> QED
    BY <2>1, DueStays
<1>7. ProgressFits(c)'
  BY <1>1, <1>2, <1>3, <1>5, <1>6 DEF ProgressFits
<1>8. ClientLogFits(c)'
  BY <1>1, <1>2, <1>3 DEF ClientLogFits
<1> QED
  BY <1>4, <1>7, <1>8

\* The pings that stay in the network.
LEMMA PingStays ==
    ASSUME CInv, Frame, NEW p \in sent
    PROVE  OwnPing(p)'
<1> DEFINE c == p.id
<1>1. OwnPing(p) /\ c \in Consumers /\ Called(c)
  BY DEF CInv, NetworkFits, OwnPing
<1>2. /\ progress'[c].token = progress[c].token /\ plan' = plan /\ Called(c)'
      /\ now <= now' /\ now' \in Nat
  BY <1>1, CalledStays DEF Frame
<1>3. p.token.content.conditions.notBefore \in Int /\ now \in Nat
  BY <1>1, TokenNumbers DEF OwnPing
<1> QED
  BY <1>1, <1>2, <1>3 DEF OwnPing

LEMMA NetworkStays ==
    ASSUME CInv, Frame, seen' \subseteq sent', sent' \subseteq sent
    PROVE  NetworkFits'
<1>1. \A p \in sent' : OwnPing(p)'
  BY PingStays
<1> QED
  BY <1>1 DEF CInv, NetworkFits

\* A step that leaves the service's threads alone.
LEMMA HostStays ==
    ASSUME CInv, Frame, UNCHANGED <<logged, call, replies>>
    PROVE  /\ \A c \in Consumers : HostLogFits(c)'
           /\ \A t \in Threads : LossIsExplained(t)'
<1>1. ASSUME NEW c \in Consumers PROVE HostLogFits(c)'
  <2>1. HostLogFits(c) /\ Answered(c)' = Answered(c) /\ (MayCollide(c) => MayCollide(c)')
    BY ProgressTypes, CalledStays DEF Answered
  <2> QED
    BY <2>1 DEF HostLogFits
<1>2. ASSUME NEW t \in Threads PROVE LossIsExplained(t)'
  <2>1. LossIsExplained(t)
    BY DEF CInv
  <2>2. MayCollide(call[t].ping.id) => MayCollide(call[t].ping.id)'
    BY CalledStays DEF MayCollide
  <2> QED
    BY <2>1, <2>2 DEF LossIsExplained, Lost
<1> QED
  BY <1>1, <1>2

\* Which log file a consumer has open after it has gone on.
LEMMA LogsStayOwned ==
    ASSUME CInv, UNCHANGED <<clientWriter, clientLogged>>,
           \A c \in Consumers : \/ progress'[c] = progress[c]
                                \/ ~progress[c].writing /\ ~progress'[c].writing
    PROVE  ClientLogsOwned' /\ ClientLog!LogTypeOK(Consumers)'
<1>1. ClientLogsOwned'
  BY DEF CInv, ClientLogsOwned, FileOf
<1>2. ClientLog!LogTypeOK(Consumers)'
  BY DEF CInv, CallerTypeOK, ClientLog!LogTypeOK
<1> QED
  BY <1>1, <1>2

\* One consumer goes on: what it has to see to, the others and the service
\* being where they were.
LEMMA ConsumerStep ==
    ASSUME CInv, IInv', Frame, NEW c \in Consumers, NEW p, Proceed(c, p),
           p \in ProgressType',
           UNCHANGED <<logged, call, replies>>,
           \A d \in Consumers : d # c /\ InNetwork(d)' => InNetwork(d),
           clientLogged' = clientLogged \/ Called(c),
           NetworkFits', ClientLogsOwned', ClientLog!LogTypeOK(Consumers)',
           progress'[c] = p => TokenHeld(c)' /\ ProgressFits(c)' /\ ClientLogFits(c)'
    PROVE  CInv'
<1>1. /\ progress \in [Consumers -> ProgressType]
      /\ progress' = [progress EXCEPT ![c] = p]
  BY ProgressTypes DEF Proceed
<1>2. /\ progress'[c] = p
      /\ \A d \in Consumers : d # c => progress'[d] = progress[d]
  BY <1>1
<1>3. progress' \in [Consumers -> ProgressType']
  BY <1>1 DEF Frame, ProgressType
<1>4. CallerTypeOK'
  BY <1>3 DEF CInv, CallerTypeOK, Frame, IInv, ProgressType
<1>5. \A d \in Consumers : TokenHeld(d)' /\ ProgressFits(d)' /\ ClientLogFits(d)'
  <2> SUFFICES ASSUME NEW d \in Consumers, d # c
               PROVE  TokenHeld(d)' /\ ProgressFits(d)' /\ ClientLogFits(d)'
    BY <1>2
  <2>1. clientLogged' = clientLogged \/ MayCollide(d)
    BY DEF MayCollide
  <2> QED
    BY <1>2, <2>1, ConsumerStays
<1> QED
  BY <1>4, <1>5, HostStays DEF CInv

\* The call of the token service succeeds: the token is bound to the client's own
\* key and valid from now on.
LEMMA ObtainTokenInvariant ==
    ASSUME CInv, NEW c \in Consumers, ObtainToken(c)
    PROVE  CInv'
<1> DEFINE request == plan[c].request
           token == TokenFor(request)
           p == [progress[c] EXCEPT !.token = token,
                    !.step = IF EnableClientLog THEN "logRequest" ELSE "send"]
<1>1. /\ progress \in [Consumers -> ProgressType] /\ progress[c] \in ProgressType
      /\ ProgressFits(c) /\ plan[c] \in Plans /\ IInv /\ now \in Nat
  BY ProgressTypes DEF CInv, IInv, TypeOK
<1>2. /\ request \in Requests /\ UsualRequest(request)
      /\ request.certificate \in Certificates /\ request.rst \in Rsts
  BY <1>1, ServiceConsumerAssumption, EndToEndAssumption
<1>3. /\ progress[c].step = "obtain" /\ Obtain(request) /\ Proceed(c, p)
      /\ UNCHANGED <<plan, clientWriter, clientLogged>>
  BY DEF ObtainToken
<1>4. /\ WouldIssue(request)
      /\ wallet' = wallet \cup {token}
      /\ UNCHANGED <<writer, logged, call, seen, replies, now, sent>>
  BY <1>3 DEF Obtain, serviceVars
<1>5. ~Called(c) /\ ~InNetwork(c) /\ ~progress[c].writing
  BY <1>1, <1>3 DEF ProgressFits, Logging, FileOf, ProgressType
<1>6. token \in IssuedTokens /\ token # Nothing
  BY <1>1, <1>2, <1>4, TokenForFits, ServiceConsumerAssumption
<1>7. /\ token.type = "saml2" /\ token.issuer = "sts"
      /\ token.holder = request.certificate
      /\ token.content.audience = request.rst.appliesTo
      /\ token.content.method = "holder-of-key"
      /\ token.content.conditions.notBefore = now
  BY <1>2 DEF TokenFor, TokenAt, CreateToken, UsualRequest, WithSecondaryParameters,
              GetTokenLifetime
<1>8. request.certificate \in {"client", "onBehalfOf"}
  BY <1>4 DEF WouldIssue, KnownCertificate, ClaimsException, Principal, FaultException,
              NoException
<1> HIDE DEF token, request
<1>9. /\ p \in ProgressType' /\ p.token = token /\ ~p.writing
      /\ p.step = IF EnableClientLog THEN "logRequest" ELSE "send"
  BY <1>1, <1>4, <1>5 DEF ProgressType, Steps
<1> HIDE DEF p
<1>10. /\ progress'[c] = p
       /\ \A d \in Consumers : d # c => progress'[d] = progress[d]
  BY <1>1, <1>3 DEF Proceed
<1>11. Frame
  BY <1>1, <1>3, <1>4, <1>5, <1>10 DEF Frame
<1>12. IInv'
  BY <1>1, <1>2, <1>3, ObtainInvariant
<1>13. \A d \in Consumers : InNetwork(d)' = InNetwork(d)
  BY <1>4 DEF InNetwork
<1>14. NetworkFits'
  BY <1>4, <1>11, NetworkStays DEF CInv, NetworkFits
<1>15. ClientLogsOwned' /\ ClientLog!LogTypeOK(Consumers)'
  BY <1>3, <1>5, <1>9, <1>10, LogsStayOwned
<1>16. TokenHeld(c)'
  BY <1>3, <1>4, <1>7, <1>8, <1>10, <1>9, <1>1 DEF TokenHeld, request
<1>17. ProgressFits(c)'
  BY <1>5, <1>6, <1>9, <1>10, <1>13 DEF ProgressFits, Called
<1>18. ClientLogFits(c)'
  BY <1>9, <1>10 DEF ClientLogFits, Replied
<1> QED
  BY <1>3, <1>4, <1>9, <1>11, <1>12, <1>13, <1>14, <1>15, <1>16, <1>17, <1>18, ConsumerStep

\* A consumer ends its call with what is due.
LEMMA EndFits ==
    ASSUME CInv, Frame, NEW c \in Consumers, NEW outcome \in Outcomes, End(c, outcome),
           IsDue(c, outcome),
           outcome # Thrown("sts") => Called(c),
           outcome \in NotRun => ~InNetwork(c)',
           outcome \in PingReplies =>
               /\ Answered(c)'
               /\ EnableClientLog /\ ~MayCollide(c) =>
                     /\ clientLogged'[SentRequestToService] = c
                     /\ clientLogged'[ReceivedResponse] = c
    PROVE  /\ progress'[c] = [progress[c] EXCEPT !.step = "done", !.writing = FALSE,
                                                 !.outcome = outcome]
           /\ progress'[c] \in ProgressType' /\ ~progress'[c].writing
           /\ \A d \in Consumers : d # c => progress'[d] = progress[d]
           /\ TokenHeld(c)' /\ ProgressFits(c)' /\ ClientLogFits(c)'
<1> DEFINE p == [progress[c] EXCEPT !.step = "done", !.writing = FALSE, !.outcome = outcome]
<1>1. /\ progress \in [Consumers -> ProgressType] /\ progress[c] \in ProgressType
      /\ TokenHeld(c) /\ Proceed(c, p)
  BY ProgressTypes DEF End
<1>2. /\ p \in ProgressType' /\ p.step = "done" /\ ~p.writing /\ p.outcome = outcome
      /\ p.token = progress[c].token
  BY <1>1 DEF ProgressType, Steps, Frame
<1>3. /\ progress'[c] = p
      /\ \A d \in Consumers : d # c => progress'[d] = progress[d]
  BY <1>1 DEF Proceed
<1> HIDE DEF p
<1>4. Called(c)' = Called(c) /\ (MayCollide(c) => MayCollide(c)')
  BY <1>2, <1>3, CalledStays DEF Called
<1>5. TokenHeld(c)'
  BY <1>4, TokenStays DEF TokenHeld
<1>6. IsDue(c, outcome)'
  BY <1>2, <1>3, DueStays
<1>7. ProgressFits(c)'
  BY <1>2, <1>3, <1>4, <1>6 DEF ProgressFits
<1>8. ClientLogFits(c)'
  BY <1>2, <1>3, <1>4 DEF ClientLogFits, Replied
<1> QED
  BY <1>2, <1>3, <1>5, <1>7, <1>8 DEF p

\* A step of one consumer that the network and the service do not notice.
LEMMA SameFrame ==
    ASSUME CInv, UNCHANGED <<vars, plan>>, NEW c \in Consumers, NEW p, Proceed(c, p),
           p.token = progress[c].token
    PROVE  /\ IInv' /\ Frame /\ NetworkFits'
           /\ UNCHANGED <<logged, call, replies>>
           /\ \A d \in Consumers : InNetwork(d)' = InNetwork(d) /\ Answered(d)' = Answered(d)
<1>1. UNCHANGED <<writer, logged, call, seen, replies, now, wallet, sent, plan>>
  BY DEF vars
<1>2. IInv'
  BY NextInvariant DEF CInv
<1>3. Frame
  BY <1>1, ProgressTypes DEF Proceed, Frame, CInv, IInv, TypeOK
<1>4. NetworkFits'
  BY <1>1, <1>3, NetworkStays DEF CInv, NetworkFits
<1> QED
  BY <1>1, <1>2, <1>3, <1>4 DEF InNetwork, Answered

\* Giving up: the outcome is an exception.
LEMMA ThrowInvariant ==
    ASSUME CInv, NEW c \in Consumers,
           NEW by \in {"sts", "requestLog", "responseLog", "timeout"},
           End(c, Thrown(by)), IsDue(c, Thrown(by)), ~progress[c].writing,
           Thrown(by) # Thrown("sts") => Called(c),
           Thrown(by) \in NotRun => ~InNetwork(c),
           UNCHANGED <<vars, plan, clientWriter, clientLogged>>
    PROVE  CInv'
<1> DEFINE p == [progress[c] EXCEPT !.step = "done", !.writing = FALSE, !.outcome = Thrown(by)]
<1>1. Thrown(by) \in Outcomes /\ Thrown(by) \notin PingReplies
  BY DEF Outcomes, Thrown, PingReplies, PingResponses, PingFaults, FaultOfLastResort
<1>2. Proceed(c, p) /\ p.token = progress[c].token
  BY ProgressTypes DEF End, ProgressType
<1>3. /\ IInv' /\ Frame /\ NetworkFits' /\ UNCHANGED <<logged, call, replies>>
      /\ \A d \in Consumers : InNetwork(d)' = InNetwork(d)
  BY <1>2, SameFrame
<1>4. /\ progress'[c] = p /\ p \in ProgressType' /\ ~progress'[c].writing
      /\ \A d \in Consumers : d # c => progress'[d] = progress[d]
      /\ TokenHeld(c)' /\ ProgressFits(c)' /\ ClientLogFits(c)'
  BY <1>1, <1>3, EndFits
<1> HIDE DEF p
<1>5. ClientLogsOwned' /\ ClientLog!LogTypeOK(Consumers)'
  BY <1>4, LogsStayOwned
<1> QED
  BY <1>2, <1>3, <1>4, <1>5, ConsumerStep

LEMMA GiveUpInvariant ==
    ASSUME CInv, NEW c \in Consumers,
           ObtainFails(c) \/ ClientLogThrows(c) \/ TimeOut(c)
    PROVE  CInv'
<1>1. progress[c] \in ProgressType /\ ProgressFits(c)
  BY ProgressTypes
<1>2. CASE ObtainFails(c)
  <2>1. ~Called(c) /\ ~InNetwork(c) /\ ~progress[c].writing
    BY <1>1, <1>2 DEF ProgressFits, ObtainFails, Logging, FileOf, ProgressType
  <2>2. IsDue(c, Thrown("sts"))
    BY <2>1 DEF IsDue, Thrown, SecurityFault
  <2> QED
    BY <1>2, <2>1, <2>2, ThrowInvariant DEF ObtainFails
<1>3. CASE ClientLogThrows(c)
  <2> DEFINE file == FileOf[progress[c].step]
             by == IF progress[c].step = "logRequest" THEN "requestLog" ELSE "responseLog"
  <2>1. /\ progress[c].step \in {"logRequest", "logResponse"} /\ ~progress[c].writing
        /\ clientWriter[file] # NoThread \/ DiskMayFail
        /\ End(c, Thrown(by))
        /\ UNCHANGED <<vars, plan, clientWriter, clientLogged>>
    BY <1>3 DEF ClientLogThrows, Logging, FileOf, ClientLog!LogThrows, ClientLog!logVars
  <2>2. Called(c)
    BY <1>1, <2>1 DEF ProgressFits
  <2>3. MayCollide(c)
    <3> SUFFICES ASSUME clientWriter[file] # NoThread
                 PROVE  \E d \in Consumers : d # c /\ Called(d)
      BY <2>1 DEF MayCollide
    <3>1. file \in {SentRequestToService, ReceivedResponse}
      BY <2>1 DEF FileOf
    <3>2. clientWriter[file] \in Consumers
      BY <3>1 DEF CInv, CallerTypeOK, ClientLog!LogTypeOK
    <3>3. PICK d \in Consumers : clientWriter[file] = d
      BY <3>2
    <3>4. progress[d].writing /\ progress[d].step = progress[c].step
      BY <2>1, <3>3 DEF CInv, ClientLogsOwned, FileOf
    <3>5. d # c
      BY <2>1, <3>4
    <3>6. Called(d)
      BY <2>1, <3>4, ProgressTypes DEF ProgressFits
    <3> QED
      BY <3>5, <3>6
  <2>4. IsDue(c, Thrown(by))
    BY <2>3 DEF IsDue, Thrown, SecurityFault
  <2>5. Thrown(by) \in NotRun => ~InNetwork(c)
    BY <1>1, <2>1 DEF NotRun, Thrown, SecurityFault, ProgressFits
  <2>6. Thrown(by) # Thrown("sts")
    BY DEF Thrown
  <2> HIDE DEF file
  <2> QED
    BY <2>1, <2>2, <2>4, <2>5, <2>6, ThrowInvariant
<1>4. CASE TimeOut(c)
  <2>1. Called(c) /\ ~progress[c].writing
    BY <1>1, <1>4 DEF ProgressFits, TimeOut, Logging, FileOf, ProgressType
  <2>2. IsDue(c, Thrown("timeout")) /\ Thrown("timeout") \notin NotRun
    BY DEF IsDue, NotRun, Thrown, SecurityFault
  <2> QED
    BY <1>4, <2>1, <2>2, ThrowInvariant DEF TimeOut
<1> QED
  BY <1>2, <1>3, <1>4

\* Opening a log file empties it: the other consumers' claims on it end with their
\* being alone, the consumer's own claim on the other file does not.
LEMMA OpenClientLogInvariant ==
    ASSUME CInv, NEW c \in Consumers, OpenClientLog(c)
    PROVE  CInv'
<1> DEFINE step == progress[c].step
           file == FileOf[step]
           p == [progress[c] EXCEPT !.writing = TRUE]
<1>1. /\ progress \in [Consumers -> ProgressType] /\ progress[c] \in ProgressType
      /\ ProgressFits(c) /\ TokenHeld(c) /\ ClientLogFits(c)
  BY ProgressTypes
<1>2. /\ step \in {"logRequest", "logResponse"} /\ ~progress[c].writing
      /\ clientWriter[file] = NoThread
      /\ clientWriter' = [clientWriter EXCEPT ![file] = c]
      /\ clientLogged' = [clientLogged EXCEPT ![file] = Nothing]
      /\ Proceed(c, p) /\ UNCHANGED <<vars, plan>>
  BY DEF OpenClientLog, Logging, FileOf, ClientLog!OpenLog
<1>3. /\ clientWriter \in [{SentRequestToService, ReceivedResponse} ->
                              Consumers \cup {NoThread}]
      /\ clientLogged \in [{SentRequestToService, ReceivedResponse} ->
                              Consumers \cup {Nothing}]
      /\ ClientLogsOwned
  BY DEF CInv, CallerTypeOK, ClientLog!LogTypeOK
<1>4. /\ p.step = step /\ p.writing /\ p.token = progress[c].token
      /\ p.outcome = progress[c].outcome
  BY <1>1 DEF ProgressType
<1>5. /\ IInv' /\ Frame /\ NetworkFits' /\ UNCHANGED <<logged, call, replies>>
      /\ \A d \in Consumers : InNetwork(d)' = InNetwork(d) /\ Answered(d)' = Answered(d)
  BY <1>2, <1>4, SameFrame
<1>6. p \in ProgressType'
  BY <1>1, <1>5 DEF ProgressType, Frame
<1> HIDE DEF p
<1>7. /\ progress'[c] = p
      /\ \A d \in Consumers : d # c => progress'[d] = progress[d]
  BY <1>1, <1>2 DEF Proceed
<1>8. Called(c) /\ Called(c)'
  BY <1>1, <1>2, <1>4, <1>7 DEF ProgressFits, Called
<1>9. ClientLogsOwned'
  BY <1>2, <1>3, <1>4, <1>7, ServiceConsumerAssumption
     DEF ClientLogsOwned, FileOf, SentRequestToService, ReceivedResponse
<1>10. ClientLog!LogTypeOK(Consumers)'
  BY <1>2, <1>3 DEF ClientLog!LogTypeOK, FileOf
<1>11. ProgressFits(c)'
  <2>1. PICK o : o = progress[c].outcome
    OBVIOUS
  <2>2. step = "logResponse" => o \in PingReplies /\ IsDue(c, o)'
    BY <1>5, <2>1, PendingReply
  <2> QED
    BY <1>1, <1>2, <1>4, <1>5, <1>7, <1>8, <2>1, <2>2 DEF ProgressFits, Logging, FileOf
<1>12. ClientLogFits(c)'
  <2>1. MayCollide(c) => MayCollide(c)'
    BY <1>5, CalledStays
  <2> QED
    BY <1>1, <1>2, <1>3, <1>4, <1>7, <2>1
       DEF ClientLogFits, Replied, FileOf, SentRequestToService, ReceivedResponse
<1>13. TokenHeld(c)'
  BY <1>5, <1>8, TokenStays
<1> QED
  BY <1>2, <1>5, <1>6, <1>8, <1>9, <1>10, <1>11, <1>12, <1>13, ConsumerStep

\* Closing it leaves the consumer's own call there.
LEMMA CloseClientLogInvariant ==
    ASSUME CInv, NEW c \in Consumers, CloseClientLog(c)
    PROVE  CInv'
<1> DEFINE step == progress[c].step
           file == FileOf[step]
           p == IF step = "logResponse"
                THEN [progress[c] EXCEPT !.step = "done", !.writing = FALSE,
                                         !.outcome = progress[c].outcome]
                ELSE [progress[c] EXCEPT !.step = "send", !.writing = FALSE]
<1>1. /\ progress \in [Consumers -> ProgressType] /\ progress[c] \in ProgressType
      /\ ProgressFits(c) /\ TokenHeld(c) /\ ClientLogFits(c)
  BY ProgressTypes
<1>2. /\ step \in {"logRequest", "logResponse"}
      /\ clientWriter' = [clientWriter EXCEPT ![file] = NoThread]
      /\ clientLogged' = [clientLogged EXCEPT ![file] = c]
      /\ Proceed(c, p) /\ UNCHANGED <<vars, plan>>
  BY <1>1 DEF CloseClientLog, ProgressFits, Logging, FileOf, ClientLog!CloseLog, End
<1>3. /\ clientWriter \in [{SentRequestToService, ReceivedResponse} ->
                              Consumers \cup {NoThread}]
      /\ clientLogged \in [{SentRequestToService, ReceivedResponse} ->
                              Consumers \cup {Nothing}]
      /\ ClientLogsOwned
  BY DEF CInv, CallerTypeOK, ClientLog!LogTypeOK
<1>4. /\ p.step = IF step = "logResponse" THEN "done" ELSE "send"
      /\ ~p.writing /\ p.token = progress[c].token /\ p.outcome = progress[c].outcome
  BY <1>1 DEF ProgressType
<1>5. /\ IInv' /\ Frame /\ NetworkFits' /\ UNCHANGED <<logged, call, replies>>
      /\ \A d \in Consumers : InNetwork(d)' = InNetwork(d) /\ Answered(d)' = Answered(d)
  BY <1>2, <1>4, SameFrame
<1>6. p \in ProgressType'
  BY <1>1, <1>5 DEF ProgressType, Frame, Steps
<1> HIDE DEF p
<1>7. /\ progress'[c] = p
      /\ \A d \in Consumers : d # c => progress'[d] = progress[d]
  BY <1>1, <1>2 DEF Proceed
<1>8. Called(c) /\ Called(c)'
  BY <1>1, <1>2, <1>4, <1>7 DEF ProgressFits, Called
<1>9. ClientLogsOwned'
  <2>1. clientWriter[file] = c
    BY <1>1, <1>2, <1>3 DEF CloseClientLog, ClientLogsOwned, FileOf
  <2> QED
    BY <1>2, <1>3, <1>4, <1>7, <2>1, ServiceConsumerAssumption
       DEF ClientLogsOwned, FileOf, SentRequestToService, ReceivedResponse
<1>10. ClientLog!LogTypeOK(Consumers)'
  BY <1>2, <1>3 DEF ClientLog!LogTypeOK, FileOf
<1>11. ProgressFits(c)'
  <2>1. PICK o : o = progress[c].outcome
    OBVIOUS
  <2>2. step = "logResponse" =>
           o \in PingReplies /\ o \in Outcomes /\ o \notin NotRun /\ IsDue(c, o)'
    BY <1>5, <2>1, PendingReply
  <2> QED
    BY <1>1, <1>2, <1>4, <1>5, <1>7, <1>8, <2>1, <2>2 DEF ProgressFits
<1>12. ClientLogFits(c)'
  <2>1. MayCollide(c) => MayCollide(c)'
    BY <1>5, CalledStays
  <2> QED
    BY <1>1, <1>2, <1>3, <1>4, <1>7, <2>1
       DEF ClientLogFits, Replied, FileOf, SentRequestToService, ReceivedResponse
<1>13. TokenHeld(c)'
  BY <1>5, <1>8, TokenStays
<1> QED
  BY <1>2, <1>5, <1>6, <1>8, <1>9, <1>10, <1>11, <1>12, <1>13, ConsumerStep

\* The ping that is sent is the consumer's only one.
LEMMA SendInvariant ==
    ASSUME CInv, NEW c \in Consumers, Send(c)
    PROVE  CInv'
<1> DEFINE request == plan[c].request
           p == [progress[c] EXCEPT !.step = "wait"]
<1>1. /\ progress \in [Consumers -> ProgressType] /\ progress[c] \in ProgressType
      /\ ProgressFits(c) /\ TokenHeld(c) /\ ClientLogFits(c) /\ plan[c] \in Plans
  BY ProgressTypes
<1>2. /\ progress[c].step = "send"
      /\ SendPing(c, progress[c].token, request.certificate, plan[c].framework)
      /\ Proceed(c, p) /\ UNCHANGED <<plan, clientWriter, clientLogged>>
  BY DEF Send
<1>3. PICK ping :
      /\ ping = [id |-> c, token |-> progress[c].token, signer |-> request.certificate,
                 framework |-> plan[c].framework, created |-> now,
                 expires |-> now + PingValidity]
      /\ \A q \in sent : q.id # c
      /\ progress[c].token \in wallet \cup ForeignTokens
      /\ sent' = sent \cup {ping}
      /\ UNCHANGED <<writer, logged, call, seen, replies, now, wallet>>
  BY <1>2 DEF SendPing, serviceVars
<1>4. Called(c) /\ ~progress[c].writing
  BY <1>1, <1>2 DEF ProgressFits, Logging, FileOf, ProgressType
<1>5. IInv'
  <2>1. c \in PingIds /\ plan[c].framework \in Headers
    BY <1>1, ServiceConsumerAssumption
  <2>2. request.certificate \in {"client", "onBehalfOf"}
    BY <1>1, <1>4 DEF TokenHeld
  <2> QED
    BY <1>2, <1>3, <2>1, <2>2, SendPingInvariant DEF CInv
<1>6. /\ p \in ProgressType' /\ p.step = "wait" /\ ~p.writing
      /\ p.token = progress[c].token /\ p.outcome = progress[c].outcome
  BY <1>1, <1>3, <1>4 DEF ProgressType, Steps
<1> HIDE DEF p
<1>7. /\ progress'[c] = p
      /\ \A d \in Consumers : d # c => progress'[d] = progress[d]
  BY <1>1, <1>2 DEF Proceed
<1>8. Frame
  BY <1>2, <1>3, <1>6, <1>7 DEF Frame, CInv, IInv, TypeOK
<1>9. Called(c)' /\ TokenHeld(c)'
  BY <1>4, <1>8, CalledStays, TokenStays
<1>10. OwnPing(ping)'
  BY <1>1, <1>2, <1>3, <1>4, <1>6, <1>7, <1>9, TokenNumbers, PingServiceAssumption
     DEF OwnPing, TokenHeld
<1>11. ping.id = c
  BY <1>3
<1>12. NetworkFits'
  <2>1. \A q \in sent : OwnPing(q)'
    BY <1>8, PingStays
  <2> QED
    BY <1>3, <1>10, <1>11, <2>1 DEF CInv, NetworkFits
<1>13. \A d \in Consumers : d # c /\ InNetwork(d)' => InNetwork(d)
  BY <1>3, <1>11 DEF InNetwork
<1>14. ClientLogsOwned' /\ ClientLog!LogTypeOK(Consumers)'
  BY <1>2, <1>4, <1>6, <1>7, LogsStayOwned
<1>15. ProgressFits(c)'
  BY <1>6, <1>7, <1>9 DEF ProgressFits
<1>16. ClientLogFits(c)'
  <2>1. MayCollide(c) => MayCollide(c)'
    BY <1>8, CalledStays
  <2> QED
    BY <1>1, <1>2, <1>6, <1>7, <2>1 DEF ClientLogFits, Replied
<1> QED
  BY <1>2, <1>3, <1>5, <1>6, <1>8, <1>9, <1>12, <1>13, <1>14, <1>15, <1>16, ConsumerStep

-----------------------------------------------------------------------------
(* Answers.                                                                   *)

LEMMA ReceiveFrame ==
    ASSUME CInv, NEW c \in Consumers, NEW answer, Receive(c, answer),
           UNCHANGED <<now, wallet>>, replies \subseteq replies'
    PROVE  Frame
<1>1. progress \in [Consumers -> ProgressType] /\ now \in Nat
  BY ProgressTypes DEF CInv, IInv, TypeOK
<1>2. \A d \in Consumers : progress'[d].token = progress[d].token
  <2>1. CASE progress' = progress
    BY <2>1
  <2>2. ASSUME NEW p, Proceed(c, p), p.token = progress[c].token
        PROVE  \A d \in Consumers : progress'[d].token = progress[d].token
    BY <1>1, <2>2 DEF Proceed
  <2>3. CASE End(c, answer)
    BY <1>1, <2>2, <2>3, ProgressTypes DEF End, ProgressType
  <2>4. CASE Proceed(c, [progress[c] EXCEPT !.step = "logResponse", !.outcome = answer])
    BY <1>1, <2>2, <2>4, ProgressTypes DEF ProgressType
  <2> QED
    BY <2>1, <2>3, <2>4 DEF Receive
<1> QED
  BY <1>1, <1>2 DEF Frame, Receive

\* Only a consumer that still waits takes the answer, and logs it first.
LEMMA ReceiveFits ==
    ASSUME CInv, Frame, NEW c \in Consumers, NEW answer \in PingReplies \cup {SecurityFault},
           Receive(c, answer), IsDue(c, answer), InNetwork(c)' => InNetwork(c),
           answer \in PingReplies => Answered(c)',
           answer = SecurityFault => ~InNetwork(c)'
    PROVE  /\ progress' \in [Consumers -> ProgressType']
           /\ \A d \in Consumers : d # c => progress'[d] = progress[d]
           /\ TokenHeld(c)' /\ ProgressFits(c)' /\ ClientLogFits(c)'
           /\ ClientLogsOwned' /\ ClientLog!LogTypeOK(Consumers)'
<1>1. /\ progress \in [Consumers -> ProgressType] /\ progress[c] \in ProgressType
      /\ ProgressFits(c) /\ ClientLogFits(c)
      /\ ProgressType \subseteq ProgressType'
  BY ProgressTypes DEF Frame, ProgressType
<1>2. UNCHANGED <<clientWriter, clientLogged>>
  BY DEF Receive
<1>3. answer \in Outcomes /\ answer # Thrown("sts")
  <2>1. SecurityFault \in Outcomes /\ SecurityFault # Thrown("sts")
    BY DEF Outcomes, SecurityFault, Thrown
  <2> QED
    BY <2>1, RepliesAreOutcomes
<1>4. CASE progress[c].step # "wait"
  <2>1. progress' = progress
    BY <1>4 DEF Receive
  <2>2. TokenHeld(c)' /\ ProgressFits(c)' /\ ClientLogFits(c)'
    BY <1>2, <2>1, ConsumerStays
  <2>3. ClientLogsOwned' /\ ClientLog!LogTypeOK(Consumers)'
    BY <1>2, <2>1, LogsStayOwned
  <2> QED
    BY <1>1, <2>1, <2>2, <2>3
<1>5. CASE progress[c].step = "wait"
  <2>1. Called(c) /\ ~progress[c].writing
    BY <1>1, <1>5 DEF ProgressFits, Logging, FileOf, ProgressType
  <2>2. SUFFICES /\ progress' \in [Consumers -> ProgressType']
                 /\ \A d \in Consumers : d # c => progress'[d] = progress[d]
                 /\ TokenHeld(c)' /\ ProgressFits(c)' /\ ClientLogFits(c)'
                 /\ ~progress'[c].writing
    BY <1>2, <2>1, LogsStayOwned
  <2>3. CASE answer = SecurityFault \/ ~EnableClientLog
    <3>1. End(c, answer)
      BY <1>5, <2>3 DEF Receive
    <3>2. answer \in NotRun => ~InNetwork(c)'
      BY RepliesAreOutcomes
    <3>3. answer \in PingReplies => ~EnableClientLog
      BY <2>3, RepliesAreOutcomes
    <3>4. /\ progress'[c] \in ProgressType' /\ ~progress'[c].writing
          /\ \A d \in Consumers : d # c => progress'[d] = progress[d]
          /\ TokenHeld(c)' /\ ProgressFits(c)' /\ ClientLogFits(c)'
      BY <1>3, <2>1, <3>1, <3>2, <3>3, EndFits
    <3>5. progress' = [progress EXCEPT ![c] = progress'[c]]
      BY <1>1, <3>1 DEF End, Proceed
    <3> QED
      BY <1>1, <3>4, <3>5
  <2>4. CASE ~(answer = SecurityFault \/ ~EnableClientLog)
    <3> DEFINE p == [progress[c] EXCEPT !.step = "logResponse", !.outcome = answer]
    <3>1. Proceed(c, p)
      BY <1>5, <2>4 DEF Receive
    <3>2. /\ p \in ProgressType' /\ p.step = "logResponse" /\ ~p.writing
          /\ p.outcome = answer /\ p.token = progress[c].token
      BY <1>1, <1>3, <2>1 DEF ProgressType, Steps
    <3> HIDE DEF p
    <3>3. /\ progress' \in [Consumers -> ProgressType'] /\ progress'[c] = p
          /\ \A d \in Consumers : d # c => progress'[d] = progress[d]
      BY <1>1, <3>1, <3>2 DEF Proceed
    <3>4. /\ Called(c)' /\ TokenHeld(c)' /\ IsDue(c, answer)'
          /\ MayCollide(c) => MayCollide(c)'
      BY <1>3, <2>1, CalledStays, TokenStays, DueStays
    <3>5. ProgressFits(c)'
      BY <2>4, <3>2, <3>3, <3>4 DEF ProgressFits
    <3>6. ClientLogFits(c)'
      BY <1>1, <1>2, <1>5, <3>2, <3>3, <3>4 DEF ClientLogFits, Replied
    <3> QED
      BY <3>2, <3>3, <3>4, <3>5, <3>6
  <2> QED
    BY <2>3, <2>4
<1> QED
  BY <1>4, <1>5

LEMMA ReceiveStep ==
    ASSUME CInv, IInv', Frame, NEW c \in Consumers,
           NEW answer \in PingReplies \cup {SecurityFault},
           Receive(c, answer), IsDue(c, answer),
           answer \in PingReplies => Answered(c)',
           answer = SecurityFault => ~InNetwork(c)',
           NetworkFits', \A d \in Consumers : InNetwork(d)' => InNetwork(d),
           \A d \in Consumers : HostLogFits(d)',
           \A t \in Threads : LossIsExplained(t)'
    PROVE  CInv'
<1>1. /\ progress' \in [Consumers -> ProgressType']
      /\ \A d \in Consumers : d # c => progress'[d] = progress[d]
      /\ TokenHeld(c)' /\ ProgressFits(c)' /\ ClientLogFits(c)'
      /\ ClientLogsOwned' /\ ClientLog!LogTypeOK(Consumers)'
  BY ReceiveFits
<1>2. UNCHANGED <<plan, clientWriter, clientLogged>>
  BY DEF Receive
<1>3. \A d \in Consumers : TokenHeld(d)' /\ ProgressFits(d)' /\ ClientLogFits(d)'
  BY <1>1, <1>2, ConsumerStays
<1>4. CallerTypeOK'
  BY <1>1, <1>2 DEF CInv, CallerTypeOK, IInv, ProgressType
<1> QED
  BY <1>1, <1>3, <1>4 DEF CInv

\* The channel refuses a first copy only when the token is for somebody else, or
\* too late.
LEMMA RefuseInvariant ==
    ASSUME CInv, NEW p \in sent, Refuse(p)
    PROVE  CInv'
<1> DEFINE c == p.id
           token == p.token
<1>1. /\ OwnPing(p) /\ c \in Consumers /\ Called(c) /\ NetworkFits /\ IInv
  BY DEF CInv, NetworkFits, OwnPing
<1>2. /\ p \notin seen /\ ~Authentic(p) /\ sent' = sent \ {p}
      /\ Receive(c, SecurityFault)
      /\ UNCHANGED <<writer, logged, call, seen, replies, now, wallet>>
  BY DEF Refuse, serviceVars
<1>3. /\ TokenHeld(c) /\ token = progress[c].token /\ token \in wallet
      /\ token.content.conditions.notBefore \in Int
      /\ token.content.conditions.notOnOrAfter \in Int
      /\ now \in Nat /\ ServiceClockSkew \in Nat /\ PingValidity \in Nat
  BY <1>1, ProgressTypes, TokenNumbers, PingServiceAssumption, EndToEndAssumption
     DEF OwnPing
<1>4. IsDue(c, SecurityFault)
  <2> SUFFICES ASSUME ForService(c), ~Late(c) PROVE Authentic(p)
    BY <1>2 DEF IsDue, SecurityFault, Thrown
  <2>1. /\ now < token.content.conditions.notOnOrAfter + ServiceClockSkew
        /\ now <= token.content.conditions.notBefore + PingValidity + ServiceClockSkew
    BY <1>3 DEF Late
  <2>2. /\ p.created \in token.content.conditions.notBefore .. now
        /\ p.expires = p.created + PingValidity
        /\ p.signer = plan[c].request.certificate
    BY <1>1 DEF OwnPing
  <2>3. Fresh(p)
    BY <1>3, <2>1, <2>2 DEF Fresh
  <2>4. ~Replayed(p)
    BY <1>1, <1>2 DEF Replayed, NetworkFits
  <2>5. HoldsKey(p) /\ ValidateToken(token)
    BY <1>1, <1>3, <2>2 DEF HoldsKey, ValidateToken, TokenHeld
  <2>6. ValidConditions(token.content)
    BY <1>1, <1>3, <2>1 DEF ValidConditions, TokenHeld
  <2>7. AllowedAudience(token.content)
    BY <1>1, <1>3 DEF AllowedAudience, TokenHeld, ForService
  <2>8. Resolves
    BY DEF Resolves, WriteKeyIdentifierClause, MatchesKeyIdentifierClause
  <2> QED
    BY <2>3, <2>4, <2>5, <2>6, <2>7, <2>8 DEF Authentic, ValidateConfirmationData
<1> HIDE DEF c
<1>5. Frame
  BY <1>1, <1>2, ReceiveFrame
<1>6. NetworkFits'
  BY <1>1, <1>2, <1>5, NetworkStays DEF NetworkFits
<1>7. /\ \A d \in Consumers : InNetwork(d)' => InNetwork(d)
      /\ ~InNetwork(c)'
  BY <1>1, <1>2 DEF InNetwork, NetworkFits, c
<1>8. IInv'
  <2>1. TypeOK' /\ SentFits'
    BY <1>1, <1>2 DEF IInv, TypeOK, ServiceTypeOK, LogTypeOK, SentFits
  <2>2. WalletFits' /\ RepliesFit'
    BY <1>1, <1>2 DEF IInv, WalletFits, RepliesFit, EntitledAt
  <2>3. LogsOwned' /\ ServedOnce' /\ \A t \in Threads : CallFits(t)'
    BY <1>1, <1>2 DEF IInv, LogsOwned, ServedOnce, PingedAtMostOnce, CallFits, EntitledAt
  <2> QED
    BY <2>1, <2>2, <2>3 DEF IInv
<1>9. /\ \A d \in Consumers : HostLogFits(d)'
      /\ \A t \in Threads : LossIsExplained(t)'
  BY <1>2, <1>5, HostStays
<1>10. SecurityFault \notin PingReplies
  BY RepliesAreOutcomes
<1> QED
  BY <1>1, <1>2, <1>4, <1>5, <1>6, <1>7, <1>8, <1>9, <1>10, ReceiveStep

-----------------------------------------------------------------------------
(* What the service does with a ping.                                         *)

\* A ping in service belongs to a consumer that called; it is the only one of that
\* consumer, and not answered yet.
LEMMA ServedPing ==
    ASSUME CInv, NEW t \in Threads, call[t].ping # Nothing
    PROVE  /\ OwnPing(call[t].ping)
           /\ call[t].ping.id \in Consumers /\ Called(call[t].ping.id)
           /\ ~Answered(call[t].ping.id)
           /\ \A u \in Threads : u # t /\ call[u].ping # Nothing
                 => call[u].ping.id # call[t].ping.id
           /\ \A d \in Consumers : d # call[t].ping.id => MayCollide(d)
<1>1. call[t].ping \in sent
  BY DEF CInv, NetworkFits, IInv, CallFits
<1>2. OwnPing(call[t].ping)
  BY <1>1 DEF CInv, NetworkFits
<1>3. /\ \A u \in Threads : u # t /\ call[u].ping # Nothing
            => call[u].ping.id # call[t].ping.id
      /\ ~Answered(call[t].ping.id)
  BY DEF CInv, IInv, ServedOnce, Answered
<1> QED
  BY <1>2, <1>3 DEF OwnPing, MayCollide

\* A step of the service that no consumer sees.
LEMMA ConsumersWait ==
    ASSUME CInv, IInv', UNCHANGED clientVars, UNCHANGED <<wallet, sent>>,
           replies \subseteq replies', now' \in Nat, now <= now', seen' \subseteq sent,
           Frame => \A c \in Consumers : HostLogFits(c)',
           Frame => \A t \in Threads : LossIsExplained(t)'
    PROVE  CInv'
<1>1. UNCHANGED <<plan, progress, clientWriter, clientLogged>>
  BY DEF clientVars
<1>2. Frame
  BY <1>1 DEF Frame
<1>3. NetworkFits'
  BY <1>2, NetworkStays
<1>4. \A c \in Consumers : TokenHeld(c)' /\ ProgressFits(c)' /\ ClientLogFits(c)'
  BY <1>1, <1>2, ConsumerStays DEF InNetwork
<1>5. ClientLogsOwned' /\ ClientLog!LogTypeOK(Consumers)'
  BY <1>1, LogsStayOwned
<1>6. CallerTypeOK'
  BY <1>1, <1>5 DEF CInv, CallerTypeOK, IInv
<1> QED
  BY <1>2, <1>3, <1>4, <1>5, <1>6 DEF CInv

LEMMA DeliverStep ==
    ASSUME CInv, NEW t \in Threads, NEW p \in sent, Deliver(t, p), UNCHANGED clientVars
    PROVE  CInv'
<1> DEFINE s == [call[t] EXCEPT !.stage = "received", !.ping = p, !.accepted = now]
<1>1. /\ IInv /\ CallFits(t) /\ call[t] \in Calls /\ p \in Pings /\ now \in Nat
      /\ seen \subseteq sent
  BY CallType DEF CInv, NetworkFits, IInv, TypeOK
<1>2. /\ call[t].stage = "idle" /\ Continue(t, s) /\ seen' = seen \cup {p}
      /\ UNCHANGED <<writer, logged, replies, now, wallet, sent>>
  BY DEF Deliver, Authenticate
<1>3. s \in Calls /\ s.stage = "received" /\ s.reply = Nothing
  BY <1>1, <1>2 DEF CallFits, Calls
<1> HIDE DEF s
<1>4. call'[t] = s /\ \A u \in Threads : u # t => call'[u] = call[u]
  BY <1>1, <1>2, <1>3, ContinueCall DEF IInv
<1>5. IInv'
  BY <1>1, DeliverInvariant
<1>6. ASSUME Frame, NEW c \in Consumers PROVE HostLogFits(c)'
  <2>1. /\ HostLogFits(c) /\ (MayCollide(c) => MayCollide(c)')
        /\ Answered(c)' = Answered(c)
    BY <1>2, <1>6, ProgressTypes, CalledStays DEF Answered
  <2>2. /\ \A u \in Threads : u # t => call'[u] = call[u]
        /\ call'[t].stage \notin {"dispatched", "replying", "loggingReply", "sending"}
    BY <1>3, <1>4
  <2> QED
    BY <1>2, <2>1, <2>2 DEF HostLogFits
<1>7. ASSUME Frame, NEW u \in Threads PROVE LossIsExplained(u)'
  <2>1. CASE u = t
    BY <1>3, <1>4, <2>1, DisturbancesAreReplies DEF LossIsExplained, Lost
  <2>2. CASE u # t
    <3>1. LossIsExplained(u) /\ call'[u] = call[u]
      BY <1>4, <2>2 DEF CInv
    <3>2. MayCollide(call[u].ping.id) => MayCollide(call[u].ping.id)'
      BY <1>7, CalledStays, <3>1
    <3> QED
      BY <3>1, <3>2 DEF LossIsExplained, Lost
  <2> QED
    BY <2>1, <2>2
<1> QED
  BY <1>1, <1>2, <1>5, <1>6, <1>7, ConsumersWait

\* What a thread's logging may do to anybody but the consumer it serves, it does to
\* one that is not alone.
LEMMA HostLogStep ==
    ASSUME CInv, Frame, NEW t \in Threads, call[t].ping # Nothing,
           NEW s \in Calls, Continue(t, s), s.ping = call[t].ping,
           UNCHANGED replies,
           ~MayCollide(s.ping.id) =>
               /\ s.stage \in {"dispatched", "replying", "loggingReply", "sending"}
                     => logged'[ReceivedRequest].id = s.ping.id
               /\ s.stage = "sending" => logged'[SentResponse].id = s.ping.id,
           Lost(s) => MayCollide(s.ping.id)
    PROVE  /\ \A d \in Consumers : HostLogFits(d)'
           /\ \A u \in Threads : LossIsExplained(u)'
<1>1. call'[t] = s /\ \A u \in Threads : u # t => call'[u] = call[u]
  BY ContinueCall DEF CInv, IInv
<1>2. /\ \A d \in Consumers : d # s.ping.id => MayCollide(d)
      /\ ~Answered(s.ping.id)
      /\ \A u \in Threads : u # t /\ call[u].ping # Nothing => call[u].ping.id # s.ping.id
  BY ServedPing
<1>3. \A d : (MayCollide(d) => MayCollide(d)') /\ Answered(d)' = Answered(d)
  BY CalledStays DEF Answered
<1>4. ASSUME NEW d \in Consumers PROVE HostLogFits(d)'
  <2>1. CASE d # s.ping.id
    BY <1>2, <1>3, <2>1 DEF HostLogFits
  <2>2. CASE d = s.ping.id
    BY <1>1, <1>2, <1>3, <2>2 DEF HostLogFits
  <2> QED
    BY <2>1, <2>2
<1>5. ASSUME NEW u \in Threads PROVE LossIsExplained(u)'
  <2>1. CASE u = t
    BY <1>1, <1>3, <2>1 DEF LossIsExplained, Lost
  <2>2. CASE u # t
    BY <1>1, <1>3, <2>2 DEF CInv, LossIsExplained, Lost
  <2> QED
    BY <2>1, <2>2
<1> QED
  BY <1>4, <1>5

\* The inspector of the service throws only on a consumer that is not alone.
LEMMA LogThrowsExplained ==
    ASSUME CInv, NEW t \in Threads, RequestLogThrows(t) \/ ReplyLogThrows(t),
           UNCHANGED <<now, wallet, sent>>
    PROVE  MayCollide(call[t].ping.id)
<1> DEFINE p == call[t].ping
<1>1. /\ p \in Pings /\ p \in Promise!InService
      /\ DiskMayFail \/ \E other \in Promise!InService : other # p
  BY LogThrowsDisturbs DEF CInv, Promise!Disturb
<1> SUFFICES ASSUME NEW other \in Promise!InService, other # p
             PROVE  \E d \in Consumers : d # p.id /\ Called(d)
  BY <1>1 DEF MayCollide
<1>2. p \in sent /\ other \in sent
  BY <1>1 DEF Promise!InService, CInv, NetworkFits
<1>3. other.id # p.id /\ OwnPing(other)
  BY <1>2 DEF CInv, NetworkFits
<1> QED
  BY <1>3 DEF OwnPing

\* What thread t goes on with when it neither throws nor sends, and what the log
\* files hold then.
LEMMA QuietWorkStep ==
    ASSUME CInv, NEW t \in Threads, UNCHANGED <<now, wallet, sent>>,
           OpenRequestLog(t) \/ CloseRequestLog(t) \/ Ping(t)
              \/ OpenReplyLog(t) \/ CloseReplyLog(t)
    PROVE  \E s \in Calls :
              /\ Continue(t, s) /\ s.ping = call[t].ping /\ s.stage # "idle"
              /\ Lost(s) => Lost(call[t])
              /\ ~MayCollide(s.ping.id) =>
                    /\ s.stage \in {"dispatched", "replying", "loggingReply", "sending"}
                          => logged'[ReceivedRequest].id = s.ping.id
                    /\ s.stage = "sending" => logged'[SentResponse].id = s.ping.id
<1> DEFINE c == call[t].ping.id
<1>1. /\ call[t] \in Calls /\ CallFits(t)
      /\ logged \in [{ReceivedRequest, SentResponse} -> Pings \cup {Nothing}]
  BY CallType, PingServiceAssumption DEF CInv, IInv, TypeOK, ServiceTypeOK, LogTypeOK
<1>2. call[t].ping # Nothing /\ c \in Consumers
  <2>1. call[t].stage # "idle"
    BY DEF OpenRequestLog, CloseRequestLog, Ping, OpenReplyLog, CloseReplyLog
  <2> QED
    BY <1>1, <2>1, ServedPing DEF CallFits
<1>3. ~MayCollide(c) =>
         /\ call[t].stage \in {"dispatched", "replying", "loggingReply", "sending"}
               => logged[ReceivedRequest].id = c
         /\ call[t].stage = "sending" => logged[SentResponse].id = c
  BY <1>2, ProgressTypes DEF HostLogFits
<1>4. ASSUME NEW stage \in {"loggingRequest", "dispatched", "loggingReply", "sending"},
             Advance(t, stage),
             ~MayCollide(c) =>
                /\ stage # "loggingRequest" => logged'[ReceivedRequest].id = c
                /\ stage = "sending" => logged'[SentResponse].id = c
      PROVE  \E s \in Calls :
                /\ Continue(t, s) /\ s.ping = call[t].ping /\ s.stage # "idle"
                /\ Lost(s) => Lost(call[t])
                /\ ~MayCollide(s.ping.id) =>
                      /\ s.stage \in {"dispatched", "replying", "loggingReply", "sending"}
                            => logged'[ReceivedRequest].id = s.ping.id
                      /\ s.stage = "sending" => logged'[SentResponse].id = s.ping.id
  <2> DEFINE s == [call[t] EXCEPT !.stage = stage]
  <2>1. /\ s \in Calls /\ s.stage = stage /\ s.ping = call[t].ping
        /\ s.reply = call[t].reply
    BY <1>1 DEF Calls
  <2>2. Continue(t, s)
    BY <1>4 DEF Advance
  <2> HIDE DEF s
  <2> QED
    BY <1>4, <2>1, <2>2 DEF Lost
<1>5. CASE OpenRequestLog(t)
  BY <1>4, <1>5 DEF OpenRequestLog
<1>6. CASE CloseRequestLog(t)
  <2>1. logged'[ReceivedRequest] = call[t].ping
    BY <1>1, <1>6 DEF CloseRequestLog, CloseLog
  <2> QED
    BY <1>4, <1>6, <2>1 DEF CloseRequestLog
<1>7. CASE Ping(t)
  <2> DEFINE p == call[t].ping
             reply == IF FrameworkMatches(p)
                      THEN [kind |-> "response", text |-> ProcessBusinessLogic(p)]
                      ELSE [kind |-> "fault", code |-> "FrameworkVersionMismatch"]
             s == [call[t] EXCEPT !.stage = "replying", !.reply = reply]
  <2>1. call[t].stage = "dispatched" /\ Continue(t, s) /\ UNCHANGED logged
    BY <1>7 DEF Ping, Reply
  <2>2. reply \in PingReplies /\ reply \notin Promise!Disturbances
    BY DEF PingReplies, PingResponses, PingFaults, ProcessBusinessLogic, Promise!Disturbances
  <2>3. s \in Calls /\ s.reply = reply /\ s.ping = p /\ s.stage = "replying"
    BY <1>1, <2>2 DEF Calls
  <2> HIDE DEF s
  <2> QED
    BY <1>3, <2>1, <2>2, <2>3 DEF Lost
<1>8. CASE OpenReplyLog(t)
  <2>1. logged'[ReceivedRequest] = logged[ReceivedRequest] /\ call[t].stage = "replying"
    BY <1>1, <1>8 DEF OpenReplyLog, OpenLog, ReceivedRequest, SentResponse
  <2> QED
    BY <1>3, <1>4, <1>8, <2>1 DEF OpenReplyLog
<1>9. CASE CloseReplyLog(t)
  <2>1. /\ logged'[ReceivedRequest] = logged[ReceivedRequest]
        /\ logged'[SentResponse] = call[t].ping
        /\ call[t].stage = "loggingReply"
    BY <1>1, <1>9 DEF CloseReplyLog, CloseLog, ReceivedRequest, SentResponse
  <2> QED
    BY <1>3, <1>4, <1>9, <2>1 DEF CloseReplyLog
<1> QED
  BY <1>5, <1>6, <1>7, <1>8, <1>9

LEMMA ThrowingWorkStep ==
    ASSUME CInv, NEW t \in Threads, UNCHANGED <<now, wallet, sent>>,
           RequestLogThrows(t) \/ ReplyLogThrows(t)
    PROVE  \E s \in Calls :
              Continue(t, s) /\ s.ping = call[t].ping /\ s.stage # "idle"
<1>1. call[t] \in Calls
  BY CallType DEF CInv
<1>2. PICK stage \in {"replying", "sending"}, reply \in PingReplies : Reply(t, stage, reply)
  BY DEF RequestLogThrows, ReplyLogThrows, PingReplies, PingFaults, FaultOfLastResort
<1> DEFINE s == [call[t] EXCEPT !.stage = stage, !.reply = reply]
<1>3. s \in Calls /\ s.ping = call[t].ping /\ s.stage = stage
  BY <1>1 DEF Calls
<1>4. Continue(t, s)
  BY <1>2 DEF Reply
<1> HIDE DEF s
<1> QED
  BY <1>3, <1>4

\* Everything a thread does before it sends.
LEMMA WorkStep ==
    ASSUME CInv, NEW t \in Threads, HostWorks(t), ~SendReply(t)
    PROVE  CInv'
<1>1. /\ Serve(t) /\ Work(t) /\ UNCHANGED <<now, wallet, sent>>
      /\ now \in Nat /\ seen \subseteq sent
  BY DEF HostWorks, Serve, CInv, IInv, TypeOK, NetworkFits
<1>2. UNCHANGED <<seen, replies>>
  BY <1>1 DEF Work, OpenRequestLog, RequestLogThrows, CloseRequestLog, Ping, OpenReplyLog,
              ReplyLogThrows, CloseReplyLog
<1>3. call[t].ping # Nothing
  <2>1. call[t].stage # "idle"
    BY <1>1 DEF Work, OpenRequestLog, RequestLogThrows, CloseRequestLog, Ping, OpenReplyLog,
                ReplyLogThrows, CloseReplyLog
  <2> QED
    BY <2>1 DEF CInv, IInv, CallFits
<1>4. PICK s \in Calls :
         /\ Continue(t, s) /\ s.ping = call[t].ping /\ s.stage # "idle"
         /\ Lost(s) => MayCollide(s.ping.id)
         /\ ~MayCollide(s.ping.id) =>
               /\ s.stage \in {"dispatched", "replying", "loggingReply", "sending"}
                     => logged'[ReceivedRequest].id = s.ping.id
               /\ s.stage = "sending" => logged'[SentResponse].id = s.ping.id
  <2>1. CASE RequestLogThrows(t) \/ ReplyLogThrows(t)
    BY <1>1, <2>1, LogThrowsExplained, ThrowingWorkStep
  <2>2. CASE ~(RequestLogThrows(t) \/ ReplyLogThrows(t))
    BY <1>1, <2>2, QuietWorkStep DEF Work, CInv, LossIsExplained
  <2> QED
    BY <2>1, <2>2
<1>5. call'[t] # IdleCall
  BY <1>4, ContinueCall DEF CInv, IInv, IdleCall
<1>6. UNCHANGED clientVars
  BY <1>5 DEF HostWorks
<1>7. IInv'
  BY <1>1, ServeInvariant DEF CInv
<1>8. Frame => /\ \A d \in Consumers : HostLogFits(d)'
               /\ \A u \in Threads : LossIsExplained(u)'
  BY <1>2, <1>3, <1>4, HostLogStep
<1> QED
  BY <1>1, <1>2, <1>6, <1>7, <1>8, ConsumersWait

\* The answers the service may give, and when they are due.
LEMMA DueReplies ==
    ASSUME NEW c
    PROVE  /\ MayCollide(c) => \A o \in Promise!Disturbances : IsDue(c, o)
           /\ ForService(c) /\ RightHeader(c)
                 => IsDue(c, [kind |-> "response", text |-> "privileges"])
           /\ ForService(c) /\ ~RightHeader(c)
                 => IsDue(c, [kind |-> "fault", code |-> "FrameworkVersionMismatch"])
<1>1. MayCollide(c) => IsDue(c, [kind |-> "fault", code |-> "InternalServiceFault"])
  BY DEF IsDue, SecurityFault, Thrown
<1>2. MayCollide(c) => IsDue(c, [kind |-> "fault of last resort"])
  BY DEF IsDue, SecurityFault, Thrown
<1>3. ForService(c) /\ RightHeader(c)
         => IsDue(c, [kind |-> "response", text |-> "privileges"])
  BY DEF IsDue, SecurityFault, Thrown
<1>4. ForService(c) /\ ~RightHeader(c)
         => IsDue(c, [kind |-> "fault", code |-> "FrameworkVersionMismatch"])
  BY DEF IsDue, SecurityFault, Thrown
<1> QED
  BY <1>1, <1>2, <1>3, <1>4 DEF Promise!Disturbances

\* What the service answers is due.
LEMMA ReplyIsDue ==
    ASSUME CInv, NEW t \in Threads, call[t].stage = "sending"
    PROVE  /\ call[t].ping # Nothing /\ call[t].reply \in PingReplies
           /\ IsDue(call[t].ping.id, call[t].reply)
<1> DEFINE ping == call[t].ping
           c == ping.id
           reply == call[t].reply
<1>1. /\ ping # Nothing /\ reply \in PingReplies /\ ReplyFits(ping, reply)
      /\ ping.token.content.audience = "service"
  BY DEF CInv, IInv, CallFits, EntitledAt
<1>2. OwnPing(ping) /\ c \in Consumers /\ Called(c)
  BY <1>1, ServedPing
<1>3. CASE Lost(call[t])
  <2>1. reply \in Promise!Disturbances /\ MayCollide(c)
    BY <1>3 DEF CInv, LossIsExplained, Lost
  <2> QED
    BY <1>1, <2>1, DueReplies
<1>4. CASE ~Lost(call[t])
  <2>1. Promise!AnswerIsDue(ping, reply)
    BY <1>1, <1>4 DEF Lost, ReplyFits
  <2>2. ForService(c)
    BY <1>1, <1>2, ProgressTypes DEF OwnPing, TokenHeld, ForService
  <2>3. RightHeader(c) <=> ping.framework = "urn:liberty:sb:profile:basic"
    BY <1>2 DEF OwnPing, RightHeader
  <2> QED
    BY <2>1, <2>2, <2>3, DueReplies, <1>1 DEF Promise!AnswerIsDue
<1> QED
  BY <1>1, <1>3, <1>4

LEMMA SendReplyStep ==
    ASSUME CInv, NEW t \in Threads, HostWorks(t), SendReply(t)
    PROVE  CInv'
<1>1. PICK c : c = call[t].ping.id
  OBVIOUS
<1>2. PICK reply : reply = call[t].reply
  OBVIOUS
<1>3. /\ call[t].stage = "sending"
      /\ replies' = replies \cup {[ping |-> call[t].ping, accepted |-> call[t].accepted,
                                   reply |-> call[t].reply]}
      /\ Continue(t, IdleCall)
      /\ UNCHANGED <<writer, logged, seen, now, wallet, sent>>
  BY DEF SendReply, HostWorks, Serve
<1>4. IdleCall \in Calls /\ IdleCall.ping = Nothing /\ IdleCall.reply = Nothing
  BY DEF IdleCall, Calls
<1>5. call'[t] = IdleCall /\ \A u \in Threads : u # t => call'[u] = call[u]
  BY <1>3, <1>4, ContinueCall DEF CInv, IInv
<1>6. Receive(c, reply)
  BY <1>1, <1>2, <1>5 DEF HostWorks
<1>7. call[t].ping # Nothing /\ reply \in PingReplies /\ IsDue(c, reply)
  BY <1>1, <1>2, <1>3, ReplyIsDue
<1>8. /\ c \in Consumers
      /\ \A u \in Threads : u # t /\ call[u].ping # Nothing => call[u].ping.id # c
      /\ \A d \in Consumers : d # c => MayCollide(d)
  BY <1>1, <1>7, ServedPing
<1>9. Frame
  BY <1>3, <1>6, <1>8, ReceiveFrame
<1>10. IInv'
  BY ServeInvariant DEF HostWorks, CInv
<1>11. Answered(c)'
  <2> DEFINE r == [ping |-> call[t].ping, accepted |-> call[t].accepted,
                   reply |-> call[t].reply]
  <2>1. r \in replies' /\ r.ping = call[t].ping
    BY <1>3
  <2> HIDE DEF r
  <2> QED
    BY <1>1, <2>1 DEF Answered
<1>12. NetworkFits' /\ \A d \in Consumers : InNetwork(d)' = InNetwork(d)
  BY <1>3, <1>9, NetworkStays DEF CInv, NetworkFits, InNetwork
<1>13. \A d \in Consumers : HostLogFits(d)'
  <2> SUFFICES ASSUME NEW d \in Consumers, ~MayCollide(d)' PROVE HostLogFits(d)'
    BY DEF HostLogFits
  <2>1. d = c /\ ~MayCollide(c)
    BY <1>8, <1>9, CalledStays
  <2>2. logged[ReceivedRequest].id = c /\ logged[SentResponse].id = c
    BY <1>1, <1>3, <1>7, <2>1, ProgressTypes DEF HostLogFits
  <2> QED
    BY <1>3, <1>4, <1>5, <1>8, <2>1, <2>2 DEF HostLogFits
<1>14. \A u \in Threads : LossIsExplained(u)'
  <2> SUFFICES ASSUME NEW u \in Threads PROVE LossIsExplained(u)'
    OBVIOUS
  <2>1. CASE u = t
    BY <1>4, <1>5, <2>1, DisturbancesAreReplies DEF LossIsExplained, Lost
  <2>2. CASE u # t
    <3>1. LossIsExplained(u) /\ call'[u] = call[u]
      BY <1>5, <2>2 DEF CInv
    <3>2. MayCollide(call[u].ping.id) => MayCollide(call[u].ping.id)'
      BY <1>9, <3>1, CalledStays
    <3> QED
      BY <3>1, <3>2 DEF LossIsExplained, Lost
  <2> QED
    BY <2>1, <2>2
<1>15. reply # SecurityFault
  BY <1>7, RepliesAreOutcomes
<1> QED
  BY <1>6, <1>7, <1>8, <1>9, <1>10, <1>11, <1>12, <1>13, <1>14, <1>15, ReceiveStep

-----------------------------------------------------------------------------
\* The clock, and nothing at all.
LEMMA QuietStep ==
    ASSUME CInv, (Tick /\ UNCHANGED clientVars) \/ UNCHANGED <<vars, clientVars>>
    PROVE  CInv'
<1>1. /\ UNCHANGED <<writer, logged, call, seen, replies, wallet, sent>>
      /\ now' = now \/ now' = now + 1
      /\ UNCHANGED clientVars
  BY DEF Tick, vars, serviceVars
<1>2. now \in Nat /\ seen \subseteq sent
  BY DEF CInv, IInv, TypeOK, NetworkFits
<1>3. IInv'
  BY NextInvariant, TickInvariant DEF CInv
<1> QED
  BY <1>1, <1>2, <1>3, HostStays, ConsumersWait

LEMMA CallersNextInvariant == CInv /\ [CallersNext]_<<vars, clientVars>> => CInv'
<1> SUFFICES ASSUME CInv, [CallersNext]_<<vars, clientVars>> PROVE CInv'
  OBVIOUS
<1>1. CASE \E c \in Consumers : Consume(c)
  BY <1>1, ObtainTokenInvariant, GiveUpInvariant, OpenClientLogInvariant,
     CloseClientLogInvariant, SendInvariant DEF Consume
<1>2. CASE \E p \in sent : Refuse(p)
  BY <1>2, RefuseInvariant
<1>3. CASE \E t \in Threads, p \in sent : Deliver(t, p) /\ UNCHANGED clientVars
  BY <1>3, DeliverStep
<1>4. CASE \E t \in Threads : HostWorks(t)
  BY <1>4, WorkStep, SendReplyStep
<1>5. CASE Tick /\ UNCHANGED clientVars
  BY <1>5, QuietStep
<1>6. CASE UNCHANGED <<vars, clientVars>>
  BY <1>6, QuietStep
<1> QED
  BY <1>1, <1>2, <1>3, <1>4, <1>5, <1>6 DEF CallersNext

-----------------------------------------------------------------------------
\* The invariant of the calls, for every number of consumers and threads.
THEOREM CallersInvariance == CallersSpec => []CInv
<1> QED
  BY CallersInitInvariant, CallersNextInvariant, PTL DEF CallersSpec

\* Every state of the consumers and the service is typed: in particular every call
\* that ends has one of the outcomes the model knows.
THEOREM CallersTypesCorrect == CallersSpec => []CallerTypeOK
<1>1. CInv => CallerTypeOK
  BY DEF CInv
<1> QED
  BY <1>1, CallersInvariance, PTL

\* Whatever the other consumers, the network and the service's threads do, a call
\* ends as its token and its header call for: refused only when the token is for
\* somebody else or the call is late, broken off only when it is not alone.
THEOREM CallsGetWhatIsDue == CallersSpec => []CallsEndAsDue
<1>1. CInv => CallsEndAsDue
  BY DEF CInv, CallsEndAsDue, ProgressFits
<1> QED
  BY <1>1, CallersInvariance, PTL

\* A call that failed before it was sent, or was refused, has not run.
THEOREM RefusedCallsNeverRun == CallersSpec => []RefusedCallsDoNotRun
<1>1. CInv => RefusedCallsDoNotRun
  <2> SUFFICES ASSUME CInv, NEW c \in Consumers, progress[c].step = "done",
                      progress[c].outcome \in NotRun, NEW p \in seen
               PROVE  p.id # c
    BY DEF RefusedCallsDoNotRun, Ended, NotRun
  <2>1. ~InNetwork(c) /\ p \in sent
    BY DEF CInv, ProgressFits, NetworkFits
  <2> QED
    BY <2>1 DEF InNetwork
<1> QED
  BY <1>1, CallersInvariance, PTL

\* A call that met no other is in all four log files.
THEOREM LoneCallsAreLogged == CallersSpec => []LoneCallIsLoggedFourTimes
<1>1. CInv => LoneCallIsLoggedFourTimes
  BY DEF CInv, LoneCallIsLoggedFourTimes, ProgressFits, ClientLogFits, HostLogFits, Replied
<1> QED
  BY <1>1, CallersInvariance, PTL

-----------------------------------------------------------------------------
(* What the callers see of the service.                                       *)

\* A caller's step is one of PingPromise, or leaves what that speaks of as it is:
\* what the consumers log, send, and are refused is no business of the promise.
LEMMA CallersKeepPromise ==
    CInv /\ [CallersNext]_<<vars, clientVars>> => [Promise!Next]_Promise!vars
<1> SUFFICES ASSUME CInv, [CallersNext]_<<vars, clientVars>>
             PROVE  [Promise!Next]_Promise!vars
  OBVIOUS
<1>1. ASSUME [Next]_vars PROVE [Promise!Next]_Promise!vars
  BY <1>1, PromiseNext DEF CInv
<1>2. ASSUME UNCHANGED <<call, seen, replies, now, wallet>> PROVE UNCHANGED Promise!vars
  BY <1>2 DEF Promise!vars, Disturbed
<1>3. CASE \E c \in Consumers : Consume(c)
  <2>1. PICK c \in Consumers : Consume(c)
    BY <1>3
  <2>2. CASE ObtainToken(c)
    <3>1. plan[c].request \in Requests /\ Obtain(plan[c].request)
      BY <2>2, ServiceConsumerAssumption DEF ObtainToken, CInv, CallerTypeOK
    <3> QED
      BY <1>1, <3>1 DEF Next
  <2>3. CASE Send(c)
    BY <1>2, <2>3 DEF Send, SendPing, serviceVars
  <2>4. CASE ObtainFails(c) \/ TimeOut(c)
    BY <1>2, <2>4 DEF ObtainFails, TimeOut, vars
  <2>5. CASE OpenClientLog(c) \/ ClientLogThrows(c) \/ CloseClientLog(c)
    BY <1>2, <2>5 DEF OpenClientLog, ClientLogThrows, CloseClientLog, vars
  <2> QED
    BY <2>1, <2>2, <2>3, <2>4, <2>5 DEF Consume
<1>4. CASE \E p \in sent : Refuse(p)
  BY <1>2, <1>4 DEF Refuse, serviceVars
<1>5. CASE \E t \in Threads, p \in sent : Deliver(t, p) /\ UNCHANGED clientVars
  BY <1>1, <1>5 DEF Next
<1>6. CASE \E t \in Threads : HostWorks(t)
  BY <1>1, <1>6 DEF HostWorks, Next
<1>7. CASE Tick /\ UNCHANGED clientVars
  BY <1>1, <1>7 DEF Next
<1>8. CASE UNCHANGED <<vars, clientVars>>
  BY <1>1, <1>8
<1> QED
  BY <1>3, <1>4, <1>5, <1>6, <1>7, <1>8 DEF CallersNext

\* The consumers of the samples see the service keep PingPromise: each ping taken
\* at most once, from the holder of a token that all checks accept, and answered as
\* it calls for unless it is disturbed.
THEOREM CallersSeeThePromise == CallersSpec => ImplementsPingPromise
<1>1. CallersInit => Promise!Init
  BY PromiseInit DEF CallersInit
<1>2. Promise!Spec => ImplementsPingPromise
  BY DEF ImplementsPingPromise
<1> QED
  BY <1>1, <1>2, CallersInvariance, CallersKeepPromise, PTL DEF CallersSpec, Promise!Spec
=============================================================================
