-------------------------- MODULE StsConsumerProofs --------------------------
(***************************************************************************)
(* Consumers and their token service together: for every number of          *)
(* consumers, tests and threads, each token gets to the one who asked for   *)
(* it, a replayed message gets no second one, every test ends with what it  *)
(* asserts, and the host keeps the promise of TokenIssuing to them all.     *)
(***************************************************************************)
EXTENDS StsConsumer, StsIssuingProofs

-----------------------------------------------------------------------------
(* The requests of a test have numbers from one on.                           *)

LEMMA NumbersAreNatural == Numbers \subseteq Nat \ {0}
<1>1. \A p \in Plans : Len(p.requests) \in Nat
  BY StsConsumerAssumption
<1>2. \A p \in Plans : 1 .. Len(p.requests) \subseteq Nat \ {0}
  BY <1>1
<1> QED
  BY <1>2 DEF Numbers

LEMMA PlanRequests ==
    ASSUME NEW p \in Plans
    PROVE  /\ Len(p.requests) \in Nat \ {0} /\ 1 \in Numbers
           /\ 1 .. Len(p.requests) \subseteq Numbers
           /\ \A number \in 1 .. Len(p.requests) :
                 /\ p.requests[number].certificate \in Certificates
                 /\ p.requests[number].rst \in Rsts
                 /\ p.requests[number].expects \subseteq Verdicts
           /\ p.encoder = "replay" => p.requests[1].expects = {"token"}
<1> DEFINE Request == [certificate : Certificates, rst : Rsts, expects : SUBSET Verdicts]
<1>1. /\ p.requests \in Seq(Request) /\ p.requests # <<>>
      /\ p.encoder = "replay" => p.requests[1].expects = {"token"}
  BY StsConsumerAssumption
<1> HIDE DEF Request
<1>2. /\ Len(p.requests) \in Nat \ {0}
      /\ \A number \in 1 .. Len(p.requests) : p.requests[number] \in Request
  BY <1>1
<1>3. 1 .. Len(p.requests) \subseteq Numbers
  BY DEF Numbers
<1> QED
  BY <1>1, <1>2, <1>3 DEF Request

-----------------------------------------------------------------------------
(* The inductive invariant, next to that of the host. *)

Asking(c, number) == number \in 1 .. Len(plan[c].requests)

\* The message of request number of consumer c: it carries its certificate and content.
Owned(c, number, m) ==
    /\ m \in Messages
    /\ m.certificate = RequestOf(c, number).certificate
    /\ m.rst = RequestOf(c, number).rst

\* What consumer c signs, before its encoder has had it.
Drafted(c, number, m) == \E clock \in 0..MaxTime : m = SignedAt(c, number, plan[c], clock)

\* A token for that request.
OutcomeFits(c, number, outcome) ==
    outcome.kind = "token" =>
        LET request == RequestOf(c, number)
        IN /\ outcome.audience = request.rst.appliesTo
           /\ outcome.recipient = request.rst.appliesTo
           /\ outcome.subject = SubjectName(Principal(request.certificate), request.rst)

Replays(c) == plan[c].encoder = "replay"
WasReplayed(c) == previous[c] \in Messages /\ Replayed(previous[c])

\* The first message of a replaying test is the one it replays; by the time it
\* does, the channel knows that message.
EntryFits(e) ==
    /\ Asking(e.from, e.number)
    /\ Replays(e.from) => IF e.number = 1 THEN e.message = previous[e.from]
                          ELSE Replayed(e.message)
    /\ e.number = 1 \/ ~Replays(e.from) => Owned(e.from, e.number, e.message)

Busy(t) == call[t].stage # "idle"

ServiceFits(t) ==
    Busy(t) => /\ caller[t] \in [from : Consumers, number : Numbers]
               /\ Asking(caller[t].from, caller[t].number)
               /\ Owned(caller[t].from, caller[t].number, call[t].message)
               /\ Replays(caller[t].from) =>
                     caller[t].number = 1 /\ call[t].message = previous[caller[t].from]

\* The consumers with a message in the network or at the host.
UnderWay ==
    {e.from : e \in network} \cup {caller[t].from : t \in {u \in Threads : Busy(u)}}

LogSteps == {"logRequest", "logModified", "logResponse"}
BeforeSending == {"logRequest", "logModified", "sign", "encode", "asleep"}

ProgressFits(c) ==
    LET p == progress[c]
    IN /\ Asking(c, p.number)
       /\ p.number = 1 /\ p.step \in BeforeSending => c \notin UnderWay
       /\ p.step \in {"encode", "asleep"} => Drafted(c, p.number, p.message)
       /\ p.step = "asleep" => ~Replays(c)
       /\ p.writing => p.step \in LogSteps
       /\ p.step = "logResponse" =>
             p.response \in Outcomes /\ OutcomeFits(c, p.number, p.response)
       /\ Replays(c) =>
             /\ previous[c] \in Messages => Owned(c, 1, previous[c])
             /\ p.number # 1 => WasReplayed(c)
             /\ p.step = "logResponse" /\ p.response.kind = "token" =>
                   p.number = 1 /\ WasReplayed(c)

ResultsFit(c) ==
    \A r \in results[c] : r.outcome.kind = "token" =>
        OutcomeFits(c, r.number, r.outcome) /\ (Replays(c) => r.number = 1)

CInv ==
    /\ IInv
    /\ now <= MaxTime
    /\ ConsumerTypeOK
    /\ \A t \in Threads : ServiceFits(t)
    /\ \A e \in network : EntryFits(e)
    /\ \A c \in Consumers : ProgressFits(c) /\ ResultsFit(c)

-----------------------------------------------------------------------------
LEMMA ConsumerInitInvariant == ConsumerInit => CInv
<1> SUFFICES ASSUME ConsumerInit PROVE CInv
  OBVIOUS
<1>1. IInv /\ now <= MaxTime
  BY InitInvariant, StsHostAssumption DEF ConsumerInit, Init
<1>2. ConsumerTypeOK
  <2>1. \A c \in Consumers : /\ plan[c] \in Plans /\ 1 \in Numbers
                             /\ Len(plan[c].requests) \in Nat \ {0}
    BY PlanRequests DEF ConsumerInit
  <2>2. Consumers # {} => FirstRequest \in
           [step : Steps, number : Numbers, writing : BOOLEAN,
            message : Messages \cup {Nothing}, wake : Nat,
            response : Outcomes \cup {Nothing}]
    BY <2>1 DEF FirstRequest, FirstStep, Steps
  <2>3. FirstRequest.number = 1
    BY DEF FirstRequest
  <2>4. \A c \in Consumers : progress[c].number <= Len(plan[c].requests)
    BY <2>1, <2>3 DEF ConsumerInit
  <2> QED
    BY <2>2, <2>4 DEF ConsumerInit, ConsumerTypeOK, Log!LogInit, Log!LogTypeOK
<1>3. \A t \in Threads : ~Busy(t)
  BY DEF ConsumerInit, Init, IdleCall, Busy
<1>4. UnderWay = {}
  BY <1>3 DEF ConsumerInit, UnderWay
<1>5. \A c \in Consumers : ProgressFits(c) /\ ResultsFit(c)
  <2> SUFFICES ASSUME NEW c \in Consumers PROVE ProgressFits(c) /\ ResultsFit(c)
    OBVIOUS
  <2>1. /\ progress[c].step \in {"logRequest", "sign"}
        /\ progress[c].number = 1
        /\ previous[c] = Nothing /\ results[c] = {} /\ ~progress[c].writing
    BY DEF ConsumerInit, FirstRequest, FirstStep
  <2>2. previous[c] \notin Messages
    BY <2>1, StsHostAssumption
  <2>3. Asking(c, 1)
    BY PlanRequests DEF ConsumerInit, Asking
  <2> QED
    BY <1>4, <2>1, <2>2, <2>3 DEF ProgressFits, ResultsFit
<1> QED
  BY <1>1, <1>2, <1>3, <1>5 DEF CInv, ServiceFits, ConsumerInit

-----------------------------------------------------------------------------
(* What a consumer's progress relies on, and what keeps it.                   *)

ProgressType ==
    [step : Steps, number : Numbers, writing : BOOLEAN, message : Messages \cup {Nothing},
     wake : Nat, response : Outcomes \cup {Nothing}]

\* The rest of the system goes on without putting anybody's message under way.
Frame ==
    /\ UNCHANGED <<plan, previous>>
    /\ seen \subseteq seen'
    /\ UnderWay' \subseteq UnderWay

LEMMA ProgressTypes ==
    ASSUME CInv, NEW c \in Consumers
    PROVE  /\ progress \in [Consumers -> ProgressType] /\ progress[c] \in ProgressType
           /\ plan[c] \in Plans /\ previous[c] \in Messages \cup {Nothing}
           /\ results[c] \subseteq [number : Numbers, outcome : Outcomes]
           /\ ProgressFits(c) /\ ResultsFit(c)
  BY DEF CInv, ConsumerTypeOK, ProgressType

\* A consumer that waits for its turn.
LEMMA ProgressStays ==
    ASSUME NEW c \in Consumers, ProgressFits(c), progress'[c] = progress[c],
           UNCHANGED plan, previous'[c] = previous[c], seen \subseteq seen',
           c \in UnderWay' => c \in UnderWay
    PROVE  ProgressFits(c)'
<1>1. Replayed(previous[c]) => Replayed(previous[c])'
  BY DEF Replayed
<1>2. WasReplayed(c) => WasReplayed(c)'
  BY <1>1 DEF WasReplayed
<1>3. \A number, m : /\ Owned(c, number, m) => Owned(c, number, m)'
                     /\ Drafted(c, number, m) => Drafted(c, number, m)'
                     /\ Asking(c, number) => Asking(c, number)'
  BY DEF Owned, Drafted, Asking, RequestOf
<1>4. \A number, o : OutcomeFits(c, number, o) => OutcomeFits(c, number, o)'
  BY DEF OutcomeFits, RequestOf
<1>5. Replays(c)' = Replays(c)
  BY DEF Replays
<1> QED
  BY <1>2, <1>3, <1>4, <1>5 DEF ProgressFits

LEMMA ResultsStay ==
    ASSUME NEW c \in Consumers, UNCHANGED plan, ResultsFit(c), results'[c] = results[c]
    PROVE  ResultsFit(c)'
  BY DEF ResultsFit, OutcomeFits, Replays, RequestOf

LEMMA ProceedFits ==
    ASSUME CInv, NEW c \in Consumers, NEW p \in ProgressType, Proceed(c, p), Frame,
           UNCHANGED results, ProgressFits(c)'
    PROVE  /\ progress' \in [Consumers -> ProgressType]
           /\ \A d \in Consumers : ProgressFits(d)' /\ ResultsFit(d)'
<1>1. progress' \in [Consumers -> ProgressType]
  BY ProgressTypes DEF Proceed
<1>2. ASSUME NEW d \in Consumers
      PROVE  ProgressFits(d)' /\ ResultsFit(d)'
  <2>1. d # c => progress'[d] = progress[d]
    BY ProgressTypes DEF Proceed
  <2> QED
    BY <2>1, ProgressTypes, ProgressStays, ResultsStay DEF Frame
<1> QED
  BY <1>1, <1>2

LEMMA FaultsHaveCodes ==
    ASSUME NEW outcome \in Outcomes, outcome.kind = "fault"
    PROVE  outcome.code \in FaultCodes
<1>1. CASE outcome \in Tokens
  BY <1>1 DEF Tokens
<1>2. CASE outcome \in Faults
  BY <1>2 DEF Faults
<1>3. CASE outcome \in {FaultOfLastResort, SecurityFault}
  <2>1. /\ FaultOfLastResort.kind = "fault of last resort"
        /\ SecurityFault.kind = "security fault"
    BY DEF FaultOfLastResort, SecurityFault
  <2> QED
    BY <1>3, <2>1
<1>4. CASE outcome \in {Thrown(e) : e \in {"log", "timeout"}}
  BY <1>4 DEF Thrown
<1> QED
  BY <1>1, <1>2, <1>3, <1>4 DEF Outcomes, Replies

\* What a test goes on after: no exception, and a token where it then replays.
LEMMA GoingOn ==
    ASSUME CInv, NEW c \in Consumers, NEW outcome \in Outcomes, AsAsserted(c, outcome)
    PROVE  /\ outcome.kind # "thrown"
           /\ Replays(c) /\ progress[c].number = 1 => outcome.kind = "token"
<1> DEFINE number == progress[c].number
           expects == RequestOf(c, number).expects
<1>1. plan[c] \in Plans /\ number \in 1 .. Len(plan[c].requests)
  BY ProgressTypes DEF ProgressFits, Asking
<1>2. /\ expects \subseteq Verdicts /\ Verdict(outcome) \in expects
      /\ Replays(c) /\ number = 1 => expects = {"token"}
  <2>1. expects \subseteq Verdicts
    BY <1>1, PlanRequests DEF RequestOf
  <2>2. Replays(c) /\ number = 1 => expects = {"token"}
    BY <1>1, PlanRequests DEF RequestOf, Replays
  <2> QED
    BY <2>1, <2>2 DEF AsAsserted
<1>3. outcome.kind = "fault" => outcome.code # "token"
  BY FaultsHaveCodes DEF FaultCodes
<1>4. "thrown" \notin Verdicts
  BY DEF Verdicts, FaultCodes
<1> QED
  BY <1>2, <1>3, <1>4 DEF Verdict

\* A request ends, and the test with it or goes on with its next request.
LEMMA FinishFits ==
    ASSUME CInv, NEW c \in Consumers, NEW outcome \in Outcomes, Finish(c, outcome), Frame,
           OutcomeFits(c, progress[c].number, outcome),
           Replays(c) /\ outcome.kind = "token" => progress[c].number = 1 /\ WasReplayed(c)
    PROVE  /\ progress' \in [Consumers -> ProgressType]
           /\ results' \in [Consumers -> SUBSET [number : Numbers, outcome : Outcomes]]
           /\ \A d \in Consumers : ProgressFits(d)' /\ ResultsFit(d)'
<1> DEFINE next == IF AsAsserted(c, outcome) /\ progress[c].number < Len(plan[c].requests)
                   THEN [FirstRequest EXCEPT !.number = progress[c].number + 1]
                   ELSE [progress[c] EXCEPT !.step = "done", !.writing = FALSE]
           r == [number |-> progress[c].number, outcome |-> outcome]
<1>1. /\ progress[c] \in ProgressType /\ ProgressFits(c) /\ ResultsFit(c)
      /\ plan[c] \in Plans
  BY ProgressTypes
<1>2. /\ results' = [results EXCEPT ![c] = @ \cup {r}]
      /\ Proceed(c, next)
  BY DEF Finish
<1>3. /\ next \in ProgressType /\ Asking(c, next.number)
      /\ \/ next.step = "done" /\ next.number = progress[c].number
         \/ /\ next.step \in {"logRequest", "sign"}
            /\ AsAsserted(c, outcome)
      /\ ~next.writing
  <2>1. /\ progress[c].number \in Nat /\ Len(plan[c].requests) \in Nat
        /\ progress[c].number \in 1 .. Len(plan[c].requests)
        /\ 1 .. Len(plan[c].requests) \subseteq Numbers
    BY <1>1, PlanRequests DEF ProgressFits, Asking
  <2>2. CASE AsAsserted(c, outcome) /\ progress[c].number < Len(plan[c].requests)
    <3>1. progress[c].number + 1 \in 1 .. Len(plan[c].requests)
      BY <2>1, <2>2
    <3> QED
      BY <2>1, <2>2, <3>1 DEF ProgressType, FirstRequest, FirstStep, Steps, Asking
  <2>3. CASE ~(AsAsserted(c, outcome) /\ progress[c].number < Len(plan[c].requests))
    <3>1. next = [progress[c] EXCEPT !.step = "done", !.writing = FALSE]
      BY <2>3
    <3> HIDE DEF next
    <3> QED
      BY <1>1, <2>1, <3>1 DEF ProgressType, Steps, Asking
  <2> QED
    BY <2>2, <2>3
<1> HIDE DEF next
<1>4. /\ progress' \in [Consumers -> ProgressType] /\ progress'[c] = next
      /\ \A d \in Consumers : d # c => progress'[d] = progress[d]
  BY <1>2, <1>3, ProgressTypes DEF Proceed
<1>5. r \in [number : Numbers, outcome : Outcomes] /\ r.outcome = outcome
      /\ r.number = progress[c].number
  BY <1>1 DEF ProgressType
<1> HIDE DEF r
<1>6. /\ results' \in [Consumers -> SUBSET [number : Numbers, outcome : Outcomes]]
      /\ results'[c] = results[c] \cup {r}
      /\ \A d \in Consumers : d # c => results'[d] = results[d]
  BY <1>2, <1>5 DEF CInv, ConsumerTypeOK
<1>7. ProgressFits(c)'
  <2>1. Replayed(previous[c]) => Replayed(previous[c])'
    BY DEF Frame, Replayed
  <2>2. WasReplayed(c) => WasReplayed(c)'
    BY <2>1 DEF WasReplayed, Frame
  <2>3. Replays(c)' = Replays(c) /\ previous' = previous
    BY DEF Frame, Replays
  <2>4. \A m : Owned(c, 1, m) => Owned(c, 1, m)'
    BY DEF Owned, Frame, RequestOf
  <2>5. Replays(c) /\ previous'[c] \in Messages => Owned(c, 1, previous[c])'
    BY <1>1, <2>3, <2>4 DEF ProgressFits
  <2>6. Replays(c) /\ next.number # 1 => WasReplayed(c)
    <3>1. CASE progress[c].number # 1
      BY <1>1, <3>1 DEF ProgressFits
    <3>2. CASE progress[c].number = 1
      BY <1>3, <3>2, GoingOn
    <3> QED
      BY <3>1, <3>2
  <2>7. next.number \in 1 .. Len(plan'[c].requests)
    BY <1>3 DEF Asking, Frame
  <2>8. next.step = "done" \/ next.number # 1
    <3>1. progress[c].number \in Nat \ {0}
      BY <1>1, NumbersAreNatural DEF ProgressType
    <3>2. next.number = progress[c].number + 1 \/ next.step = "done"
      BY <1>1 DEF next, FirstRequest, ProgressType
    <3> QED
      BY <3>1, <3>2
  <2> QED
    BY <1>3, <1>4, <2>2, <2>3, <2>5, <2>6, <2>7, <2>8
       DEF ProgressFits, BeforeSending, LogSteps, Asking
<1>8. ResultsFit(c)'
  <2>1. \A s \in results[c] : s.outcome.kind = "token" =>
           OutcomeFits(c, s.number, s.outcome)' /\ (Replays(c)' => s.number = 1)
    BY <1>1 DEF ResultsFit, OutcomeFits, Replays, Frame, RequestOf
  <2>2. \A s : s = r /\ outcome.kind = "token" =>
           OutcomeFits(c, s.number, s.outcome)' /\ (Replays(c)' => s.number = 1)
    BY <1>5 DEF OutcomeFits, Replays, Frame, RequestOf
  <2> QED
    BY <1>5, <1>6, <2>1, <2>2 DEF ResultsFit
<1>9. \A d \in Consumers : ProgressFits(d)' /\ ResultsFit(d)'
  BY <1>4, <1>6, <1>7, <1>8, ProgressTypes, ProgressStays, ResultsStay DEF Frame
<1> QED
  BY <1>4, <1>6, <1>9

\* An answer that comes in, whether anybody still waits for it or not.
LEMMA ReceiveFits ==
    ASSUME CInv, NEW request, request.from \in Consumers, request.number \in Numbers,
           NEW response \in Outcomes,
           Receive(request, response), Frame,
           OutcomeFits(request.from, request.number, response),
           Replays(request.from) /\ response.kind = "token" =>
              request.number = 1 /\ WasReplayed(request.from)
    PROVE  /\ progress' \in [Consumers -> ProgressType]
           /\ results' \in [Consumers -> SUBSET [number : Numbers, outcome : Outcomes]]
           /\ \A d \in Consumers : ProgressFits(d)' /\ ResultsFit(d)'
<1> DEFINE c == request.from
<1>1. c \in Consumers
  OBVIOUS
<1>2. results \in [Consumers -> SUBSET [number : Numbers, outcome : Outcomes]]
  BY DEF CInv, ConsumerTypeOK
<1>3. CASE progress[c].step # "wait" \/ progress[c].number # request.number
  <2>1. UNCHANGED <<progress, results>>
    BY <1>3 DEF Receive
  <2> QED
    BY <1>1, <1>2, <2>1, ProgressTypes, ProgressStays, ResultsStay DEF Frame
<1>4. CASE progress[c].step = "wait" /\ progress[c].number = request.number
  <2>1. CASE Finish(c, response)
    BY <1>1, <1>4, <2>1, FinishFits
  <2>2. CASE ~Finish(c, response)
    <3> DEFINE p == [progress[c] EXCEPT !.step = "logResponse", !.response = response]
    <3>1. Proceed(c, p) /\ UNCHANGED results
      BY <1>4, <2>2 DEF Receive
    <3>2. progress[c] \in ProgressType /\ ProgressFits(c)
      BY <1>1, ProgressTypes
    <3>3. /\ p \in ProgressType /\ p.step = "logResponse" /\ p.response = response
          /\ p.number = request.number
      BY <1>4, <3>2 DEF ProgressType, Steps
    <3> HIDE DEF p
    <3>4. progress'[c] = p
      BY <1>1, <3>1, ProgressTypes DEF Proceed
    <3>5. ProgressFits(c)'
      <4>1. Replayed(previous[c]) => Replayed(previous[c])'
        BY DEF Frame, Replayed
      <4>2. WasReplayed(c) => WasReplayed(c)'
        BY <4>1 DEF WasReplayed, Frame
      <4>3. Replays(c)' = Replays(c) /\ previous' = previous
        BY DEF Frame, Replays
      <4>4. OutcomeFits(c, request.number, response)'
        BY DEF OutcomeFits, Frame, RequestOf
      <4>5. Replays(c) /\ previous'[c] \in Messages => Owned(c, 1, previous[c])'
        BY <3>2, <4>3 DEF ProgressFits, Owned, Frame, RequestOf
      <4>6. /\ Replays(c) /\ p.number # 1 => WasReplayed(c)
            /\ Asking(c, request.number)'
        BY <1>4, <3>2, <3>3 DEF ProgressFits, Asking, Frame
      <4> QED
        BY <3>3, <3>4, <4>2, <4>3, <4>4, <4>5, <4>6 DEF ProgressFits, BeforeSending, LogSteps
    <3> QED
      BY <1>1, <1>2, <3>1, <3>3, <3>5, ProceedFits
  <2> QED
    BY <2>1, <2>2
<1> QED
  BY <1>3, <1>4

-----------------------------------------------------------------------------
(* What consumers do.                                                         *)

LEMMA NumbersStay ==
    ASSUME CInv, UNCHANGED plan, \A c \in Consumers : ProgressFits(c)'
    PROVE  \A c \in Consumers : progress'[c].number <= Len(plan'[c].requests)
<1> SUFFICES ASSUME NEW c \in Consumers
             PROVE  progress'[c].number <= Len(plan[c].requests)
  OBVIOUS
<1>1. progress'[c].number \in 1 .. Len(plan[c].requests)
  BY DEF ProgressFits, Asking
<1>2. Len(plan[c].requests) \in Nat
  BY ProgressTypes, PlanRequests
<1> QED
  BY <1>1, <1>2

\* A step of a consumer that puts nothing under way.
LEMMA QuietStep ==
    ASSUME CInv, UNCHANGED <<vars, plan, previous, network, caller>>,
           progress' \in [Consumers -> ProgressType],
           results' \in [Consumers -> SUBSET [number : Numbers, outcome : Outcomes]],
           Log!LogTypeOK([from : Consumers, number : Numbers])',
           \A d \in Consumers : ProgressFits(d)' /\ ResultsFit(d)'
    PROVE  CInv'
<1>1. IInv' /\ now' = now
  BY NextInvariant DEF CInv, vars
<1>2. ConsumerTypeOK'
  BY NumbersStay DEF CInv, ConsumerTypeOK, ProgressType
<1>3. \A t \in Threads : ServiceFits(t)'
  BY DEF CInv, ServiceFits, Busy, Owned, Replays, vars, Asking, RequestOf
<1>4. \A e \in network' : EntryFits(e)'
  BY DEF CInv, EntryFits, Owned, Replays, Replayed, vars, Asking, RequestOf
<1> QED
  BY <1>1, <1>2, <1>3, <1>4 DEF CInv

\* Nothing a consumer does to its log files makes them any less of its kind.
LEMMA ClientLogTypes ==
    ASSUME CInv, NEW c \in Consumers, Logging(c),
           \/ Log!OpenLog(c, FileOf[progress[c].step])
           \/ Log!LogThrows(c, FileOf[progress[c].step])
           \/ Log!CloseLog(c, FileOf[progress[c].step],
                           [from |-> c, number |-> progress[c].number])
    PROVE  Log!LogTypeOK([from : Consumers, number : Numbers])'
<1> DEFINE file == FileOf[progress[c].step]
<1>1. file \in {SentRequest, SentRequestModified, ReceivedResponse}
  BY DEF Logging, FileOf
<1>2. [from |-> c, number |-> progress[c].number] \in [from : Consumers, number : Numbers]
  BY ProgressTypes DEF ProgressType
<1>3. Log!LogTypeOK([from : Consumers, number : Numbers])
  BY DEF CInv, ConsumerTypeOK
<1> HIDE DEF file
<1> QED
  BY <1>1, <1>2, <1>3
     DEF file, Log!LogTypeOK, Log!OpenLog, Log!LogThrows, Log!CloseLog, Log!logVars

LEMMA SameFrame ==
    ASSUME UNCHANGED <<vars, plan, previous, network, caller>>
    PROVE  Frame
  BY DEF vars, Frame, UnderWay, Busy

\* Going on with the request, the message and the outcome it has.
LEMMA StepFits ==
    ASSUME CInv, NEW c \in Consumers, NEW p \in ProgressType,
           Proceed(c, p), UNCHANGED <<vars, plan, previous, network, caller, results>>,
           p.number = progress[c].number,
           p.writing => p.step \in LogSteps,
           p.step \in BeforeSending => progress[c].step \in BeforeSending,
           p.step \in {"encode", "asleep"} => Drafted(c, p.number, p.message),
           p.step = "asleep" => ~Replays(c),
           p.step = "logResponse" =>
              progress[c].step = "logResponse" /\ p.response = progress[c].response,
           Log!LogTypeOK([from : Consumers, number : Numbers])'
    PROVE  CInv'
<1>1. Frame
  BY SameFrame
<1>2. ProgressFits(c) /\ progress \in [Consumers -> ProgressType]
  BY ProgressTypes
<1>3. progress'[c] = p
  BY <1>2 DEF Proceed
<1>4. UNCHANGED <<plan, previous, seen, UnderWay>>
  BY DEF vars, UnderWay, Busy
<1>5. ProgressFits(c)'
  BY <1>2, <1>3, <1>4
     DEF ProgressFits, Owned, Drafted, OutcomeFits, Replays, WasReplayed, Replayed,
         Asking, RequestOf
<1>6. results' \in [Consumers -> SUBSET [number : Numbers, outcome : Outcomes]]
  BY DEF CInv, ConsumerTypeOK
<1> QED
  BY <1>1, <1>5, <1>6, ProceedFits, QuietStep

\* Giving up: the outcome is an exception.
LEMMA ThrowFits ==
    ASSUME CInv, NEW c \in Consumers, NEW e \in {"log", "timeout"}, Finish(c, Thrown(e)),
           UNCHANGED <<vars, plan, previous, network, caller>>,
           Log!LogTypeOK([from : Consumers, number : Numbers])'
    PROVE  CInv'
<1>1. Thrown(e) \in Outcomes /\ Thrown(e).kind # "token"
  BY DEF Outcomes, Thrown
<1> QED
  BY <1>1, SameFrame, FinishFits, QuietStep DEF OutcomeFits

LEMMA ClientLogInvariant ==
    ASSUME CInv, NEW c \in Consumers,
           OpenClientLog(c) \/ ClientLogThrows(c) \/ CloseClientLog(c)
    PROVE  CInv'
<1>1. progress[c] \in ProgressType /\ ProgressFits(c)
  BY ProgressTypes
<1>2. CASE OpenClientLog(c)
  <2> DEFINE p == [progress[c] EXCEPT !.writing = TRUE]
  <2>1. /\ p \in ProgressType /\ p.number = progress[c].number
        /\ p.step = progress[c].step /\ p.message = progress[c].message
        /\ p.response = progress[c].response /\ p.step \in LogSteps
    BY <1>1, <1>2 DEF ProgressType, OpenClientLog, Logging, FileOf, LogSteps
  <2>2. Proceed(c, p) /\ UNCHANGED <<vars, plan, previous, network, caller, results>>
    BY <1>2 DEF OpenClientLog
  <2> HIDE DEF p
  <2>3. Log!LogTypeOK([from : Consumers, number : Numbers])'
    BY <1>2, ClientLogTypes DEF OpenClientLog
  <2> QED
    BY <1>1, <2>1, <2>2, <2>3, StepFits DEF ProgressFits
<1>3. CASE ClientLogThrows(c)
  BY <1>3, ClientLogTypes, ThrowFits DEF ClientLogThrows
<1>4. CASE CloseClientLog(c)
  <2>1. Logging(c)
    BY <1>1, <1>4 DEF CloseClientLog, ProgressFits, LogSteps, Logging, FileOf
  <2>2. Log!LogTypeOK([from : Consumers, number : Numbers])'
    BY <1>4, <2>1, ClientLogTypes DEF CloseClientLog
  <2>3. UNCHANGED <<vars, plan, previous, network, caller>>
    BY <1>4 DEF CloseClientLog
  <2>4. CASE progress[c].step = "logResponse"
    <3>1. Finish(c, progress[c].response)
      BY <1>4, <2>4 DEF CloseClientLog
    <3>2. /\ progress[c].response \in Outcomes
          /\ OutcomeFits(c, progress[c].number, progress[c].response)
          /\ Replays(c) /\ progress[c].response.kind = "token" =>
                progress[c].number = 1 /\ WasReplayed(c)
      BY <1>1, <2>4 DEF ProgressFits
    <3> QED
      BY <2>2, <2>3, <3>1, <3>2, SameFrame, FinishFits, QuietStep
  <2>5. CASE progress[c].step # "logResponse"
    <3> DEFINE p == [progress[c] EXCEPT !.writing = FALSE,
                        !.step = IF progress[c].step = "logRequest" /\ plan[c].clearsBody
                                 THEN "logModified" ELSE "sign"]
    <3>1. Proceed(c, p) /\ UNCHANGED results
      BY <1>4, <2>5 DEF CloseClientLog
    <3>2. /\ p \in ProgressType /\ p.number = progress[c].number
          /\ p.step \in {"logModified", "sign"} /\ ~p.writing
      BY <1>1 DEF ProgressType, Steps
    <3>3. progress[c].step \in BeforeSending
      BY <2>1, <2>5 DEF Logging, FileOf, BeforeSending
    <3> HIDE DEF p
    <3> QED
      BY <2>2, <2>3, <3>1, <3>2, <3>3, StepFits
  <2> QED
    BY <2>4, <2>5
<1> QED
  BY <1>2, <1>3, <1>4

\* Damaging a message changes neither its sender nor its request.
LEMMA DraftsAreOwned ==
    ASSUME NEW c \in Consumers, plan[c] \in Plans, NEW number, Asking(c, number),
           NEW m, Drafted(c, number, m)
    PROVE  Owned(c, number, m) /\ Owned(c, number, Tampered(m))
<1>1. PICK clock \in 0..MaxTime : m = SignedAt(c, number, plan[c], clock)
  BY DEF Drafted
<1>2. m \in Messages /\ Tampered(m) \in Messages
  BY <1>1, StsConsumerAssumption DEF Asking
<1> QED
  BY <1>1, <1>2 DEF Owned, SignedAt, Tampered, RequestOf

\* The message is signed with the clock of the moment, sleeps after that, or is
\* given up while its consumer waits.
LEMMA SignOrWaitInvariant ==
    ASSUME CInv, NEW c \in Consumers, Sign(c) \/ FallAsleep(c) \/ TimeOut(c)
    PROVE  CInv'
<1>1. /\ progress[c] \in ProgressType /\ ProgressFits(c) /\ plan[c] \in Plans
      /\ now \in 0..MaxTime
  BY ProgressTypes, StsHostAssumption DEF CInv, IInv, TypeOK
<1>2. UNCHANGED <<clientWriter, clientLogged>>
  BY DEF Sign, FallAsleep, TimeOut
<1>3. Log!LogTypeOK([from : Consumers, number : Numbers])'
  BY <1>2 DEF CInv, ConsumerTypeOK, Log!LogTypeOK
<1>4. CASE Sign(c)
  <2> DEFINE message == Signed(c)
             p == [progress[c] EXCEPT !.step = "encode", !.message = message]
  <2>1. Asking(c, progress[c].number) /\ ~progress[c].writing
    BY <1>1, <1>4 DEF ProgressType, ProgressFits, Sign, LogSteps
  <2>2. Drafted(c, progress[c].number, message) /\ message \in Messages
    BY <1>1, <2>1, DraftsAreOwned DEF Signed, Drafted, Owned
  <2> HIDE DEF message
  <2>3. /\ p \in ProgressType /\ p.step = "encode" /\ p.message = message
        /\ p.number = progress[c].number /\ p.writing = progress[c].writing
    BY <1>1, <2>2 DEF ProgressType, Steps
  <2>4. Proceed(c, p) /\ UNCHANGED <<vars, plan, previous, network, caller, results>>
    BY <1>4 DEF Sign, message
  <2>5. progress[c].step \in BeforeSending
    BY <1>4 DEF Sign, BeforeSending
  <2> HIDE DEF p
  <2> QED
    BY <1>3, <2>1, <2>2, <2>3, <2>4, <2>5, StepFits
<1>5. CASE FallAsleep(c)
  <2> DEFINE wake == now + Delay[plan[c].encoder]
             p == [progress[c] EXCEPT !.step = "asleep", !.wake = wake]
  <2>1. wake \in Nat
    BY <1>1, <1>5, StsConsumerAssumption DEF FallAsleep, Delay
  <2> HIDE DEF wake
  <2>2. /\ p \in ProgressType /\ p.step = "asleep" /\ p.message = progress[c].message
        /\ p.number = progress[c].number /\ p.writing = progress[c].writing
    BY <1>1, <2>1 DEF ProgressType, Steps
  <2>3. Proceed(c, p) /\ UNCHANGED <<vars, plan, previous, network, caller, results>>
    BY <1>5 DEF FallAsleep, wake
  <2>4. /\ progress[c].step = "encode" /\ progress[c].step \in BeforeSending
        /\ ~progress[c].writing
    BY <1>1, <1>5 DEF FallAsleep, BeforeSending, ProgressFits, LogSteps, ProgressType
  <2> HIDE DEF p
  <2>5. Drafted(c, p.number, p.message) /\ ~Replays(c)
    BY <1>1, <1>5, <2>2, <2>4 DEF ProgressFits, FallAsleep, Delay, Replays
  <2> QED
    BY <1>3, <2>2, <2>3, <2>4, <2>5, StepFits
<1>6. CASE TimeOut(c)
  BY <1>3, <1>6, ThrowFits DEF TimeOut
<1> QED
  BY <1>4, <1>5, <1>6

\* A message leaves.  Only with its first request may a replaying consumer
\* remember another message than before.
LEMMA SendInvariant ==
    ASSUME CInv, NEW c \in Consumers, NEW message, Send(c, message),
           progress[c].step \in {"encode", "asleep"}, message \in Messages,
           progress[c].number = 1 \/ ~Replays(c) => Owned(c, progress[c].number, message),
           UNCHANGED <<vars, plan, results, caller, clientWriter, clientLogged>>,
           previous' \in [Consumers -> Messages \cup {Nothing}],
           \A d \in Consumers : d # c => previous'[d] = previous[d],
           previous'[c] \in {previous[c], message},
           Replays(c) => IF progress[c].number = 1 THEN previous'[c] = message
                         ELSE previous'[c] = previous[c] /\ Replayed(message)
    PROVE  CInv'
<1> DEFINE e == [from |-> c, number |-> progress[c].number, message |-> message]
           p == [progress[c] EXCEPT !.step = "wait", !.message = Nothing]
<1>1. /\ progress \in [Consumers -> ProgressType] /\ progress[c] \in ProgressType
      /\ ProgressFits(c)
  BY ProgressTypes
<1>2. /\ p \in ProgressType /\ p.step = "wait" /\ p.number = progress[c].number
      /\ ~p.writing
  BY <1>1 DEF ProgressType, Steps, ProgressFits, LogSteps
<1>3. network' = network \cup {e} /\ Proceed(c, p)
  BY DEF Send
<1>4. /\ e \in [from : Consumers, number : Numbers, message : Messages]
      /\ e.from = c /\ e.number = progress[c].number /\ e.message = message
  BY <1>1 DEF ProgressType
<1> HIDE DEF e, p
<1>5. /\ progress' \in [Consumers -> ProgressType] /\ progress'[c] = p
      /\ \A d \in Consumers : d # c => progress'[d] = progress[d]
  BY <1>1, <1>2, <1>3 DEF Proceed
<1>6. UNCHANGED <<seen, call, now>>
  BY DEF vars
<1>7. UnderWay' = UnderWay \cup {c}
  BY <1>3, <1>4, <1>6 DEF UnderWay, Busy
<1>8. progress[c].number = 1 => c \notin UnderWay
  BY <1>1 DEF ProgressFits, BeforeSending
<1>9. IInv' /\ now' <= MaxTime
  BY <1>6, NextInvariant DEF CInv
<1>10. ConsumerTypeOK'
  BY <1>2, <1>3, <1>4, <1>5 DEF CInv, ConsumerTypeOK, ProgressType, Log!LogTypeOK
<1>11. /\ \A m : Replayed(m)' = Replayed(m)
       /\ \A d, number, m : Owned(d, number, m)' = Owned(d, number, m)
       /\ \A d, number : Asking(d, number)' = Asking(d, number)
       /\ \A d : Replays(d)' = Replays(d)
  BY <1>6 DEF Replayed, Owned, Replays, Asking, RequestOf
<1>12. \A t \in Threads : ServiceFits(t)'
  <2> SUFFICES ASSUME NEW t \in Threads, Busy(t)', Replays(caller[t].from),
                      caller[t].from = c
               PROVE  caller[t].number = 1 /\ call[t].message = previous'[c]
    BY <1>6, <1>11 DEF CInv, ServiceFits, Busy
  <2>1. Busy(t) /\ c \in UnderWay
    BY <1>6 DEF Busy, UnderWay
  <2>2. progress[c].number # 1
    BY <1>8, <2>1
  <2> QED
    BY <2>1, <2>2 DEF CInv, ServiceFits
<1>13. \A f \in network' : EntryFits(f)'
  <2> SUFFICES ASSUME NEW f \in network' PROVE EntryFits(f)'
    OBVIOUS
  <2>1. CASE f = e
    BY <1>1, <1>4, <1>11, <2>1 DEF EntryFits, ProgressFits
  <2>2. CASE f # e /\ f.from # c
    <3>1. f \in network /\ EntryFits(f) /\ f.from \in Consumers
      BY <1>3, <2>2 DEF CInv, ConsumerTypeOK
    <3> QED
      BY <1>11, <2>2, <3>1 DEF EntryFits
  <2>3. CASE f # e /\ f.from = c
    <3>1. f \in network /\ EntryFits(f)
      BY <1>3, <2>3 DEF CInv
    <3>2. c \in UnderWay
      BY <2>3, <3>1 DEF UnderWay
    <3>3. Replays(c) => previous'[c] = previous[c]
      BY <1>8, <3>2
    <3> QED
      BY <1>11, <2>3, <3>1, <3>3 DEF EntryFits
  <2> QED
    BY <2>1, <2>2, <2>3
<1>14. \A d \in Consumers : ProgressFits(d)' /\ ResultsFit(d)'
  <2> SUFFICES ASSUME NEW d \in Consumers PROVE ProgressFits(d)' /\ ResultsFit(d)'
    OBVIOUS
  <2>1. ResultsFit(d)'
    BY ProgressTypes, ResultsStay
  <2>2. CASE d # c
    <3>1. /\ progress'[d] = progress[d] /\ previous'[d] = previous[d]
          /\ d \in UnderWay' => d \in UnderWay
      BY <1>5, <1>7, <2>2
    <3>2. UNCHANGED plan /\ seen \subseteq seen'
      BY <1>6
    <3>3. ProgressFits(d)
      BY ProgressTypes
    <3>4. ProgressFits(d)'
      BY <3>1, <3>2, <3>3, ProgressStays
    <3> QED
      BY <2>1, <3>4
  <2>3. CASE d = c
    <3>1. Replays(c) /\ previous'[c] \in Messages => Owned(c, 1, previous[c])'
      BY <1>1, <1>11 DEF ProgressFits
    <3>2. ASSUME Replays(c), p.number # 1 PROVE WasReplayed(c)'
      <4>1. WasReplayed(c) /\ previous'[c] = previous[c]
        BY <1>1, <1>2, <3>2 DEF ProgressFits
      <4> QED
        BY <1>6, <4>1 DEF WasReplayed, Replayed
    <3>3. progress'[c].number \in 1 .. Len(plan'[c].requests)
      BY <1>1, <1>2, <1>5 DEF ProgressFits, Asking
    <3> QED
      BY <1>2, <1>5, <1>11, <2>1, <2>3, <3>1, <3>2, <3>3 DEF ProgressFits, BeforeSending, Asking
  <2> QED
    BY <2>2, <2>3
<1> QED
  BY <1>9, <1>10, <1>12, <1>13, <1>14 DEF CInv

LEMMA EncodeInvariant ==
    ASSUME CInv, NEW c \in Consumers, EncodeText(c) \/ Modify(c) \/ Wake(c)
    PROVE  CInv'
<1>1. /\ progress[c] \in ProgressType /\ ProgressFits(c)
      /\ previous[c] \in Messages \cup {Nothing}
      /\ previous \in [Consumers -> Messages \cup {Nothing}]
  BY ProgressTypes DEF CInv, ConsumerTypeOK
<1>2. progress[c].step \in {"encode", "asleep"}
  BY DEF EncodeText, Modify, Wake
<1> DEFINE number == progress[c].number
<1>3. /\ Owned(c, number, progress[c].message)
      /\ Owned(c, number, Tampered(progress[c].message))
  BY <1>1, <1>2, ProgressTypes, DraftsAreOwned DEF ProgressFits
<1>4. CASE EncodeText(c)
  <2> DEFINE message == IF plan[c].encoder = "tamper" THEN Tampered(progress[c].message)
                        ELSE progress[c].message
  <2>1. Owned(c, number, message) /\ message \in Messages
    BY <1>3 DEF Owned
  <2>2. Send(c, message) /\ ~Replays(c)
    BY <1>4 DEF EncodeText, Replays
  <2> HIDE DEF message
  <2> QED
    BY <1>1, <1>2, <1>4, <2>1, <2>2, SendInvariant DEF EncodeText
<1>5. CASE Wake(c)
  <2>1. ~Replays(c) /\ progress[c].message \in Messages
    BY <1>1, <1>3, <1>5 DEF Wake, ProgressFits, Owned
  <2> QED
    BY <1>1, <1>2, <1>3, <1>5, <2>1, SendInvariant DEF Wake
<1>6. CASE Modify(c)
  <2> DEFINE message == IF Replays(c) /\ previous[c] # Nothing THEN previous[c]
                        ELSE progress[c].message
  <2>1. /\ Send(c, message) /\ previous' = [previous EXCEPT ![c] = message]
        /\ UNCHANGED <<vars, plan, results, caller, clientWriter, clientLogged>>
    BY <1>6 DEF Modify, Replays
  <2>2. /\ number = 1 \/ ~Replays(c) => Owned(c, number, message)
        /\ message \in Messages
    BY <1>1, <1>3 DEF ProgressFits, Owned
  <2>3. Replays(c) /\ number # 1 => message = previous[c] /\ Replayed(previous[c])
    BY <1>1, StsHostAssumption DEF ProgressFits, WasReplayed
  <2> HIDE DEF message
  <2>4. /\ previous' \in [Consumers -> Messages \cup {Nothing}]
        /\ previous'[c] = message
        /\ \A d \in Consumers : d # c => previous'[d] = previous[d]
    BY <1>1, <2>1, <2>2
  <2> QED
    BY <1>2, <2>1, <2>2, <2>3, <2>4, SendInvariant
<1> QED
  BY <1>4, <1>5, <1>6

LEMMA ConsumeInvariant ==
    ASSUME CInv, NEW c \in Consumers, Consume(c)
    PROVE  CInv'
  BY ClientLogInvariant, SignOrWaitInvariant, EncodeInvariant DEF Consume

-----------------------------------------------------------------------------
(* What the network and the host do.                                          *)

\* A step that takes messages out of the network at most, and keeps what the
\* consumers' tests and the replay detection know.
LEMMA HostStep ==
    ASSUME CInv, IInv', now' <= MaxTime, Frame, network' \subseteq network,
           UNCHANGED <<clientWriter, clientLogged>>,
           caller' \in [Threads -> [from : Consumers, number : Numbers] \cup {Nothing}],
           progress' \in [Consumers -> ProgressType],
           results' \in [Consumers -> SUBSET [number : Numbers, outcome : Outcomes]],
           \A t \in Threads : ServiceFits(t)',
           \A c \in Consumers : ProgressFits(c)' /\ ResultsFit(c)'
    PROVE  CInv'
<1>1. ConsumerTypeOK'
  BY NumbersStay DEF CInv, ConsumerTypeOK, ProgressType, Frame, Log!LogTypeOK
<1>2. \A e \in network' : EntryFits(e)'
  BY DEF CInv, EntryFits, Owned, Replays, Replayed, Frame, Asking, RequestOf
<1> QED
  BY <1>1, <1>2 DEF CInv

\* Consumers that see nothing of a step.
LEMMA ConsumersStay ==
    ASSUME CInv, Frame, UNCHANGED <<progress, results>>
    PROVE  /\ progress' \in [Consumers -> ProgressType]
           /\ results' \in [Consumers -> SUBSET [number : Numbers, outcome : Outcomes]]
           /\ \A c \in Consumers : ProgressFits(c)' /\ ResultsFit(c)'
<1>1. ASSUME NEW c \in Consumers PROVE ProgressFits(c)' /\ ResultsFit(c)'
  BY ProgressTypes, ProgressStays, ResultsStay DEF Frame
<1> QED
  BY <1>1 DEF CInv, ConsumerTypeOK, ProgressType

\* The request a thread works on stays the one its caller waits for.
LEMMA ServiceStays ==
    ASSUME NEW t \in Threads, ServiceFits(t), UNCHANGED <<plan, previous>>,
           caller'[t] = caller[t], Busy(t)' => Busy(t),
           Busy(t)' => call'[t].message = call[t].message
    PROVE  ServiceFits(t)'
  BY DEF ServiceFits, Owned, Replays, Asking, RequestOf

\* An accepted message was not there before, so it is no replay.
LEMMA DeliverInvariant ==
    ASSUME CInv, NEW t \in Threads, NEW e \in network, Deliver(t, e)
    PROVE  CInv'
<1>1. /\ e \in [from : Consumers, number : Numbers, message : Messages] /\ EntryFits(e)
      /\ IInv /\ TypeOK
  BY DEF CInv, ConsumerTypeOK, IInv
<1>2. /\ ~Replayed(e.message) /\ seen' = seen \cup {e.message} /\ now' = now
      /\ network' = network \ {e} /\ ~Busy(t)
      /\ caller' = [caller EXCEPT ![t] = [from |-> e.from, number |-> e.number]]
      /\ UNCHANGED clientVars
  BY DEF Deliver, Authenticate, Authentic, Busy
<1> DEFINE d == [call[t] EXCEPT !.message = e.message,
                    !.stage = IF EnableSoapMessageLog THEN "received" ELSE "dispatched"]
<1>3. d \in Calls /\ d.message = e.message /\ Continue(t, d)
  BY <1>1 DEF TypeOK, Calls, Stages, Deliver, Authenticate
<1> HIDE DEF d
<1>4. call'[t] = d /\ \A u \in Threads : u # t => call'[u] = call[u]
  BY <1>1, <1>3, ContinueCall
<1>5. IInv'
  BY <1>1, AuthenticateInvariant DEF Deliver
<1>6. /\ caller' \in [Threads -> [from : Consumers, number : Numbers] \cup {Nothing}]
      /\ caller'[t] = [from |-> e.from, number |-> e.number]
      /\ \A u \in Threads : u # t => caller'[u] = caller[u]
  BY <1>1, <1>2 DEF CInv, ConsumerTypeOK
<1>7. UNCHANGED <<plan, previous, progress, results, clientWriter, clientLogged>>
  BY <1>2 DEF clientVars
<1>8. UnderWay' \subseteq UnderWay
  BY <1>2, <1>4, <1>6 DEF UnderWay, Busy
<1>9. ServiceFits(t)'
  BY <1>1, <1>2, <1>3, <1>4, <1>6, <1>7
     DEF EntryFits, ServiceFits, Owned, Replays, Asking, RequestOf
<1>10. \A u \in Threads : ServiceFits(u)'
  BY <1>4, <1>6, <1>7, <1>9, ServiceStays DEF Busy, CInv
<1>11. Frame
  BY <1>2, <1>7, <1>8 DEF Frame
<1>12. now' <= MaxTime /\ network' \subseteq network
  BY <1>2 DEF CInv
<1> QED
  BY <1>5, <1>6, <1>7, <1>10, <1>11, <1>12, ConsumersStay, HostStep

\* The answer of the channel is no token.
LEMMA RefuseInvariant ==
    ASSUME CInv, NEW e \in network, Refuse(e)
    PROVE  CInv'
<1>1. /\ e \in [from : Consumers, number : Numbers, message : Messages]
      /\ IInv
  BY DEF CInv, ConsumerTypeOK
<1>2. /\ UNCHANGED <<call, seen, now, caller>> /\ network' = network \ {e}
      /\ Receive(e, SecurityFault)
  BY DEF Refuse, RefuseMessage
<1>3. UNCHANGED <<plan, previous, clientWriter, clientLogged>>
  BY <1>2 DEF Receive
<1>4. Frame
  BY <1>2, <1>3 DEF Frame, UnderWay, Busy
<1>5. SecurityFault \in Outcomes /\ SecurityFault.kind # "token"
  BY DEF SecurityFault, Outcomes
<1>6. IInv'
  BY <1>1, RefuseMessageInvariant DEF Refuse
<1>7. \A t \in Threads : ServiceFits(t)'
  BY <1>2, <1>3, ServiceStays DEF CInv, Busy
<1>8. /\ progress' \in [Consumers -> ProgressType]
      /\ results' \in [Consumers -> SUBSET [number : Numbers, outcome : Outcomes]]
      /\ \A c \in Consumers : ProgressFits(c)' /\ ResultsFit(c)'
  BY <1>1, <1>2, <1>4, <1>5, ReceiveFits DEF OutcomeFits
<1>9. /\ caller' \in [Threads -> [from : Consumers, number : Numbers] \cup {Nothing}]
      /\ now' <= MaxTime /\ network' \subseteq network
  BY <1>2 DEF CInv, ConsumerTypeOK
<1> QED
  BY <1>3, <1>4, <1>6, <1>7, <1>8, <1>9, HostStep

\* A working thread keeps the message it has until it sends a reply to it.
LEMMA WorkCall ==
    ASSUME IInv, NEW t \in Threads, Work(t)
    PROVE  /\ UNCHANGED <<seen, now>>
           /\ Busy(t)
           /\ \A u \in Threads : u # t => call'[u] = call[u]
           /\ \/ Busy(t)' /\ call'[t].message = call[t].message
              \/ call'[t] = IdleCall /\ ReplyFits(call[t].message, call[t].reply)
<1>1. call \in [Threads -> Calls] /\ call[t] \in Calls /\ CallFits(t)
  BY DEF IInv, TypeOK
<1>2. CASE OpenRequestLog(t) \/ CloseRequestLog(t) \/ OpenReplyLog(t) \/ CloseReplyLog(t)
  BY <1>1, <1>2 DEF OpenRequestLog, CloseRequestLog, OpenReplyLog, CloseReplyLog,
                    Advance, Continue, Busy, Calls
<1>3. CASE GetScope(t)
  BY <1>1, <1>3 DEF GetScope, Advance, Continue, Busy, Calls
<1>4. ASSUME NEW exception, Fail(t, exception), call[t].stage # "idle"
      PROVE  /\ Busy(t) /\ Busy(t)' /\ call'[t].message = call[t].message
             /\ \A u \in Threads : u # t => call'[u] = call[u]
  BY <1>1, <1>4 DEF Fail, Continue, Busy, Calls
<1>5. CASE RequestLogThrows(t) \/ ScopeFails(t)
  BY <1>4, <1>5 DEF RequestLogThrows, ScopeFails
<1>6. CASE GetSecurityTokenHandler(t)
  BY <1>1, <1>6 DEF GetSecurityTokenHandler, Fail, Continue, Busy, Calls
<1>7. CASE Issue(t)
  BY <1>1, <1>7 DEF Issue, Reply, Fail, Continue, Busy, Calls
<1>8. CASE HandleError(t) \/ ReplyLogThrows(t)
  BY <1>1, <1>8 DEF HandleError, ReplyLogThrows, Reply, Continue, Busy, Calls
<1>9. CASE SendReply(t)
  BY <1>1, <1>9 DEF SendReply, Continue, Busy, CallFits
<1> QED
  BY <1>2, <1>3, <1>5, <1>6, <1>7, <1>8, <1>9 DEF Work

\* The reply is about the message the thread has, which is the caller's.
LEMMA HostWorksInvariant ==
    ASSUME CInv, NEW t \in Threads, HostWorks(t)
    PROVE  CInv'
<1>1. IInv /\ Work(t) /\ network' = network
  BY DEF CInv, HostWorks
<1>2. /\ UNCHANGED <<seen, now>> /\ Busy(t)
      /\ \A u \in Threads : u # t => call'[u] = call[u]
      /\ \/ Busy(t)' /\ call'[t].message = call[t].message
         \/ call'[t] = IdleCall /\ ReplyFits(call[t].message, call[t].reply)
  BY <1>1, WorkCall
<1>3. IInv' /\ now' <= MaxTime /\ network' \subseteq network
  BY <1>1, <1>2, WorkInvariant DEF CInv
<1>4. /\ caller \in [Threads -> [from : Consumers, number : Numbers] \cup {Nothing}]
      /\ \A u \in Threads : ServiceFits(u)
  BY DEF CInv, ConsumerTypeOK
<1>5. CASE call'[t] # IdleCall
  <2>1. UNCHANGED <<clientVars, caller>>
    BY <1>5 DEF HostWorks
  <2>2. UNCHANGED <<plan, previous, progress, results, clientWriter, clientLogged>>
    BY <2>1 DEF clientVars
  <2>3. \A u \in Threads : /\ Busy(u)' => Busy(u)
                           /\ call'[u].message = call[u].message
    BY <1>2, <1>5 DEF Busy
  <2>4. Frame
    BY <1>1, <1>2, <2>1, <2>2, <2>3 DEF Frame, UnderWay
  <2>5. \A u \in Threads : ServiceFits(u)'
    BY <1>4, <2>1, <2>2, <2>3, ServiceStays
  <2> QED
    BY <1>3, <1>4, <2>1, <2>2, <2>4, <2>5, ConsumersStay, HostStep
<1>6. CASE call'[t] = IdleCall
  <2>1. /\ Receive(caller[t], call[t].reply)
        /\ caller' = [caller EXCEPT ![t] = Nothing]
    BY <1>6 DEF HostWorks
  <2>2. ~Busy(t)' /\ ReplyFits(call[t].message, call[t].reply)
    BY <1>2, <1>6 DEF Busy, IdleCall
  <2>3. UNCHANGED <<plan, previous, clientWriter, clientLogged>>
    BY <2>1 DEF Receive
  <2>4. /\ caller' \in [Threads -> [from : Consumers, number : Numbers] \cup {Nothing}]
        /\ \A u \in Threads : u # t => caller'[u] = caller[u]
    BY <1>4, <2>1
  <2>5. Frame
    BY <1>1, <1>2, <2>2, <2>3, <2>4 DEF Frame, UnderWay, Busy
  <2>6. \A u \in Threads : ServiceFits(u)'
    <3>1. ServiceFits(t)'
      BY <2>2 DEF ServiceFits
    <3> QED
      BY <1>2, <1>4, <2>3, <2>4, <3>1, ServiceStays DEF Busy
  <2> DEFINE c == caller[t].from
             reply == call[t].reply
  <2>7. /\ c \in Consumers /\ caller[t].number \in Numbers
        /\ Owned(c, caller[t].number, call[t].message)
        /\ Replays(c) => caller[t].number = 1 /\ call[t].message = previous[c]
    BY <1>2, <1>4 DEF ServiceFits
  <2>8. reply \in Outcomes /\ OutcomeFits(c, caller[t].number, reply)
    BY <2>2, <2>7 DEF ReplyFits, TokenFits, Owned, OutcomeFits, Outcomes
  <2>9. call[t].message \in seen
    <3>1. Serving(t)
      BY <1>1, <1>2 DEF IInv, CallFits, Busy, Serving
    <3> QED
      BY <1>1, <3>1 DEF IInv, Remembered
  <2>10. Replays(c) => caller[t].number = 1 /\ WasReplayed(c)
    BY <2>7, <2>9 DEF WasReplayed, Replayed, Owned
  <2>11. /\ progress' \in [Consumers -> ProgressType]
         /\ results' \in [Consumers -> SUBSET [number : Numbers, outcome : Outcomes]]
         /\ \A d \in Consumers : ProgressFits(d)' /\ ResultsFit(d)'
    BY <2>1, <2>5, <2>7, <2>8, <2>10, ReceiveFits
  <2> QED
    BY <1>3, <2>3, <2>4, <2>5, <2>6, <2>11, HostStep
<1> QED
  BY <1>5, <1>6

\* Time passes, or nothing happens.
LEMMA TickOrStutterInvariant ==
    ASSUME CInv, Tick \/ UNCHANGED vars, UNCHANGED consumerVars
    PROVE  CInv'
<1>1. /\ UNCHANGED <<call, seen>> /\ now' <= MaxTime
      /\ UNCHANGED <<plan, progress, previous, results, network, caller,
                     clientWriter, clientLogged>>
  BY StsHostAssumption DEF CInv, IInv, TypeOK, Tick, vars, consumerVars, clientVars
<1>2. IInv'
  BY NextInvariant DEF CInv, Next
<1>3. Frame
  BY <1>1 DEF Frame, UnderWay, Busy
<1>4. \A t \in Threads : ServiceFits(t)'
  BY <1>1, ServiceStays DEF CInv, Busy
<1>5. /\ caller' \in [Threads -> [from : Consumers, number : Numbers] \cup {Nothing}]
      /\ network' \subseteq network
  BY <1>1 DEF CInv, ConsumerTypeOK
<1> QED
  BY <1>1, <1>2, <1>3, <1>4, <1>5, ConsumersStay, HostStep

LEMMA ConsumerNextInvariant == CInv /\ [ConsumerNext]_<<vars, consumerVars>> => CInv'
<1> SUFFICES ASSUME CInv, [ConsumerNext]_<<vars, consumerVars>> PROVE CInv'
  OBVIOUS
<1>1. CASE \E c \in Consumers : Consume(c)
  BY <1>1, ConsumeInvariant
<1>2. CASE \E e \in network : (\E t \in Threads : Deliver(t, e)) \/ Refuse(e)
  BY <1>2, DeliverInvariant, RefuseInvariant
<1>3. CASE \E t \in Threads : HostWorks(t)
  BY <1>3, HostWorksInvariant
<1>4. CASE Tick /\ UNCHANGED consumerVars
  BY <1>4, TickOrStutterInvariant
<1>5. CASE UNCHANGED <<vars, consumerVars>>
  BY <1>5, TickOrStutterInvariant
<1> QED
  BY <1>1, <1>2, <1>3, <1>4, <1>5 DEF ConsumerNext

\* The invariant of consumers and host, for every number of both.
THEOREM ConsumerInvariance == ConsumerSpec => []CInv
<1> QED
  BY ConsumerInitInvariant, ConsumerNextInvariant, PTL DEF ConsumerSpec

\* Every state of the consumers is typed: in particular every request ends with
\* a reply of the service, a security fault, or an exception of its own.
THEOREM ConsumerTypesCorrect == ConsumerSpec => []ConsumerTypeOK
<1>1. CInv => ConsumerTypeOK
  BY DEF CInv
<1> QED
  BY <1>1, ConsumerInvariance, PTL

\* A consumer's token is about its own request and certificate, however the
\* threads of the host and the other consumers interleave.
THEOREM TokensGetHome == ConsumerSpec => []TokensReachTheirRequester
<1>1. CInv => TokensReachTheirRequester
  BY DEF CInv, ResultsFit, OutcomeFits, TokensReachTheirRequester, TokensOf
<1> QED
  BY <1>1, ConsumerInvariance, PTL

\* Only the first request of a test that replays its message gets a token.
THEOREM ReplaysGetOneToken == ConsumerSpec => []ReplayGetsOneToken
<1>1. CInv => ReplayGetsOneToken
  BY DEF CInv, ResultsFit, Replays, ReplayGetsOneToken, TokensOf
<1> QED
  BY <1>1, ConsumerInvariance, PTL

-----------------------------------------------------------------------------
(* What the tests assert.  The invariant has two more things in it: that a     *)
(* consumer never has two messages under way, and when its messages were dated.*)

\* The tests, with any validity of their timestamps, and a delay long enough to
\* make the expiring message expire.
SettingsOfTheTests ==
    /\ EnableClientLog
    /\ \A p \in Plans :
          /\ \E test \in Tests, duration \in Nat : p = [test EXCEPT !.duration = duration]
          /\ p.encoder = "longDelay" => LongDelay > p.duration + ChannelClockSkew

OneUnderWay ==
    /\ \A e, f \in network : e.from = f.from => e = f
    /\ \A t, u \in Threads : Busy(t) /\ Busy(u) /\ caller[t].from = caller[u].from => t = u
    /\ \A e \in network, t \in Threads : Busy(t) => e.from # caller[t].from

\* The channel has seen no message that is still to be sent.
Unsent(c, number) ==
    \/ number > progress[c].number
    \/ number = progress[c].number /\ progress[c].step \in BeforeSending

SeenFits ==
    \A c \in Consumers, number \in Numbers :
        Unsent(c, number) => \A s \in seen : s.id # <<c, number>>

\* Who has a client log file open is writing it.
ClientLogsOwned ==
    \A f \in {SentRequest, SentRequestModified, ReceivedResponse} :
        clientWriter[f] # NoThread =>
            progress[clientWriter[f]].writing /\ f = FileOf[progress[clientWriter[f]].step]

\* The message of request number as consumer c dated it at some time.
Dated(c, number, clock) == SignedAt(c, number, plan[c], clock)

\* A replaying test sends the message of its first request twice.
NumberSent(c, number) == IF Replays(c) THEN 1 ELSE number

Damaged(c, m) == IF plan[c].encoder = "tamper" THEN Tampered(m) ELSE m

\* A message on its way: when it was dated, that it has slept as long as it should,
\* and that the channel does not know it yet unless it is a replay.
EntryDue(e) ==
    /\ e.number = progress[e.from].number
    /\ \E clock \in 0..now :
          /\ e.message = Damaged(e.from, Dated(e.from, NumberSent(e.from, e.number), clock))
          /\ plan[e.from].encoder = "longDelay" => now >= clock + LongDelay
    /\ e.number = 1 \/ ~Replays(e.from) => ~Replayed(e.message)

OthersThan(c) == \E d \in Consumers : d # c

ServiceDue(t) ==
    LET c == caller[t].from
    IN /\ call[t].stage \in {"received", "loggingRequest"} => EnableSoapMessageLog
       /\ Busy(t) =>
             /\ caller[t].number = progress[c].number
             /\ plan[c].encoder \notin {"tamper", "longDelay"}
             /\ call[t].message.wellFormed = ~(plan[c].clearsBody /\ EnableClientLog)
             /\ Lost(call[t]) => EnableSoapMessageLog /\ (DiskMayFail \/ OthersThan(c))

ProgressDue(c) ==
    LET p == progress[c]
    IN /\ p.step \in BeforeSending \cup {"logResponse"} => c \notin UnderWay
       /\ p.step \in {"encode", "asleep"} =>
             \E clock \in 0..now :
                /\ p.message = Dated(c, p.number, clock)
                /\ p.step = "asleep" =>
                      /\ plan[c].encoder \in {"shortDelay", "longDelay"}
                      /\ plan[c].encoder = "longDelay" => p.wake >= clock + LongDelay
       /\ Replays(c) /\ previous[c] # Nothing =>
             \E clock \in 0..now : previous[c] = Dated(c, 1, clock)
       /\ p.step = "logResponse" => EndsAsAsserted(c, p.number, p.response)

ResultsDue(c) == \A r \in results[c] : EndsAsAsserted(c, r.number, r.outcome)

TestInv ==
    /\ DueInv
    /\ OneUnderWay
    /\ SeenFits
    /\ ClientLogsOwned
    /\ \A e \in network : EntryDue(e)
    /\ \A t \in Threads : ServiceDue(t)
    /\ \A c \in Consumers : ProgressDue(c) /\ ResultsDue(c)

-----------------------------------------------------------------------------
(* What the tests expect is what TokenIssuing says is due.                    *)

\* What a message that names no lifetime ends with, in the order of the checks.
Due(m) ==
    CASE ~m.wellFormed -> "InvalidRequest"
      [] m.wellFormed /\ m.rst.appliesTo = "missing" -> "5050"
      [] m.wellFormed /\ Promise!NoConnection(m) -> "5002"
      [] Promise!Scoped(m) /\ Promise!NoMappedUser(m) -> "5607"
      [] Promise!Scoped(m) /\ ~Promise!NoMappedUser(m) /\ Promise!NoClaims(m) -> "5015"
      [] OTHER -> IF Promise!Unreadable(m) THEN "Sender"
                  ELSE IF Promise!Nameless(m) THEN "5050" ELSE "token"

\* A request that names no lifetime.
Unhurried(m) == m.rst.lifetime = [created |-> Unset, expires |-> Unset]

\* It gets the usual one, which the service always accepts.
LEMMA UsualLifetimeIsAccepted ==
    ASSUME NEW m, Unhurried(m), NEW clock \in Nat
    PROVE  Promise!Acceptable(Promise!Asked(m, clock), clock)
<1> DEFINE period == Promise!Asked(m, clock)
<1>1. period.notBefore = clock /\ period.notOnOrAfter = clock + DefaultTokenLifetime
  BY DEF Unhurried, Promise!Asked, Promise!Unset, Unset
<1>2. \A p : p.notBefore = clock /\ p.notOnOrAfter = clock + DefaultTokenLifetime =>
               Promise!Acceptable(p, clock)
  BY StsTokenAssumption DEF Promise!Acceptable
<1> HIDE DEF period
<1> QED
  BY <1>1, <1>2 DEF period

\* The promise leaves no choice: token or fault, and which fault, is decided by
\* the message.
LEMMA DueIsDetermined ==
    ASSUME NEW m, NEW reply, NEW latest \in Nat, Promise!ReplyIsDue(m, reply, latest),
           Unhurried(m)
    PROVE  Verdict(reply) = Due(m)
<1>1. CASE reply.kind = "token" /\ Promise!TokenIsDue(m, reply, latest)
  BY <1>1 DEF Promise!TokenIsDue, Verdict, Due, Promise!Scoped, Promise!Refusable,
              Promise!NoConnection
<1>2. CASE reply.kind = "fault" /\ Promise!FaultIsDue(m, reply.code, latest)
  <2>1. Verdict(reply) = reply.code
    BY <1>2 DEF Verdict
  <2>2. ~(Promise!Unreadable(m) /\ Promise!Nameless(m))
    BY DEF Promise!Unreadable, Promise!Nameless
  <2>3. \A clock \in 0 .. latest : Promise!Acceptable(Promise!Asked(m, clock), clock)
    BY UsualLifetimeIsAccepted
  <2> QED
    BY <1>2, <2>1, <2>2, <2>3
       DEF Promise!FaultIsDue, Due, Promise!Scoped, Promise!Refusable, Promise!NoConnection
<1> QED
  BY <1>1, <1>2 DEF Promise!ReplyIsDue

\* The checks in their order, for the requests the tests send.
LEMMA DueByTheChecks ==
    ASSUME NEW m
    PROVE  /\ ~m.wellFormed => Due(m) = "InvalidRequest"
           /\ m.wellFormed /\ m.rst.appliesTo = "noconnectionfound" => Due(m) = "5002"
           /\ m.wellFormed /\ m.rst.appliesTo \in {"service", "bootstrap"} =>
                 /\ m.certificate = "stsService" => Due(m) = "5607"
                 /\ m.certificate # "stsService" /\ m.rst.claims = {} => Due(m) = "5015"
                 /\ /\ m.certificate # "stsService" /\ m.rst.claims # {}
                    /\ m.rst.onBehalfOf.kind \in {"none", "x509", "saml2"}
                    /\ m.rst.onBehalfOf.who # "none" \/ m.rst.onBehalfOf.kind = "none"
                    => Due(m) = "token"
<1> USE DEF Due, Promise!Scoped, Promise!Refusable, Promise!NoConnection,
            Promise!NoMappedUser, Promise!NoClaims, Promise!Unreadable, Promise!Nameless
<1>1. CASE ~m.wellFormed
  BY <1>1
<1>2. CASE m.wellFormed /\ m.rst.appliesTo = "noconnectionfound"
  BY <1>2
<1>3. CASE /\ m.wellFormed /\ m.rst.appliesTo \in {"service", "bootstrap"}
           /\ m.certificate = "stsService" \/ m.rst.claims = {}
  BY <1>3
<1>4. CASE /\ m.wellFormed /\ m.rst.appliesTo \in {"service", "bootstrap"}
           /\ m.certificate # "stsService" /\ m.rst.claims # {}
  BY <1>4
<1> QED
  BY <1>1, <1>2, <1>3, <1>4

\* A request from a certificate the service knows, and one that expects what is due
\* to its message.
Usual(request) ==
    /\ request.certificate \in {"client", "onBehalfOf", "stsService"}
    /\ Unhurried(request)

ExpectsItsDue(request, wellFormed) ==
    \A m : /\ m.certificate = request.certificate /\ m.rst = request.rst
           /\ m.wellFormed = wellFormed
           => Due(m) \in request.expects

Misshapen == [ARequest EXCEPT !.expects = FaultCodes]

OfACertificate ==
    [ARequest EXCEPT !.rst.onBehalfOf = [kind |-> "x509", who |-> "onBehalfOf"]]

OfABootstrapToken ==
    [ARequest EXCEPT !.rst.onBehalfOf =
        [kind |-> "saml2", who |-> GetSubjectNameId(GenerateBootstrapToken.certificate)]]

LEMMA TheRequest ==
    /\ ARequest.certificate = "client" /\ ARequest.expects = {"token"}
    /\ ARequest.rst.appliesTo = "service" /\ ARequest.rst.claims = {"cvr"}
    /\ ARequest.rst.onBehalfOf.kind = "none"
    /\ ARequest.rst.lifetime = [created |-> Unset, expires |-> Unset]
  BY DEF ARequest, NoOnBehalfOf

LEMMA UsualRequests ==
    /\ Usual(ARequest) /\ Usual(Refused)
    /\ Usual(ReceiveConnectionNotFoundError) /\ Usual(FailedBecauseOfAuthentication)
    /\ Usual(FailedBecauseOfInvaidRst) /\ Usual(GenerateBootstrapToken)
    /\ Usual(OfACertificate) /\ Usual(OfABootstrapToken)
    /\ Usual(Misshapen)
<1> USE DEF ARequest, Usual, Unhurried
<1>1. Usual(ARequest) /\ Usual(Refused) /\ Usual(Misshapen)
  BY DEF Refused, Misshapen
<1>2. Usual(ReceiveConnectionNotFoundError) /\ Usual(FailedBecauseOfAuthentication)
  BY DEF ReceiveConnectionNotFoundError, FailedBecauseOfAuthentication
<1>3. Usual(FailedBecauseOfInvaidRst) /\ Usual(GenerateBootstrapToken)
  BY DEF FailedBecauseOfInvaidRst, GenerateBootstrapToken
<1>4. Usual(OfACertificate) /\ Usual(OfABootstrapToken)
  BY DEF OfACertificate, OfABootstrapToken
<1> QED
  BY <1>1, <1>2, <1>3, <1>4

LEMMA RequestsExpectTheirDue ==
    /\ ExpectsItsDue(ARequest, TRUE)
    /\ ExpectsItsDue(ReceiveConnectionNotFoundError, TRUE)
    /\ ExpectsItsDue(FailedBecauseOfAuthentication, TRUE)
    /\ ExpectsItsDue(FailedBecauseOfInvaidRst, TRUE)
    /\ ExpectsItsDue(GenerateBootstrapToken, TRUE)
    /\ ExpectsItsDue(OfACertificate, TRUE)
    /\ ExpectsItsDue(OfABootstrapToken, TRUE)
    /\ ExpectsItsDue(Misshapen, FALSE)
<1>1. ExpectsItsDue(ARequest, TRUE)
  BY TheRequest, DueByTheChecks DEF ExpectsItsDue
<1>2. ExpectsItsDue(ReceiveConnectionNotFoundError, TRUE)
  <2>1. /\ ReceiveConnectionNotFoundError.rst.appliesTo = "noconnectionfound"
        /\ ReceiveConnectionNotFoundError.expects = {"5002"}
    BY DEF ReceiveConnectionNotFoundError, ARequest
  <2> QED
    BY <2>1, DueByTheChecks DEF ExpectsItsDue
<1>3. ExpectsItsDue(FailedBecauseOfAuthentication, TRUE)
  <2>1. /\ FailedBecauseOfAuthentication.certificate = "stsService"
        /\ FailedBecauseOfAuthentication.rst.appliesTo = "service"
        /\ FailedBecauseOfAuthentication.expects = {"5607"}
    BY DEF FailedBecauseOfAuthentication, ARequest
  <2> QED
    BY <2>1, DueByTheChecks DEF ExpectsItsDue
<1>4. ExpectsItsDue(FailedBecauseOfInvaidRst, TRUE)
  <2>1. /\ FailedBecauseOfInvaidRst.certificate = "client"
        /\ FailedBecauseOfInvaidRst.rst.appliesTo = "service"
        /\ FailedBecauseOfInvaidRst.rst.claims = {}
        /\ FailedBecauseOfInvaidRst.expects = {"5015"}
    BY DEF FailedBecauseOfInvaidRst, ARequest
  <2> QED
    BY <2>1, DueByTheChecks DEF ExpectsItsDue
<1>5. ExpectsItsDue(GenerateBootstrapToken, TRUE)
  <2>1. /\ GenerateBootstrapToken.certificate = "onBehalfOf"
        /\ GenerateBootstrapToken.rst.appliesTo = "bootstrap"
        /\ GenerateBootstrapToken.rst.claims = {"cvr"}
        /\ GenerateBootstrapToken.rst.onBehalfOf.kind = "none"
        /\ GenerateBootstrapToken.expects = {"token"}
    BY DEF GenerateBootstrapToken, ARequest, NoOnBehalfOf
  <2> QED
    BY <2>1, DueByTheChecks DEF ExpectsItsDue
<1>6. ExpectsItsDue(OfACertificate, TRUE)
  <2>1. /\ OfACertificate.certificate = "client"
        /\ OfACertificate.rst.appliesTo = "service"
        /\ OfACertificate.rst.claims = {"cvr"}
        /\ OfACertificate.rst.onBehalfOf.kind = "x509"
        /\ OfACertificate.rst.onBehalfOf.who # "none"
        /\ OfACertificate.expects = {"token"}
    BY DEF OfACertificate, ARequest
  <2> QED
    BY <2>1, DueByTheChecks DEF ExpectsItsDue
<1>7. ExpectsItsDue(OfABootstrapToken, TRUE)
  <2>1. /\ OfABootstrapToken.certificate = "client"
        /\ OfABootstrapToken.rst.appliesTo = "service"
        /\ OfABootstrapToken.rst.claims = {"cvr"}
        /\ OfABootstrapToken.rst.onBehalfOf.kind = "saml2"
        /\ OfABootstrapToken.rst.onBehalfOf.who # "none"
        /\ OfABootstrapToken.expects = {"token"}
    BY DEF OfABootstrapToken, GetSubjectNameId, ARequest
  <2> QED
    BY <2>1, DueByTheChecks DEF ExpectsItsDue
<1>8. ExpectsItsDue(Misshapen, FALSE)
  <2>1. Misshapen.expects = FaultCodes
    BY DEF ARequest, Misshapen
  <2> QED
    BY <2>1, DueByTheChecks DEF ExpectsItsDue, FaultCodes
<1> QED
  BY <1>1, <1>2, <1>3, <1>4, <1>5, <1>6, <1>7, <1>8

\* The security fault a test may provoke with its encoder.
Provoked(p, number) ==
    p.encoder \in {"tamper", "longDelay"} \/ (p.encoder = "replay" /\ number # 1)

\* Every test expects what is due to each of its messages, or the security fault its
\* encoder provokes.
LEMMA PlanExpectsWhatIsDue ==
    ASSUME SettingsOfTheTests, NEW p \in Plans, NEW number \in 1 .. Len(p.requests)
    PROVE  /\ Usual(p.requests[number])
           /\ IF Provoked(p, number) THEN p.requests[number].expects = {"security fault"}
              ELSE ExpectsItsDue(p.requests[number], ~p.clearsBody)
<1> PICK test \in Tests, duration \in Nat : p = [test EXCEPT !.duration = duration]
  BY DEF SettingsOfTheTests
<1>1. Refused.expects = {"security fault"}
  BY DEF Refused, ARequest
<1>2. CASE test = HandleCommonErrorsWhenIssueToken
  <2>1. /\ p.encoder = "text" /\ p.clearsBody = FALSE
        /\ p.requests = <<ReceiveConnectionNotFoundError, FailedBecauseOfAuthentication,
                          FailedBecauseOfInvaidRst>>
    BY <1>2 DEF HandleCommonErrorsWhenIssueToken, ATest
  <2>2. \/ p.requests[number] = ReceiveConnectionNotFoundError
        \/ p.requests[number] = FailedBecauseOfAuthentication
        \/ p.requests[number] = FailedBecauseOfInvaidRst
    BY <2>1
  <2>3. (~p.clearsBody) = TRUE /\ ~Provoked(p, number)
    BY <2>1 DEF Provoked
  <2> QED
    BY <2>2, <2>3, UsualRequests, RequestsExpectTheirDue
<1>3. CASE test = SendRstAndThenExecuteServiceServiceSuccessfully
  <2>1. /\ p.encoder = "text" /\ p.clearsBody = FALSE
        /\ p.requests = <<ARequest>>
    BY <1>3 DEF SendRstAndThenExecuteServiceServiceSuccessfully, ATest
  <2>2. p.requests[number] = ARequest
    BY <2>1
  <2>3. (~p.clearsBody) = TRUE /\ ~Provoked(p, number)
    BY <2>1 DEF Provoked
  <2> QED
    BY <2>2, <2>3, UsualRequests, RequestsExpectTheirDue
<1>4. CASE test = SendRstWithWrongFormatWillReturnErrorResponse
  <2>1. /\ p.encoder = "text" /\ p.clearsBody = TRUE
        /\ p.requests = <<Misshapen>>
    BY <1>4 DEF SendRstWithWrongFormatWillReturnErrorResponse, ATest, Misshapen
  <2>2. p.requests[number] = Misshapen
    BY <2>1
  <2>3. (~p.clearsBody) = FALSE /\ ~Provoked(p, number)
    BY <2>1 DEF Provoked
  <2> QED
    BY <2>2, <2>3, UsualRequests, RequestsExpectTheirDue
<1>5. CASE test = SendRstWithInvalidSignatureWillReturnErrorResponse
  <2>1. /\ p.encoder = "tamper" /\ p.clearsBody = FALSE
        /\ p.requests = <<Refused>>
    BY <1>5 DEF SendRstWithInvalidSignatureWillReturnErrorResponse, ATest
  <2>2. p.requests[number] = Refused /\ Provoked(p, number)
    BY <2>1 DEF Provoked
  <2> QED
    BY <1>1, <2>2, UsualRequests
<1>6. CASE test = SendRstTwiceWithDifferentMessagesWillBeAccepted
  <2>1. /\ p.encoder = "record" /\ p.clearsBody = FALSE
        /\ p.requests = <<ARequest, ARequest>>
    BY <1>6 DEF SendRstTwiceWithDifferentMessagesWillBeAccepted, ATest
  <2>2. p.requests[number] = ARequest
    BY <2>1
  <2>3. (~p.clearsBody) = TRUE /\ ~Provoked(p, number)
    BY <2>1 DEF Provoked
  <2> QED
    BY <2>2, <2>3, UsualRequests, RequestsExpectTheirDue
<1>7. CASE test = ReplayRstWillReturnErrorResponse
  <2>1. /\ p.encoder = "replay" /\ p.clearsBody = FALSE
        /\ p.requests = <<ARequest, Refused>>
    BY <1>7 DEF ReplayRstWillReturnErrorResponse, ATest
  <2>2. \/ number = 1 /\ p.requests[number] = ARequest /\ ~Provoked(p, number)
        \/ p.requests[number] = Refused /\ Provoked(p, number)
    BY <2>1 DEF Provoked
  <2>3. (~p.clearsBody) = TRUE
    BY <2>1
  <2> QED
    BY <1>1, <2>2, <2>3, UsualRequests, RequestsExpectTheirDue
<1>8. CASE test = SendRstWithValidTimestampWillNotThrowError
  <2>1. /\ p.encoder = "shortDelay" /\ p.clearsBody = FALSE
        /\ p.requests = <<ARequest>>
    BY <1>8 DEF SendRstWithValidTimestampWillNotThrowError, ATest
  <2>2. p.requests[number] = ARequest
    BY <2>1
  <2>3. (~p.clearsBody) = TRUE /\ ~Provoked(p, number)
    BY <2>1 DEF Provoked
  <2> QED
    BY <2>2, <2>3, UsualRequests, RequestsExpectTheirDue
<1>9. CASE test = SendExpiredRstWillReturnErrorResponse
  <2>1. /\ p.encoder = "longDelay" /\ p.clearsBody = FALSE
        /\ p.requests = <<Refused>>
    BY <1>9 DEF SendExpiredRstWillReturnErrorResponse, ATest
  <2>2. p.requests[number] = Refused /\ Provoked(p, number)
    BY <2>1 DEF Provoked
  <2> QED
    BY <1>1, <2>2, UsualRequests
<1>10. CASE test = SendRstWithProxyOnBehalfOfSuccessfully
  <2>1. /\ p.encoder = "text" /\ p.clearsBody = FALSE
        /\ p.requests = <<OfACertificate>>
    BY <1>10 DEF SendRstWithProxyOnBehalfOfSuccessfully, ATest, OfACertificate
  <2>2. p.requests[number] = OfACertificate
    BY <2>1
  <2>3. (~p.clearsBody) = TRUE /\ ~Provoked(p, number)
    BY <2>1 DEF Provoked
  <2> QED
    BY <2>2, <2>3, UsualRequests, RequestsExpectTheirDue
<1>11. CASE test = SendRstWithNormalOnBehalfOfSuccessfully
  <2>1. /\ p.encoder = "text" /\ p.clearsBody = FALSE
        /\ p.requests = <<GenerateBootstrapToken, OfABootstrapToken>>
    BY <1>11 DEF SendRstWithNormalOnBehalfOfSuccessfully, ATest, OfABootstrapToken
  <2>2. p.requests[number] = GenerateBootstrapToken \/ p.requests[number] = OfABootstrapToken
    BY <2>1
  <2>3. (~p.clearsBody) = TRUE /\ ~Provoked(p, number)
    BY <2>1 DEF Provoked
  <2> QED
    BY <2>2, <2>3, UsualRequests, RequestsExpectTheirDue
<1> QED
  BY <1>2, <1>3, <1>4, <1>5, <1>6, <1>7, <1>8, <1>9, <1>10, <1>11 DEF Tests

-----------------------------------------------------------------------------
(* What requests end with.                                                    *)

LEMMA PlanTypes ==
    ASSUME CInv, NEW c \in Consumers
    PROVE  /\ plan[c] \in Plans /\ plan[c].duration \in Nat
           /\ now \in Nat /\ ChannelClockSkew \in Nat /\ LongDelay \in Nat
  BY ProgressTypes, StsHostAssumption, StsConsumerAssumption DEF CInv, IInv, TypeOK

\* A test's request that was dealt with ends as it does however late it is.
LEMMA EndsStay ==
    ASSUME CInv, NEW c \in Consumers, NEW number, NEW outcome,
           EndsAsAsserted(c, number, outcome), UNCHANGED plan, now' \in Nat, now <= now'
    PROVE  EndsAsAsserted(c, number, outcome)'
<1>1. now > plan[c].duration + ChannelClockSkew => now' > plan[c].duration + ChannelClockSkew
  BY PlanTypes
<1> QED
  BY <1>1 DEF EndsAsAsserted, RequestOf

\* The channel takes no damaged, expired or replayed message of a test.
LEMMA AcceptedIsUnspoilt ==
    ASSUME CInv, SettingsOfTheTests, NEW e \in network, EntryDue(e),
           Authentic(e.message)
    PROVE  plan[e.from].encoder \notin {"tamper", "longDelay"}
<1> DEFINE c == e.from
<1>1. /\ c \in Consumers /\ e.number \in Numbers
      /\ e.message.intact /\ Fresh(e.message)
  BY DEF CInv, ConsumerTypeOK, Authentic
<1>2. PICK clock \in 0..now :
          /\ e.message = Damaged(c, Dated(c, NumberSent(c, e.number), clock))
          /\ plan[c].encoder = "longDelay" => now >= clock + LongDelay
  BY DEF EntryDue
<1>3. plan[c].encoder # "tamper"
  <2> SUFFICES ASSUME plan[c].encoder = "tamper" PROVE FALSE
    OBVIOUS
  <2>1. e.message = Tampered(Dated(c, NumberSent(c, e.number), clock))
    BY <1>2 DEF Damaged
  <2>2. e.message.intact = FALSE
    BY <2>1 DEF Tampered, Dated, SignedAt
  <2> QED
    BY <1>1, <2>2
<1>4. plan[c].encoder # "longDelay"
  <2> SUFFICES ASSUME plan[c].encoder = "longDelay" PROVE FALSE
    OBVIOUS
  <2>1. e.message = Dated(c, NumberSent(c, e.number), clock)
    BY <1>2 DEF Damaged
  <2>2. e.message.expires = clock + plan[c].duration
    BY <2>1 DEF Dated, SignedAt
  <2>3. now >= clock + LongDelay
    BY <1>2
  <2>4. LongDelay > plan[c].duration + ChannelClockSkew
    BY <1>1, PlanTypes DEF SettingsOfTheTests
  <2>5. now <= clock + plan[c].duration + ChannelClockSkew
    BY <1>1, <2>2 DEF Fresh
  <2>6. clock \in Nat
    BY <1>1, PlanTypes
  <2> QED
    BY <1>1, <2>3, <2>4, <2>5, <2>6, PlanTypes
<1> QED
  BY <1>3, <1>4

\* A message the channel refuses was to be refused, or has come late.
LEMMA RefusalIsDue ==
    ASSUME CInv, SettingsOfTheTests, NEW e \in network, EntryDue(e),
           ~Authentic(e.message)
    PROVE  EndsAsAsserted(e.from, e.number, SecurityFault)
<1> DEFINE c == e.from
           m == e.message
<1>1. /\ c \in Consumers /\ m \in Messages /\ plan[c] \in Plans
      /\ e.number \in 1 .. Len(plan[c].requests)
  BY ProgressTypes DEF CInv, ConsumerTypeOK, EntryFits, Asking
<1>2. PICK clock \in 0..now : m = Damaged(c, Dated(c, NumberSent(c, e.number), clock))
  BY DEF EntryDue
<1>3. Verdict(SecurityFault) = "security fault"
  BY DEF Verdict, SecurityFault
<1>4. clock \in Nat /\ clock <= now
  BY <1>1, PlanTypes
<1>5. /\ Usual(RequestOf(c, e.number))
      /\ Provoked(plan[c], e.number) => RequestOf(c, e.number).expects = {"security fault"}
  BY <1>1, PlanExpectsWhatIsDue DEF RequestOf
<1>6. CASE Provoked(plan[c], e.number)
  BY <1>3, <1>5, <1>6 DEF EndsAsAsserted
<1>7. CASE ~Provoked(plan[c], e.number)
  <2>1. ~Replayed(m)
    BY <1>7 DEF EntryDue, Provoked, Replays
  <2>2. /\ m.intact = TRUE /\ m.created = clock
        /\ m.expires = clock + plan[c].duration
        /\ m.certificate = RequestOf(c, e.number).certificate
    BY <1>2, <1>7 DEF Damaged, Dated, SignedAt, NumberSent, Provoked, Replays, RequestOf
  <2>3. ~Fresh(m)
    BY <1>5, <2>1, <2>2 DEF Authentic, KnownCertificate, Usual
  <2>4. now > clock + plan[c].duration + ChannelClockSkew
    BY <1>1, <1>4, <2>2, <2>3, PlanTypes DEF Fresh
  <2>5. now > plan[c].duration + ChannelClockSkew
    BY <1>1, <1>4, <2>4, PlanTypes
  <2> QED
    BY <2>5 DEF EndsAsAsserted
<1> QED
  BY <1>6, <1>7

\* An answer of the service is the one its request calls for, or another request
\* or the disk has taken that away.
LEMMA AnswerIsDue ==
    ASSUME CInv, SettingsOfTheTests, NEW t \in Threads, Busy(t), ServiceDue(t), CallIsDue(t),
           call[t].stage \in Answering
    PROVE  EndsAsAsserted(caller[t].from, caller[t].number, call[t].reply)
<1> DEFINE c == caller[t].from
           m == call[t].message
           p == plan[c]
           reply == call[t].reply
<1> DEFINE number == caller[t].number
<1>1. /\ c \in Consumers /\ number \in 1 .. Len(plan[c].requests)
      /\ Owned(c, number, m)
      /\ Replays(c) => number = 1
  BY DEF CInv, ServiceFits, Asking
<1>2. /\ p.encoder \notin {"tamper", "longDelay"}
      /\ m.wellFormed = ~(p.clearsBody /\ EnableClientLog)
      /\ Lost(call[t]) => EnableSoapMessageLog /\ (DiskMayFail \/ OthersThan(c))
  BY DEF ServiceDue
<1>3. CASE Lost(call[t])
  <2>1. Verdict(reply) \in {"5050", "fault of last resort"}
    BY <1>3 DEF CallIsDue, Promise!Disturbance, Verdict
  <2> QED
    BY <1>2, <1>3, <2>1 DEF EndsAsAsserted, OthersThan
<1>4. CASE ~Lost(call[t])
  <2>1. Promise!ReplyIsDue(m, reply, now) /\ now \in Nat
    BY <1>1, <1>4, PlanTypes DEF CallIsDue
  <2>2. /\ m.certificate = RequestOf(c, number).certificate
        /\ m.rst = RequestOf(c, number).rst
    BY <1>1 DEF Owned
  <2>3. m.wellFormed = ~p.clearsBody
    BY <1>2 DEF SettingsOfTheTests
  <2>4. p \in Plans /\ ~Provoked(p, number)
    BY <1>1, <1>2, PlanTypes DEF Provoked, Replays
  <2>5. /\ Usual(RequestOf(c, number))
        /\ ExpectsItsDue(RequestOf(c, number), ~p.clearsBody)
    BY <1>1, <2>4, PlanExpectsWhatIsDue DEF RequestOf
  <2> HIDE DEF p, m, reply
  <2>6. Unhurried(m) /\ Due(m) \in RequestOf(c, number).expects
    BY <2>2, <2>3, <2>5 DEF Usual, Unhurried, ExpectsItsDue
  <2>7. Verdict(reply) = Due(m)
    BY <2>1, <2>6, DueIsDetermined
  <2> QED
    BY <2>6, <2>7 DEF EndsAsAsserted, reply
<1> QED
  BY <1>3, <1>4

\* A log of a client that throws is open for another one.
LEMMA ClientLogNeedsOthers ==
    ASSUME CInv, ClientLogsOwned, NEW c \in Consumers, ClientLogThrows(c)
    PROVE  EndsAsAsserted(c, progress[c].number, Thrown("log"))
<1> DEFINE f == FileOf[progress[c].step]
<1>1. f \in {SentRequest, SentRequestModified, ReceivedResponse} /\ ~progress[c].writing
  BY DEF ClientLogThrows, Logging, FileOf
<1>2. clientWriter[f] # NoThread \/ DiskMayFail
  BY DEF ClientLogThrows, Log!LogThrows
<1>3. clientWriter[f] \in Consumers \cup {NoThread}
  BY <1>1 DEF CInv, ConsumerTypeOK, Log!LogTypeOK
<1>4. clientWriter[f] # NoThread => clientWriter[f] # c
  BY <1>1 DEF ClientLogsOwned
<1> HIDE DEF f
<1>5. DiskMayFail \/ \E d \in Consumers : d # c
  BY <1>2, <1>3, <1>4
<1> QED
  BY <1>5 DEF EndsAsAsserted

\* So is one of the host: the threads that write work for different consumers.
LEMMA HostLogNeedsOthers ==
    ASSUME CInv, OneUnderWay, NEW t \in Threads, Busy(t),
           \/ call[t].stage = "received" /\ LogThrows(t, ReceivedRequest)
           \/ call[t].stage = "replying" /\ LogThrows(t, SentResponse)
    PROVE  DiskMayFail \/ OthersThan(caller[t].from)
<1> SUFFICES ASSUME ~DiskMayFail PROVE OthersThan(caller[t].from)
  OBVIOUS
<1>1. PICK u \in Threads : call[u].stage \in {"loggingRequest", "loggingReply"}
  <2>1. /\ writer \in [LogFiles -> Threads \cup {NoThread}] /\ LogOwnership
        /\ {ReceivedRequest, SentResponse} \subseteq LogFiles
    BY StsHostAssumption DEF CInv, IInv, TypeOK, LogTypeOK
  <2>2. writer[ReceivedRequest] \in Threads \/ writer[SentResponse] \in Threads
    BY <2>1 DEF LogThrows
  <2> QED
    BY <2>1, <2>2 DEF LogOwnership
<1>2. u # t /\ Busy(u)
  BY <1>1 DEF Busy
<1>3. caller[u].from # caller[t].from /\ caller[u].from \in Consumers
  BY <1>2 DEF OneUnderWay, CInv, ServiceFits
<1> QED
  BY <1>3 DEF OthersThan

-----------------------------------------------------------------------------
(* What a step leaves as it is.                                               *)

\* Time goes on, and no consumer takes up another test.
TimeFrame ==
    /\ UNCHANGED plan
    /\ now' \in Nat
    /\ now <= now'

LEMMA DatesStay ==
    ASSUME CInv, TimeFrame
    PROVE  /\ 0..now \subseteq 0..now'
           /\ \A c, number, clock : Dated(c, number, clock)' = Dated(c, number, clock)
           /\ \A c, m : Damaged(c, m)' = Damaged(c, m)
           /\ \A c : Replays(c)' = Replays(c)
           /\ \A c, number : NumberSent(c, number)' = NumberSent(c, number)
<1>1. now \in Nat
  BY DEF CInv, IInv, TypeOK
<1>2. 0..now \subseteq 0..now'
  BY <1>1 DEF TimeFrame
<1>3. \A c, number, clock : Dated(c, number, clock)' = Dated(c, number, clock)
  BY DEF Dated, TimeFrame
<1> QED
  BY <1>2, <1>3 DEF TimeFrame, Damaged, Replays, NumberSent

LEMMA EntryStays ==
    ASSUME CInv, TimeFrame, NEW e, EntryDue(e),
           progress'[e.from].number = progress[e.from].number,
           Replayed(e.message)' => Replayed(e.message)
    PROVE  EntryDue(e)'
<1>1. PICK clock \in 0..now :
          /\ e.message = Damaged(e.from, Dated(e.from, NumberSent(e.from, e.number), clock))
          /\ plan[e.from].encoder = "longDelay" => now >= clock + LongDelay
  BY DEF EntryDue
<1>2. clock \in Nat /\ clock \in 0..now' /\ now \in Nat /\ LongDelay \in Nat
  BY DatesStay, StsConsumerAssumption DEF CInv, IInv, TypeOK
<1>3. plan'[e.from].encoder = "longDelay" => now' >= clock + LongDelay
  BY <1>1, <1>2 DEF TimeFrame
<1>4. e.message = Damaged(e.from, Dated(e.from, NumberSent(e.from, e.number), clock))'
  <2>1. Dated(e.from, NumberSent(e.from, e.number), clock)'
           = Dated(e.from, NumberSent(e.from, e.number), clock)
    BY DatesStay
  <2> QED
    BY <1>1, <2>1 DEF Damaged, TimeFrame
<1>5. /\ e.number = progress'[e.from].number
      /\ e.number = 1 \/ ~Replays(e.from)' => ~Replayed(e.message)'
  BY DatesStay DEF EntryDue
<1> QED
  BY <1>2, <1>3, <1>4, <1>5 DEF EntryDue

LEMMA ServiceStaysDue ==
    ASSUME UNCHANGED plan, NEW t \in Threads, ServiceDue(t),
           caller'[t] = caller[t], call'[t] = call[t],
           Busy(t) => progress'[caller[t].from].number = progress[caller[t].from].number
    PROVE  ServiceDue(t)'
  BY DEF ServiceDue, Busy, Lost, OthersThan

LEMMA ProgressStaysDue ==
    ASSUME CInv, TimeFrame, NEW c \in Consumers, ProgressDue(c),
           progress'[c] = progress[c], previous'[c] = previous[c],
           c \in UnderWay' => c \in UnderWay
    PROVE  ProgressDue(c)'
<1> DEFINE p == progress[c]
<1>1. ASSUME p.step \in {"encode", "asleep"}
      PROVE  \E clock \in 0..now' :
                /\ p.message = Dated(c, p.number, clock)'
                /\ p.step = "asleep" =>
                      /\ plan'[c].encoder \in {"shortDelay", "longDelay"}
                      /\ plan'[c].encoder = "longDelay" => p.wake >= clock + LongDelay
  BY <1>1, DatesStay DEF ProgressDue, TimeFrame
<1>2. ASSUME Replays(c)', previous'[c] # Nothing
      PROVE  \E clock \in 0..now' : previous'[c] = Dated(c, 1, clock)'
  BY <1>2, DatesStay DEF ProgressDue
<1>3. ASSUME p.step = "logResponse" PROVE EndsAsAsserted(c, p.number, p.response)'
  <2>1. EndsAsAsserted(c, p.number, p.response)
    BY <1>3 DEF ProgressDue
  <2> HIDE DEF p
  <2>2. ASSUME NEW n, NEW o, EndsAsAsserted(c, n, o) PROVE EndsAsAsserted(c, n, o)'
    BY <2>2, EndsStay DEF TimeFrame
  <2> QED
    BY <2>1, <2>2 DEF p
<1> QED
  BY <1>1, <1>2, <1>3 DEF ProgressDue

LEMMA ResultsStayDue ==
    ASSUME CInv, TimeFrame, NEW c \in Consumers, ResultsDue(c), results'[c] = results[c]
    PROVE  ResultsDue(c)'
  BY EndsStay DEF ResultsDue, TimeFrame

-----------------------------------------------------------------------------
(* A consumer goes on.                                                        *)

\* What the rest of TestInv needs of a step of the consumers: no request is taken
\* back, nor passed over while its message is under way.
ConsumersKeep ==
    /\ ClientLogsOwned'
    /\ \A c \in Consumers :
          /\ ProgressDue(c)' /\ ResultsDue(c)'
          /\ \A number \in Numbers : Unsent(c, number)' => Unsent(c, number)
          /\ c \in UnderWay' => progress'[c].number = progress[c].number

LEMMA OthersKeep ==
    ASSUME CInv, TestInv, TimeFrame, NEW c \in Consumers,
           \A d \in Consumers : d # c => /\ progress'[d] = progress[d]
                                        /\ previous'[d] = previous[d]
                                        /\ results'[d] = results[d],
           UnderWay' \subseteq UnderWay \cup {c},
           ClientLogsOwned', ProgressDue(c)', ResultsDue(c)',
           \A number \in Numbers : Unsent(c, number)' => Unsent(c, number),
           c \in UnderWay' => progress'[c].number = progress[c].number
    PROVE  ConsumersKeep
<1> SUFFICES ASSUME NEW d \in Consumers
             PROVE  /\ ProgressDue(d)' /\ ResultsDue(d)'
                    /\ \A number \in Numbers : Unsent(d, number)' => Unsent(d, number)
                    /\ d \in UnderWay' => progress'[d].number = progress[d].number
  BY DEF ConsumersKeep
<1>1. CASE d = c
  BY <1>1
<1>2. CASE d # c
  <2>1. /\ progress'[d] = progress[d] /\ previous'[d] = previous[d]
        /\ results'[d] = results[d]
        /\ d \in UnderWay' => d \in UnderWay
    BY <1>2
  <2>2. ProgressDue(d) /\ ResultsDue(d)
    BY DEF TestInv
  <2>3. ProgressDue(d)' /\ ResultsDue(d)'
    BY <2>1, <2>2, ProgressStaysDue, ResultsStayDue
  <2>4. \A number \in Numbers : Unsent(d, number)' => Unsent(d, number)
    BY <2>1 DEF Unsent
  <2> QED
    BY <2>1, <2>3, <2>4
<1> QED
  BY <1>1, <1>2

\* Consumers that see nothing of a step.
LEMMA AllKeep ==
    ASSUME CInv, TestInv, TimeFrame, UNCHANGED <<progress, previous, results, clientWriter>>,
           UnderWay' \subseteq UnderWay
    PROVE  ConsumersKeep
<1>1. ClientLogsOwned'
  BY DEF TestInv, ClientLogsOwned
<1>2. \A c \in Consumers : ProgressDue(c) /\ ResultsDue(c)
  BY DEF TestInv
<1>3. \A c \in Consumers : ProgressDue(c)' /\ ResultsDue(c)'
  BY <1>2, ProgressStaysDue, ResultsStayDue
<1>4. \A c \in Consumers, number \in Numbers : Unsent(c, number)' => Unsent(c, number)
  BY DEF Unsent
<1> QED
  BY <1>1, <1>3, <1>4 DEF ConsumersKeep

\* The consumer goes on with the same request.
LEMMA ProceedKeeps ==
    ASSUME CInv, TestInv, TimeFrame, NEW c \in Consumers, NEW p \in ProgressType,
           Proceed(c, p), p.number = progress[c].number,
           p.step \in BeforeSending => progress[c].step \in BeforeSending,
           UNCHANGED results, \A d \in Consumers : d # c => previous'[d] = previous[d],
           UnderWay' \subseteq UnderWay \cup {c}, ClientLogsOwned', ProgressDue(c)'
    PROVE  ConsumersKeep
<1>1. progress' = [progress EXCEPT ![c] = p] /\ progress \in [Consumers -> ProgressType]
  BY ProgressTypes DEF Proceed
<1>2. progress'[c] = p /\ \A d \in Consumers : d # c => progress'[d] = progress[d]
  BY <1>1
<1>3. ResultsDue(c)'
  BY ResultsStayDue DEF TestInv
<1>4. \A number \in Numbers : Unsent(c, number)' => Unsent(c, number)
  BY <1>2 DEF Unsent
<1> QED
  BY <1>2, <1>3, <1>4, OthersKeep

LEMMA NothingThrownIsAsserted ==
    ASSUME CInv, NEW c \in Consumers, NEW e \in {"log", "timeout"}
    PROVE  ~AsAsserted(c, Thrown(e))
<1>1. Thrown(e) \in Outcomes /\ Thrown(e).kind = "thrown"
  BY DEF Outcomes, Thrown
<1> QED
  BY <1>1, GoingOn

\* The request ends as its test asserts.
LEMMA FinishKeeps ==
    ASSUME CInv, TestInv, TimeFrame, NEW c \in Consumers, NEW outcome,
           Finish(c, outcome), EndsAsAsserted(c, progress[c].number, outcome),
           UNCHANGED previous, UnderWay' \subseteq UnderWay,
           AsAsserted(c, outcome) => c \notin UnderWay',
           ClientLogsOwned'
    PROVE  ConsumersKeep
<1> DEFINE next == IF AsAsserted(c, outcome) /\ progress[c].number < Len(plan[c].requests)
                   THEN [FirstRequest EXCEPT !.number = progress[c].number + 1]
                   ELSE [progress[c] EXCEPT !.step = "done", !.writing = FALSE]
           r == [number |-> progress[c].number, outcome |-> outcome]
<1>1. /\ results' = [results EXCEPT ![c] = @ \cup {r}]
      /\ Proceed(c, next)
  BY DEF Finish
<1>2. /\ progress[c] \in ProgressType /\ progress \in [Consumers -> ProgressType]
      /\ progress[c].number \in Nat
      /\ ProgressDue(c) /\ ResultsDue(c)
  BY ProgressTypes, NumbersAreNatural DEF TestInv, ProgressType
<1>3. \/ next.step = "done" /\ next.number = progress[c].number
      \/ /\ next.step \in {"logRequest", "sign"}
         /\ next.number = progress[c].number + 1 /\ AsAsserted(c, outcome)
  BY <1>2 DEF ProgressType, FirstRequest, FirstStep
<1> HIDE DEF next
<1>4. progress'[c] = next /\ \A d \in Consumers : d # c => progress'[d] = progress[d]
  BY <1>1, <1>2 DEF Proceed
<1>5. r.number = progress[c].number /\ r.outcome = outcome
  OBVIOUS
<1> HIDE DEF r
<1>6. results'[c] = results[c] \cup {r} /\ \A d \in Consumers : d # c => results'[d] = results[d]
  BY <1>1 DEF CInv, ConsumerTypeOK
<1>7. ResultsDue(c)'
  BY <1>2, <1>5, <1>6, EndsStay DEF ResultsDue, TimeFrame
<1>8. ProgressDue(c)'
  <2>1. Replays(c)' /\ previous'[c] # Nothing =>
           \E clock \in 0..now' : previous'[c] = Dated(c, 1, clock)'
    BY <1>2, DatesStay DEF ProgressDue
  <2>2. progress'[c].step \notin {"encode", "asleep", "logResponse"}
    BY <1>3, <1>4
  <2>3. progress'[c].step \in BeforeSending => c \notin UnderWay'
    BY <1>3, <1>4 DEF BeforeSending
  <2> QED
    BY <2>1, <2>2, <2>3 DEF ProgressDue
<1>9. \A number \in Numbers : Unsent(c, number)' => Unsent(c, number)
  <2>1. progress'[c].number = next.number /\ progress'[c].step = next.step
    BY <1>4
  <2>2. \A number \in Numbers : number \in Nat
    BY NumbersAreNatural
  <2>3. CASE next.step = "done" /\ next.number = progress[c].number
    BY <2>1, <2>3 DEF Unsent, BeforeSending
  <2>4. CASE next.number = progress[c].number + 1
    BY <1>2, <2>1, <2>2, <2>4 DEF Unsent
  <2> QED
    BY <1>3, <2>3, <2>4
<1>10. c \in UnderWay' => progress'[c].number = progress[c].number
  BY <1>3, <1>4
<1> QED
  BY <1>4, <1>6, <1>7, <1>8, <1>9, <1>10, OthersKeep

\* An answer reaches the request it belongs to, or nobody.
LEMMA ReceiveKeeps ==
    ASSUME CInv, TestInv, TimeFrame, NEW request, request.from \in Consumers,
           NEW response \in Outcomes, Receive(request, response),
           EndsAsAsserted(request.from, request.number, response),
           UnderWay' \subseteq UnderWay, request.from \notin UnderWay'
    PROVE  ConsumersKeep
<1> DEFINE c == request.from
<1>1. UNCHANGED <<plan, previous, clientWriter, clientLogged>>
  BY DEF Receive
<1>2. CASE progress[c].step # "wait" \/ progress[c].number # request.number
  <2>1. UNCHANGED <<progress, results>>
    BY <1>2 DEF Receive
  <2> QED
    BY <1>1, <2>1, AllKeep
<1>3. CASE progress[c].step = "wait" /\ progress[c].number = request.number
  <2>1. progress[c] \in ProgressType /\ progress \in [Consumers -> ProgressType]
        /\ ~progress[c].writing
    BY <1>3, ProgressTypes DEF ProgressFits, LogSteps, ProgressType
  <2>2. ASSUME \A d \in Consumers : d # c => progress'[d] = progress[d]
        PROVE  ClientLogsOwned'
    <3> SUFFICES ASSUME NEW f \in {SentRequest, SentRequestModified, ReceivedResponse},
                        clientWriter[f] # NoThread
                 PROVE  /\ progress'[clientWriter[f]].writing
                        /\ f = FileOf[progress'[clientWriter[f]].step]
      BY <1>1 DEF ClientLogsOwned
    <3>1. /\ progress[clientWriter[f]].writing
          /\ f = FileOf[progress[clientWriter[f]].step]
      BY DEF TestInv, ClientLogsOwned
    <3>2. clientWriter[f] \in Consumers
      BY DEF CInv, ConsumerTypeOK, Log!LogTypeOK
    <3> QED
      BY <2>1, <2>2, <3>1, <3>2
  <2>3. CASE Finish(c, response)
    <3>1. \A d \in Consumers : d # c => progress'[d] = progress[d]
      BY <2>1, <2>3 DEF Finish, Proceed
    <3> QED
      BY <1>1, <1>3, <2>2, <2>3, <3>1, FinishKeeps
  <2>4. CASE ~Finish(c, response)
    <3> DEFINE p == [progress[c] EXCEPT !.step = "logResponse", !.response = response]
    <3>1. Proceed(c, p) /\ UNCHANGED results
      BY <1>3, <2>4 DEF Receive
    <3>2. /\ p \in ProgressType /\ p.step = "logResponse" /\ p.response = response
          /\ p.number = request.number
      BY <1>3, <2>1 DEF ProgressType, Steps
    <3> HIDE DEF p
    <3>3. /\ progress'[c] = p
          /\ \A d \in Consumers : d # c => progress'[d] = progress[d]
      BY <2>1, <3>1 DEF Proceed
    <3>4. ClientLogsOwned'
      BY <2>2, <3>3
    <3>5. ProgressDue(c)'
      <4>1. Replays(c)' /\ previous'[c] # Nothing =>
               \E clock \in 0..now' : previous'[c] = Dated(c, 1, clock)'
        BY <1>1, DatesStay DEF TestInv, ProgressDue
      <4>2. EndsAsAsserted(c, request.number, response)'
        BY EndsStay DEF TimeFrame
      <4>3. /\ progress'[c].number = request.number /\ progress'[c].response = response
            /\ progress'[c].step = "logResponse"
        BY <3>2, <3>3
      <4> QED
        BY <4>1, <4>2, <4>3 DEF ProgressDue, BeforeSending
    <3>6. p.step \notin BeforeSending
      BY <3>2 DEF BeforeSending
    <3> QED
      BY <1>1, <1>3, <3>1, <3>2, <3>4, <3>5, <3>6, ProceedKeeps
  <2> QED
    BY <2>3, <2>4
<1> QED
  BY <1>2, <1>3 DEF CInv

\* Steps that bring no message into the network or to the channel.
LEMMA KeepsTests ==
    ASSUME CInv, TestInv, TimeFrame, ConsumersKeep, DueInv', OneUnderWay',
           network' \subseteq network, UNCHANGED seen,
           \A t \in Threads : ServiceDue(t)'
    PROVE  TestInv'
<1>1. SeenFits'
  BY DEF ConsumersKeep, TestInv, SeenFits
<1>2. ASSUME NEW e \in network' PROVE EntryDue(e)'
  <2>1. e \in network /\ e.from \in Consumers /\ EntryDue(e)
    BY <1>2 DEF CInv, ConsumerTypeOK, TestInv
  <2>2. e.from \in UnderWay'
    BY <1>2 DEF UnderWay
  <2>3. progress'[e.from].number = progress[e.from].number
    BY <2>1, <2>2 DEF ConsumersKeep
  <2>4. Replayed(e.message)' => Replayed(e.message)
    BY DEF Replayed
  <2> QED
    BY <2>1, <2>3, <2>4, EntryStays
<1> QED
  BY <1>1, <1>2 DEF TestInv, ConsumersKeep

\* Steps of a consumer that send nothing.
LEMMA QuietFrame ==
    ASSUME CInv, UNCHANGED <<vars, plan, previous, network, caller>>
    PROVE  /\ TimeFrame /\ UNCHANGED <<call, seen, now, UnderWay>>
           /\ [Next]_vars
  BY DEF CInv, IInv, TypeOK, TimeFrame, vars, UnderWay, Busy

LEMMA QuietKeepsTests ==
    ASSUME CInv, TestInv, ConsumersKeep, UNCHANGED <<vars, plan, previous, network, caller>>
    PROVE  TestInv'
<1>1. /\ TimeFrame /\ UNCHANGED <<call, seen, now, UnderWay>>
      /\ [Next]_vars
  BY QuietFrame
<1>2. DueInv'
  BY <1>1, NextDue DEF CInv, TestInv
<1>3. OneUnderWay'
  BY <1>1 DEF TestInv, OneUnderWay, Busy
<1>4. ASSUME NEW t \in Threads PROVE ServiceDue(t)'
  <2>1. Busy(t) => caller[t].from \in Consumers /\ caller[t].from \in UnderWay'
    BY <1>1 DEF CInv, ServiceFits, UnderWay, Busy
  <2>2. Busy(t) => progress'[caller[t].from].number = progress[caller[t].from].number
    BY <2>1 DEF ConsumersKeep
  <2> QED
    BY <1>1, <2>2, ServiceStaysDue DEF TestInv
<1> QED
  BY <1>1, <1>2, <1>3, <1>4, KeepsTests

\* Who writes a client log is the one who has it open, also after c has opened or
\* closed one, or has thrown.
LEMMA ClientLogsStayOwned ==
    ASSUME CInv, ClientLogsOwned, NEW c \in Consumers,
           \A d \in Consumers : d # c => progress'[d] = progress[d],
           NEW f, f = FileOf[progress[c].step],
           \/ /\ ~progress[c].writing /\ UNCHANGED clientWriter
           \/ /\ ~progress[c].writing
              /\ clientWriter' = [clientWriter EXCEPT ![f] = c]
              /\ progress'[c].writing /\ progress'[c].step = progress[c].step
           \/ /\ progress[c].writing
              /\ clientWriter' = [clientWriter EXCEPT ![f] = NoThread]
    PROVE  ClientLogsOwned'
<1> DEFINE files == {SentRequest, SentRequestModified, ReceivedResponse}
<1>1. clientWriter \in [files -> Consumers \cup {NoThread}]
  BY DEF CInv, ConsumerTypeOK, Log!LogTypeOK
<1> SUFFICES ASSUME NEW g \in files, clientWriter'[g] # NoThread
             PROVE  /\ progress'[clientWriter'[g]].writing
                    /\ g = FileOf[progress'[clientWriter'[g]].step]
  BY DEF ClientLogsOwned
<1>2. ASSUME clientWriter[g] # NoThread
      PROVE  /\ clientWriter[g] \in Consumers /\ progress[clientWriter[g]].writing
             /\ g = FileOf[progress[clientWriter[g]].step]
  BY <1>1, <1>2 DEF ClientLogsOwned
<1>3. CASE ~progress[c].writing /\ UNCHANGED clientWriter
  BY <1>2, <1>3
<1>4. CASE /\ ~progress[c].writing
           /\ clientWriter' = [clientWriter EXCEPT ![f] = c]
           /\ progress'[c].writing /\ progress'[c].step = progress[c].step
  BY <1>1, <1>2, <1>4
<1>5. CASE /\ progress[c].writing
           /\ clientWriter' = [clientWriter EXCEPT ![f] = NoThread]
  BY <1>1, <1>2, <1>5
<1> QED
  BY <1>3, <1>4, <1>5

LEMMA ClientLogDue ==
    ASSUME CInv, TestInv, NEW c \in Consumers,
           OpenClientLog(c) \/ ClientLogThrows(c) \/ CloseClientLog(c)
    PROVE  TestInv'
<1>1. /\ progress[c] \in ProgressType /\ progress \in [Consumers -> ProgressType]
      /\ ProgressFits(c) /\ ProgressDue(c) /\ ClientLogsOwned
  BY ProgressTypes DEF TestInv
<1>2. UNCHANGED <<vars, plan, previous, network, caller>>
  BY DEF OpenClientLog, ClientLogThrows, CloseClientLog
<1>3. TimeFrame /\ UNCHANGED <<now, UnderWay>>
  BY <1>2, QuietFrame
<1> DEFINE f == FileOf[progress[c].step]
<1>4. f = FileOf[progress[c].step]
  OBVIOUS
<1> HIDE DEF f
<1>5. CASE OpenClientLog(c)
  <2> DEFINE p == [progress[c] EXCEPT !.writing = TRUE]
  <2>1. /\ p \in ProgressType /\ p.number = progress[c].number /\ p.writing
        /\ p.step = progress[c].step /\ p.message = progress[c].message
        /\ p.response = progress[c].response /\ p.wake = progress[c].wake
    BY <1>1 DEF ProgressType
  <2>2. Proceed(c, p) /\ UNCHANGED results
    BY <1>5 DEF OpenClientLog
  <2> HIDE DEF p
  <2>3. progress'[c] = p /\ \A d \in Consumers : d # c => progress'[d] = progress[d]
    BY <1>1, <2>2 DEF Proceed
  <2>4. /\ ~progress[c].writing
        /\ clientWriter' = [clientWriter EXCEPT ![f] = c]
    BY <1>4, <1>5 DEF OpenClientLog, Log!OpenLog
  <2>5. ClientLogsOwned'
    BY <1>1, <1>4, <2>1, <2>3, <2>4, ClientLogsStayOwned
  <2>6. ProgressDue(c)'
    BY <1>1, <1>2, <1>3, <2>1, <2>3
       DEF ProgressDue, EndsAsAsserted, Dated, Replays, OthersThan, RequestOf
  <2> QED
    BY <1>2, <1>3, <2>1, <2>2, <2>5, <2>6, ProceedKeeps, QuietKeepsTests
<1>6. CASE ClientLogThrows(c)
  <2>1. /\ Finish(c, Thrown("log")) /\ UNCHANGED clientWriter /\ ~progress[c].writing
    BY <1>6 DEF ClientLogThrows, Log!LogThrows, Log!logVars
  <2>2. \A d \in Consumers : d # c => progress'[d] = progress[d]
    BY <1>1, <2>1 DEF Finish, Proceed
  <2>3. ClientLogsOwned'
    BY <1>1, <1>4, <2>1, <2>2, ClientLogsStayOwned
  <2>4. EndsAsAsserted(c, progress[c].number, Thrown("log")) /\ ~AsAsserted(c, Thrown("log"))
    BY <1>1, <1>6, ClientLogNeedsOthers, NothingThrownIsAsserted
  <2> QED
    BY <1>2, <1>3, <2>1, <2>3, <2>4, FinishKeeps, QuietKeepsTests
<1>7. CASE CloseClientLog(c)
  <2>1. /\ progress[c].writing
        /\ clientWriter' = [clientWriter EXCEPT ![f] = NoThread]
    BY <1>4, <1>7 DEF CloseClientLog, Log!CloseLog
  <2>2. progress[c].step \in LogSteps
    BY <1>1, <2>1 DEF ProgressFits
  <2>3. CASE progress[c].step = "logResponse"
    <3>1. Finish(c, progress[c].response)
      BY <1>7, <2>3 DEF CloseClientLog
    <3>2. \A d \in Consumers : d # c => progress'[d] = progress[d]
      BY <1>1, <3>1 DEF Finish, Proceed
    <3>3. ClientLogsOwned'
      BY <1>1, <1>4, <2>1, <3>2, ClientLogsStayOwned
    <3>4. /\ EndsAsAsserted(c, progress[c].number, progress[c].response)
          /\ c \notin UnderWay'
      BY <1>1, <1>3, <2>3 DEF ProgressDue
    <3> QED
      BY <1>2, <1>3, <3>1, <3>3, <3>4, FinishKeeps, QuietKeepsTests
  <2>4. CASE progress[c].step # "logResponse"
    <3> DEFINE p == [progress[c] EXCEPT !.writing = FALSE,
                        !.step = IF progress[c].step = "logRequest" /\ plan[c].clearsBody
                                 THEN "logModified" ELSE "sign"]
    <3>1. Proceed(c, p) /\ UNCHANGED results
      BY <1>7, <2>4 DEF CloseClientLog
    <3>2. /\ p \in ProgressType /\ p.number = progress[c].number
          /\ p.step \in {"logModified", "sign"}
      BY <1>1 DEF ProgressType, Steps
    <3> HIDE DEF p
    <3>3. progress'[c] = p /\ \A d \in Consumers : d # c => progress'[d] = progress[d]
      BY <1>1, <3>1 DEF Proceed
    <3>4. ClientLogsOwned'
      BY <1>1, <1>4, <2>1, <3>3, ClientLogsStayOwned
    <3>5. progress[c].step \in BeforeSending
      BY <2>2, <2>4 DEF LogSteps, BeforeSending
    <3>6. ProgressDue(c)'
      <4>1. Replays(c)' /\ previous'[c] # Nothing =>
               \E clock \in 0..now' : previous'[c] = Dated(c, 1, clock)'
        BY <1>1, <1>2, <1>3, DatesStay DEF ProgressDue
      <4>2. c \notin UnderWay' /\ progress'[c].step \in {"logModified", "sign"}
        BY <1>1, <1>3, <3>2, <3>3, <3>5 DEF ProgressDue
      <4> QED
        BY <4>1, <4>2 DEF ProgressDue
    <3> QED
      BY <1>2, <1>3, <3>1, <3>2, <3>4, <3>5, <3>6, ProceedKeeps, QuietKeepsTests
  <2> QED
    BY <2>3, <2>4
<1> QED
  BY <1>5, <1>6, <1>7

LEMMA SignOrWaitDue ==
    ASSUME CInv, TestInv, NEW c \in Consumers, Sign(c) \/ FallAsleep(c) \/ TimeOut(c)
    PROVE  TestInv'
<1>1. /\ progress[c] \in ProgressType /\ progress \in [Consumers -> ProgressType]
      /\ ProgressFits(c) /\ ProgressDue(c) /\ ClientLogsOwned /\ plan[c] \in Plans
      /\ now \in Nat
  BY ProgressTypes DEF TestInv, CInv, IInv, TypeOK
<1>2. /\ UNCHANGED <<vars, plan, previous, network, caller>>
      /\ UNCHANGED clientWriter
  BY DEF Sign, FallAsleep, TimeOut
<1>3. TimeFrame /\ UNCHANGED <<now, UnderWay>>
  BY <1>2, QuietFrame
<1>4. ~progress[c].writing
  BY <1>1 DEF Sign, FallAsleep, TimeOut, ProgressFits, LogSteps, ProgressType
<1>5. ASSUME \A d \in Consumers : d # c => progress'[d] = progress[d]
      PROVE  ClientLogsOwned'
  <2> DEFINE f == FileOf[progress[c].step]
  <2>1. f = FileOf[progress[c].step]
    OBVIOUS
  <2> HIDE DEF f
  <2> QED
    BY <1>1, <1>2, <1>4, <1>5, <2>1, ClientLogsStayOwned
<1>6. Replays(c)' /\ previous'[c] # Nothing =>
         \E clock \in 0..now' : previous'[c] = Dated(c, 1, clock)'
  BY <1>1, <1>2, <1>3, DatesStay DEF ProgressDue
<1>7. ASSUME progress[c].step \in BeforeSending PROVE c \notin UnderWay'
  BY <1>1, <1>3, <1>7 DEF ProgressDue
<1>8. CASE Sign(c)
  <2> DEFINE message == Signed(c)
             p == [progress[c] EXCEPT !.step = "encode", !.message = message]
  <2>1. message = Dated(c, progress[c].number, now)
    BY DEF Signed, Dated
  <2>2. message \in Messages
    <3>1. now \in 0..MaxTime /\ progress[c].number \in 1 .. Len(plan[c].requests)
      BY <1>1, StsHostAssumption DEF CInv, ProgressFits, Asking
    <3> QED
      BY <1>1, <2>1, <3>1, StsConsumerAssumption DEF Dated
  <2> HIDE DEF message
  <2>3. /\ p \in ProgressType /\ p.step = "encode" /\ p.message = message
        /\ p.number = progress[c].number
    BY <1>1, <2>2 DEF ProgressType, Steps
  <2>4. Proceed(c, p) /\ UNCHANGED results
    BY <1>8 DEF Sign, message
  <2> HIDE DEF p
  <2>5. progress'[c] = p /\ \A d \in Consumers : d # c => progress'[d] = progress[d]
    BY <1>1, <2>4 DEF Proceed
  <2>6. progress[c].step \in BeforeSending
    BY <1>8 DEF Sign, BeforeSending
  <2>7. /\ now \in 0..now' /\ progress'[c].step = "encode"
        /\ progress'[c].message = Dated(c, progress'[c].number, now)
    BY <1>1, <1>3, <2>1, <2>3, <2>5
  <2>8. ProgressDue(c)'
    BY <1>3, <1>6, <1>7, <2>6, <2>7, DatesStay DEF ProgressDue
  <2> QED
    BY <1>2, <1>3, <1>5, <2>3, <2>4, <2>5, <2>6, <2>8, ProceedKeeps, QuietKeepsTests
<1>9. CASE FallAsleep(c)
  <2> DEFINE wake == now + Delay[plan[c].encoder]
             p == [progress[c] EXCEPT !.step = "asleep", !.wake = wake]
  <2>1. /\ wake \in Nat /\ plan[c].encoder \in {"shortDelay", "longDelay"}
        /\ plan[c].encoder = "longDelay" => wake = now + LongDelay
    BY <1>1, <1>9, StsConsumerAssumption DEF FallAsleep, Delay
  <2> HIDE DEF wake
  <2>2. /\ p \in ProgressType /\ p.step = "asleep" /\ p.message = progress[c].message
        /\ p.number = progress[c].number /\ p.wake = wake
    BY <1>1, <2>1 DEF ProgressType, Steps
  <2>3. Proceed(c, p) /\ UNCHANGED results
    BY <1>9 DEF FallAsleep, wake
  <2> HIDE DEF p
  <2>4. progress'[c] = p /\ \A d \in Consumers : d # c => progress'[d] = progress[d]
    BY <1>1, <2>3 DEF Proceed
  <2>5. progress[c].step = "encode" /\ progress[c].step \in BeforeSending
    BY <1>9 DEF FallAsleep, BeforeSending
  <2>6. PICK clock \in 0..now : progress[c].message = Dated(c, progress[c].number, clock)
    BY <1>1, <2>5 DEF ProgressDue
  <2>7. plan[c].encoder = "longDelay" => wake >= clock + LongDelay
    BY <1>1, <2>1, <2>6, StsConsumerAssumption
  <2>8. /\ clock \in 0..now' /\ progress'[c].step = "asleep"
        /\ progress'[c].message = Dated(c, progress'[c].number, clock)
        /\ plan'[c].encoder \in {"shortDelay", "longDelay"}
        /\ plan'[c].encoder = "longDelay" => progress'[c].wake >= clock + LongDelay
    BY <1>2, <1>3, <2>1, <2>2, <2>4, <2>6, <2>7
  <2>9. ProgressDue(c)'
    BY <1>3, <1>6, <1>7, <2>5, <2>8, DatesStay DEF ProgressDue
  <2> QED
    BY <1>2, <1>3, <1>5, <2>2, <2>3, <2>4, <2>5, <2>9, ProceedKeeps, QuietKeepsTests
<1>10. CASE TimeOut(c)
  <2>1. Finish(c, Thrown("timeout"))
    BY <1>10 DEF TimeOut
  <2>2. \A d \in Consumers : d # c => progress'[d] = progress[d]
    BY <1>1, <2>1 DEF Finish, Proceed
  <2>3. /\ EndsAsAsserted(c, progress[c].number, Thrown("timeout"))
        /\ ~AsAsserted(c, Thrown("timeout"))
    BY NothingThrownIsAsserted DEF EndsAsAsserted
  <2> QED
    BY <1>2, <1>3, <1>5, <2>1, <2>2, <2>3, FinishKeeps, QuietKeepsTests
<1> QED
  BY <1>8, <1>9, <1>10

-----------------------------------------------------------------------------
(* Messages on their way.                                                     *)

\* Whose message it is, and of which request, is in its id.
LEMMA DatedId ==
    ASSUME NEW c, NEW number, NEW clock, NEW m,
           m = Damaged(c, Dated(c, number, clock))
    PROVE  /\ m.id = <<c, number>>
           /\ plan[c].encoder # "tamper" =>
                 m.wellFormed = ~(plan[c].clearsBody /\ EnableClientLog)
<1> DEFINE d == Dated(c, number, clock)
<1>1. d.id = <<c, number>> /\ Tampered(d).id = <<c, number>>
  BY DEF Dated, SignedAt, Tampered
<1>2. d.wellFormed = ~(plan[c].clearsBody /\ EnableClientLog)
  BY DEF Dated, SignedAt
<1> QED
  BY <1>1, <1>2 DEF Damaged

\* A consumer has no other message under way when it sends one, and the channel has
\* not seen the message, unless the test replays it.
LEMMA SendDue ==
    ASSUME CInv, TestInv, NEW c \in Consumers, NEW message, Send(c, message),
           progress[c].step \in {"encode", "asleep"},
           UNCHANGED <<vars, plan, results, caller, clientWriter>>,
           \A d \in Consumers : d # c => previous'[d] = previous[d],
           Replays(c) /\ previous'[c] # Nothing =>
              \E clock \in 0..now : previous'[c] = Dated(c, 1, clock),
           NEW clock \in 0..now,
           message = Damaged(c, Dated(c, NumberSent(c, progress[c].number), clock)),
           plan[c].encoder = "longDelay" => now >= clock + LongDelay
    PROVE  TestInv'
<1> PICK n \in Numbers : n = progress[c].number
  BY ProgressTypes DEF ProgressType
<1> DEFINE e == [from |-> c, number |-> n, message |-> message]
           p == [progress[c] EXCEPT !.step = "wait", !.message = Nothing]
<1>1. /\ progress \in [Consumers -> ProgressType] /\ progress[c] \in ProgressType
      /\ ProgressFits(c) /\ ProgressDue(c) /\ now \in Nat
  BY ProgressTypes DEF TestInv, CInv, IInv, TypeOK
<1>2. /\ p \in ProgressType /\ p.step = "wait" /\ p.number = progress[c].number
  BY <1>1 DEF ProgressType, Steps
<1>3. network' = network \cup {e} /\ Proceed(c, p)
  BY DEF Send
<1>4. /\ e.from = c /\ e.number = n /\ e.message = message
  OBVIOUS
<1> HIDE DEF e, p
<1>5. /\ progress'[c] = p
      /\ \A d \in Consumers : d # c => progress'[d] = progress[d]
  BY <1>1, <1>3 DEF Proceed
<1>6. UNCHANGED <<seen, call, now>> /\ [Next]_vars
  BY DEF vars
<1>7. TimeFrame /\ UnderWay' = UnderWay \cup {c} /\ c \notin UnderWay
  BY <1>1, <1>3, <1>4, <1>6 DEF TimeFrame, UnderWay, Busy, ProgressDue, BeforeSending
<1>8. progress[c].step \in BeforeSending /\ progress[c].step \notin LogSteps
  BY DEF BeforeSending, LogSteps
<1>9. \A m : Replayed(m)' = Replayed(m)
  BY <1>6 DEF Replayed
<1>10. ClientLogsOwned'
  <2> DEFINE f == FileOf[progress[c].step]
  <2>1. f = FileOf[progress[c].step]
    OBVIOUS
  <2>2. ~progress[c].writing
    BY <1>1, <1>8 DEF ProgressFits, ProgressType
  <2> HIDE DEF f
  <2> QED
    BY <1>5, <2>1, <2>2, ClientLogsStayOwned DEF TestInv
<1>11. ProgressDue(c)'
  <2>1. Replays(c)' /\ previous'[c] # Nothing =>
           \E at \in 0..now' : previous'[c] = Dated(c, 1, at)'
    BY <1>7, DatesStay
  <2>2. progress'[c].step \notin BeforeSending \cup {"encode", "asleep", "logResponse"}
    BY <1>2, <1>5 DEF BeforeSending
  <2> QED
    BY <2>1, <2>2 DEF ProgressDue
<1>12. ConsumersKeep
  <2>1. p.step \in BeforeSending => progress[c].step \in BeforeSending
    BY <1>8
  <2> QED
    BY <1>2, <1>3, <1>7, <1>10, <1>11, <2>1, ProceedKeeps
<1>13. DueInv'
  BY <1>6, NextDue DEF CInv, TestInv
<1>14. OneUnderWay'
  <2>1. /\ \A f \in network : f.from # c
        /\ \A t \in Threads : Busy(t) => caller[t].from # c
    BY <1>7 DEF UnderWay
  <2> QED
    BY <1>3, <1>4, <1>6, <2>1 DEF TestInv, OneUnderWay, Busy
<1>15. SeenFits'
  BY <1>6, <1>12 DEF TestInv, SeenFits, ConsumersKeep
<1>16. ASSUME NEW t \in Threads PROVE ServiceDue(t)'
  <2>1. Busy(t) => caller[t].from \in Consumers /\ caller[t].from # c
    BY <1>7 DEF CInv, ServiceFits, UnderWay
  <2>2. Busy(t) => progress'[caller[t].from].number = progress[caller[t].from].number
    BY <1>5, <2>1
  <2> QED
    BY <1>6, <2>2, ServiceStaysDue DEF TestInv
<1>17. ASSUME NEW f \in network' PROVE EntryDue(f)'
  <2>1. CASE f = e
    <3>1. ASSUME n = 1 \/ ~Replays(c) PROVE ~Replayed(message)
      <4>1. NumberSent(c, progress[c].number) = progress[c].number
        BY <1>4, <3>1 DEF NumberSent
      <4>2. message.id = <<c, progress[c].number>>
        BY <4>1, DatedId
      <4>3. Unsent(c, progress[c].number) /\ progress[c].number \in Numbers
        BY <1>1, <1>8 DEF Unsent, ProgressType
      <4> QED
        BY <4>2, <4>3 DEF TestInv, SeenFits, Replayed
    <3>2. n = progress'[c].number
      BY <1>2, <1>4, <1>5
    <3>3. clock \in 0..now'
      BY <1>6
    <3>4. message = Damaged(c, Dated(c, NumberSent(c, n), clock))'
      <4>1. Dated(c, NumberSent(c, n), clock)' = Dated(c, NumberSent(c, n), clock)
        BY <1>7, DatesStay
      <4> QED
        BY <1>4, <4>1 DEF Damaged
    <3>5. plan'[c].encoder = "longDelay" => now' >= clock + LongDelay
      BY <1>6
    <3>6. n = 1 \/ ~Replays(c)' => ~Replayed(message)'
      BY <1>7, <1>9, <3>1, DatesStay
    <3> QED
      BY <1>4, <2>1, <3>2, <3>3, <3>4, <3>5, <3>6 DEF EntryDue
  <2>2. CASE f # e
    <3>1. f \in network /\ EntryDue(f) /\ f.from \in Consumers /\ f.from # c
      BY <1>3, <1>7, <1>17, <2>2 DEF CInv, ConsumerTypeOK, TestInv, UnderWay
    <3> QED
      BY <1>5, <1>7, <1>9, <3>1, EntryStays
  <2> QED
    BY <2>1, <2>2
<1> QED
  BY <1>12, <1>13, <1>14, <1>15, <1>16, <1>17 DEF TestInv, ConsumersKeep

LEMMA EncodeDue ==
    ASSUME CInv, TestInv, NEW c \in Consumers, EncodeText(c) \/ Modify(c) \/ Wake(c)
    PROVE  TestInv'
<1>1. /\ progress[c] \in ProgressType /\ ProgressFits(c) /\ ProgressDue(c)
      /\ previous[c] \in Messages \cup {Nothing}
      /\ previous \in [Consumers -> Messages \cup {Nothing}]
      /\ now \in Nat /\ LongDelay \in Nat
  BY ProgressTypes, PlanTypes DEF TestInv, CInv, ConsumerTypeOK
<1>2. progress[c].step \in {"encode", "asleep"}
  BY DEF EncodeText, Modify, Wake
<1>3. PICK clock \in 0..now :
          /\ progress[c].message = Dated(c, progress[c].number, clock)
          /\ progress[c].step = "asleep" =>
                /\ plan[c].encoder \in {"shortDelay", "longDelay"}
                /\ plan[c].encoder = "longDelay" => progress[c].wake >= clock + LongDelay
  BY <1>1, <1>2 DEF ProgressDue
<1>4. Replays(c) /\ previous[c] # Nothing =>
         \E at \in 0..now : previous[c] = Dated(c, 1, at)
  BY <1>1 DEF ProgressDue
<1>5. CASE EncodeText(c)
  <2>1. /\ Send(c, Damaged(c, progress[c].message))
        /\ plan[c].encoder # "longDelay" /\ ~Replays(c)
        /\ UNCHANGED <<vars, plan, previous, results, caller, clientWriter>>
    BY <1>5 DEF EncodeText, Damaged, Replays
  <2>2. NumberSent(c, progress[c].number) = progress[c].number
    BY <2>1 DEF NumberSent
  <2> QED
    BY <1>2, <1>3, <1>4, <2>1, <2>2, SendDue
<1>6. CASE Wake(c)
  <2>1. /\ Send(c, progress[c].message) /\ progress[c].step = "asleep"
        /\ now >= progress[c].wake
        /\ UNCHANGED <<vars, plan, previous, results, caller, clientWriter>>
    BY <1>6 DEF Wake
  <2>2. progress[c].wake \in Nat /\ clock \in Nat
    BY <1>1 DEF ProgressType
  <2>3. plan[c].encoder = "longDelay" => now >= clock + LongDelay
    BY <1>1, <1>3, <2>1, <2>2
  <2>4. /\ NumberSent(c, progress[c].number) = progress[c].number
        /\ Damaged(c, progress[c].message) = progress[c].message
    BY <1>3, <2>1 DEF NumberSent, Replays, Damaged
  <2> QED
    BY <1>2, <1>3, <1>4, <2>1, <2>3, <2>4, SendDue
<1>7. CASE Modify(c)
  <2> DEFINE message == IF Replays(c) /\ previous[c] # Nothing THEN previous[c]
                        ELSE progress[c].message
  <2>1. /\ Send(c, message) /\ previous' = [previous EXCEPT ![c] = message]
        /\ UNCHANGED <<vars, plan, results, caller, clientWriter>>
        /\ plan[c].encoder \in {"record", "replay"}
    BY <1>7 DEF Modify, Replays
  <2>2. Damaged(c, message) = message /\ plan[c].encoder # "longDelay"
    BY <2>1 DEF Damaged
  <2>4. \E at \in 0..now : message = Dated(c, NumberSent(c, progress[c].number), at)
    <3>1. CASE ~Replays(c)
      BY <1>3, <3>1 DEF NumberSent
    <3>2. CASE Replays(c) /\ previous[c] # Nothing
      BY <1>4, <3>2 DEF NumberSent
    <3>3. CASE Replays(c) /\ previous[c] = Nothing
      <4>1. progress[c].number = 1
        BY <1>1, <3>3, StsHostAssumption DEF ProgressFits, WasReplayed
      <4> QED
        BY <1>3, <3>3, <4>1 DEF NumberSent
    <3> QED
      BY <3>1, <3>2, <3>3
  <2> HIDE DEF message
  <2>5. /\ previous'[c] = message
        /\ \A d \in Consumers : d # c => previous'[d] = previous[d]
    BY <1>1, <2>1
  <2>6. Replays(c) => \E at \in 0..now : previous'[c] = Dated(c, 1, at)
    BY <2>4, <2>5 DEF NumberSent
  <2> QED
    BY <1>2, <2>1, <2>2, <2>4, <2>5, <2>6, SendDue
<1> QED
  BY <1>5, <1>6, <1>7

-----------------------------------------------------------------------------
(* The host, and time.                                                        *)

\* An accepted message is known to the channel from then on, and is no other
\* consumer's.
LEMMA DeliverDue ==
    ASSUME CInv, TestInv, SettingsOfTheTests, NEW t \in Threads, NEW e \in network,
           Deliver(t, e)
    PROVE  TestInv'
<1>1. /\ e.from \in Consumers /\ e.number \in Numbers /\ e.message \in Messages
      /\ EntryDue(e) /\ e.from \in UnderWay
      /\ call \in [Threads -> Calls] /\ now \in Nat
  BY DEF CInv, ConsumerTypeOK, TestInv, UnderWay, IInv, TypeOK
<1>2. /\ Authentic(e.message) /\ seen' = seen \cup {e.message} /\ now' = now
      /\ network' = network \ {e} /\ ~Busy(t)
      /\ UNCHANGED <<plan, progress, previous, results, clientWriter>>
  BY DEF Deliver, Authenticate, Busy, clientVars
<1> DEFINE d == [call[t] EXCEPT !.message = e.message,
                    !.stage = IF EnableSoapMessageLog THEN "received" ELSE "dispatched"]
<1>3. /\ d \in Calls /\ d.message = e.message /\ Continue(t, d)
      /\ d.exception = call[t].exception /\ d.reply = call[t].reply
      /\ d.stage = IF EnableSoapMessageLog THEN "received" ELSE "dispatched"
  BY <1>1 DEF Calls, Stages, Deliver, Authenticate
<1> HIDE DEF d
<1>4. call'[t] = d /\ \A u \in Threads : u # t => call'[u] = call[u]
  BY <1>1, <1>3 DEF Continue
<1>5. /\ caller'[t].from = e.from /\ caller'[t].number = e.number
      /\ \A u \in Threads : u # t => caller'[u] = caller[u]
  BY DEF Deliver, CInv, ConsumerTypeOK
<1>6. UnderWay' \subseteq UnderWay /\ TimeFrame
  BY <1>1, <1>2, <1>4, <1>5 DEF UnderWay, Busy, TimeFrame
<1>7. ConsumersKeep
  BY <1>2, <1>6, AllKeep
<1>8. DueInv'
  <2>1. [Next]_vars
    BY <1>1 DEF Deliver, Next
  <2> QED
    BY <2>1, NextDue DEF CInv, TestInv
<1>9. OneUnderWay'
  BY <1>2, <1>4, <1>5 DEF TestInv, OneUnderWay, Busy
<1>10. PICK clock \in 0..now :
           e.message = Damaged(e.from, Dated(e.from, NumberSent(e.from, e.number), clock))
  BY <1>1 DEF EntryDue
<1>11. /\ e.message.id = <<e.from, NumberSent(e.from, e.number)>>
       /\ NumberSent(e.from, e.number) \in {1, e.number}
       /\ plan[e.from].encoder # "tamper" =>
             e.message.wellFormed = ~(plan[e.from].clearsBody /\ EnableClientLog)
  BY <1>10, DatedId DEF NumberSent
<1>12. SeenFits'
  <2> SUFFICES ASSUME NEW c \in Consumers, NEW number \in Numbers, Unsent(c, number),
                      e.message.id = <<c, number>>
               PROVE  FALSE
    BY <1>2 DEF TestInv, SeenFits, Unsent
  <2>1. c = e.from /\ number \in {1, e.number}
    BY <1>11
  <2>2. e.number = progress[c].number /\ progress[c].step \notin BeforeSending
    BY <1>1, <2>1 DEF EntryDue, TestInv, ProgressDue
  <2>3. progress[c].number \in Nat \ {0} /\ number \in Nat
    BY ProgressTypes, NumbersAreNatural DEF ProgressType
  <2> QED
    BY <1>1, <2>1, <2>2, <2>3 DEF Unsent
<1>13. ASSUME NEW f \in network' PROVE EntryDue(f)'
  <2>1. f \in network /\ EntryDue(f) /\ f.from # e.from
    BY <1>2, <1>13 DEF TestInv, OneUnderWay
  <2>2. f.message.id # e.message.id
    <3>1. PICK at \in 0..now :
             f.message = Damaged(f.from, Dated(f.from, NumberSent(f.from, f.number), at))
      BY <2>1 DEF EntryDue
    <3> QED
      BY <1>11, <2>1, <3>1, DatedId
  <2>3. Replayed(f.message)' => Replayed(f.message)
    BY <1>2, <2>2 DEF Replayed
  <2> QED
    BY <1>2, <1>6, <2>1, <2>3, EntryStays
<1>14. ASSUME NEW u \in Threads PROVE ServiceDue(u)'
  <2>1. CASE u = t
    <3>1. plan[e.from].encoder \notin {"tamper", "longDelay"}
      BY <1>1, <1>2, AcceptedIsUnspoilt
    <3>2. ~Lost(call'[t])
      <4>1. call[t].exception = NoException /\ call[t].reply = Nothing
        BY <1>2 DEF TestInv, DueInv, CallIsDue, Busy, Answering
      <4> QED
        BY <1>3, <1>4, <4>1, NothingIsNoReply DEF Lost, NoException, IOException
    <3>3. e.message.wellFormed = ~(plan[e.from].clearsBody /\ EnableClientLog)
      BY <1>11, <3>1
    <3>4. call'[t].message.wellFormed = ~(plan'[caller'[t].from].clearsBody /\ EnableClientLog)
      BY <1>2, <1>3, <1>4, <1>5, <3>3
    <3>5. caller'[t].number = progress'[caller'[t].from].number
      BY <1>1, <1>2, <1>5 DEF EntryDue
    <3>6. plan'[caller'[t].from].encoder \notin {"tamper", "longDelay"}
      BY <1>2, <1>5, <3>1
    <3>7. call'[t].stage \in {"received", "loggingRequest"} => EnableSoapMessageLog
      BY <1>3, <1>4
    <3> QED
      BY <2>1, <3>2, <3>4, <3>5, <3>6, <3>7 DEF ServiceDue
  <2>2. CASE u # t
    BY <1>2, <1>4, <1>5, <2>2, ServiceStaysDue DEF TestInv
  <2> QED
    BY <2>1, <2>2
<1> QED
  BY <1>7, <1>8, <1>9, <1>12, <1>13, <1>14 DEF TestInv, ConsumersKeep

\* The channel answers a message it refuses itself.
LEMMA RefuseDue ==
    ASSUME CInv, TestInv, SettingsOfTheTests, NEW e \in network, Refuse(e)
    PROVE  TestInv'
<1>1. /\ e.from \in Consumers /\ e.message \in Messages /\ EntryDue(e) /\ now \in Nat
  BY DEF CInv, ConsumerTypeOK, TestInv, IInv, TypeOK
<1>2. /\ UNCHANGED <<call, seen, now, caller>> /\ network' = network \ {e}
      /\ Receive(e, SecurityFault) /\ ~Authentic(e.message)
  BY DEF Refuse, RefuseMessage
<1>3. /\ TimeFrame /\ UnderWay' \subseteq UnderWay /\ e.from \notin UnderWay'
  BY <1>1, <1>2 DEF TimeFrame, Receive, UnderWay, Busy, TestInv, OneUnderWay
<1>4. SecurityFault \in Outcomes
  BY DEF Outcomes
<1>5. EndsAsAsserted(e.from, e.number, SecurityFault)
  BY <1>1, <1>2, RefusalIsDue
<1>6. ConsumersKeep
  BY <1>1, <1>2, <1>3, <1>4, <1>5, ReceiveKeeps
<1>7. DueInv'
  <2>1. [Next]_vars
    BY <1>1 DEF Refuse, Next
  <2> QED
    BY <2>1, NextDue DEF CInv, TestInv
<1>8. OneUnderWay'
  BY <1>2 DEF TestInv, OneUnderWay, Busy
<1>9. ASSUME NEW t \in Threads PROVE ServiceDue(t)'
  <2>1. Busy(t) => caller[t].from \in Consumers /\ caller[t].from \in UnderWay'
    BY <1>2 DEF CInv, ServiceFits, UnderWay, Busy
  <2>2. Busy(t) => progress'[caller[t].from].number = progress[caller[t].from].number
    BY <1>6, <2>1 DEF ConsumersKeep
  <2> QED
    BY <1>2, <1>3, <2>2, ServiceStaysDue DEF TestInv, TimeFrame
<1> QED
  BY <1>2, <1>3, <1>6, <1>7, <1>8, <1>9, KeepsTests

\* A thread loses the answer only to a log that throws.
LEMMA WorkLoses ==
    ASSUME IInv, DueInv, NEW t \in Threads, Work(t), Busy(t)', Lost(call'[t])
    PROVE  \/ Lost(call[t])
           \/ call[t].stage = "received" /\ LogThrows(t, ReceivedRequest)
           \/ /\ call[t].stage = "replying" /\ LogThrows(t, SentResponse)
              /\ EnableSoapMessageLog
<1>1. CASE RequestLogThrows(t) \/ ReplyLogThrows(t)
  BY <1>1 DEF RequestLogThrows, ReplyLogThrows
<1>2. CASE SendReply(t)
  BY <1>2, ContinueCall DEF SendReply, Continue, Busy, IdleCall, IInv, TypeOK
<1>3. CASE ~RequestLogThrows(t) /\ ~ReplyLogThrows(t) /\ ~SendReply(t)
  <2>1. UNCHANGED Disturbed
    BY <1>3, QuietWork DEF Promise!vars
  <2>2. Disturbed' = {call'[u].message : u \in {v \in Threads : Lost(call'[v])}}
    BY DEF Disturbed, Lost
  <2>3. PICK u \in Threads : Lost(call[u]) /\ call[u].message = call'[t].message
    BY <2>1, <2>2, DisturbedCalls
  <2>4. call'[t].message = call[t].message /\ Busy(t)
    BY WorkCall DEF Busy, IdleCall
  <2>5. Serving(t) /\ Serving(u)
    BY <2>3, <2>4, LostCalls DEF IInv, CallFits, Serving, Busy
  <2>6. u = t
    BY <2>3, <2>4, <2>5 DEF IInv, ServedAtMostOnce, Remembered
  <2> QED
    BY <2>3, <2>6
<1> QED
  BY <1>1, <1>2, <1>3

\* The first log comes before everything else, a reply is sent after it is made.
LEMMA WorkStages ==
    ASSUME IInv, NEW t \in Threads, Work(t)
    PROVE  /\ call'[t].stage \in {"received", "loggingRequest"} => call[t].stage = "received"
           /\ call'[t] = IdleCall => call[t].stage \in Answering
<1>1. call \in [Threads -> Calls] /\ call[t] \in Calls
  BY DEF IInv, TypeOK
<1>2. ASSUME NEW stage \in Stages, Advance(t, stage) PROVE call'[t].stage = stage
  BY <1>1, <1>2 DEF Advance, Continue, Calls
<1>3. ASSUME NEW exception, Fail(t, exception) PROVE call'[t].stage = "failed"
  BY <1>1, <1>3 DEF Fail, Continue, Calls
<1>4. ASSUME NEW stage \in Stages, NEW reply, Reply(t, stage, reply)
      PROVE  call'[t].stage = stage
  BY <1>1, <1>4 DEF Reply, Continue, Calls
<1>5. IdleCall.stage = "idle"
  BY DEF IdleCall
<1>6. CASE OpenRequestLog(t) \/ CloseRequestLog(t) \/ GetScope(t)
  BY <1>2, <1>5, <1>6 DEF OpenRequestLog, CloseRequestLog, GetScope, Stages
<1>7. CASE RequestLogThrows(t) \/ ScopeFails(t)
  BY <1>3, <1>5, <1>7 DEF RequestLogThrows, ScopeFails
<1>8. CASE GetSecurityTokenHandler(t)
  BY <1>1, <1>3, <1>5, <1>8 DEF GetSecurityTokenHandler, Continue, Calls
<1>9. CASE Issue(t) \/ HandleError(t) \/ ReplyLogThrows(t)
  BY <1>3, <1>4, <1>5, <1>9 DEF Issue, HandleError, ReplyLogThrows, Stages
<1>10. CASE OpenReplyLog(t) \/ CloseReplyLog(t)
  BY <1>2, <1>5, <1>10 DEF OpenReplyLog, CloseReplyLog, Stages
<1>11. CASE SendReply(t)
  BY <1>1, <1>5, <1>11 DEF SendReply, Continue, Answering
<1> QED
  BY <1>6, <1>7, <1>8, <1>9, <1>10, <1>11 DEF Work

\* An answer is lost to the log of another request, and goes to nobody else.
LEMMA HostWorksDue ==
    ASSUME CInv, TestInv, SettingsOfTheTests, NEW t \in Threads, HostWorks(t)
    PROVE  TestInv'
<1>1. IInv /\ Work(t) /\ network' = network /\ DueInv /\ ServiceDue(t) /\ ServiceFits(t)
  BY DEF CInv, HostWorks, TestInv
<1>2. /\ UNCHANGED <<seen, now>> /\ Busy(t)
      /\ \A u \in Threads : u # t => call'[u] = call[u]
      /\ \/ Busy(t)' /\ call'[t].message = call[t].message
         \/ call'[t] = IdleCall /\ ReplyFits(call[t].message, call[t].reply)
  BY <1>1, WorkCall
<1>3. caller[t].from \in Consumers /\ caller[t].number \in Numbers /\ now \in Nat
  BY <1>1, <1>2 DEF ServiceFits, IInv, TypeOK
<1>4. DueInv'
  <2>1. [Next]_vars
    BY <1>1 DEF Next
  <2> QED
    BY <1>1, <2>1, NextDue
<1>5. UNCHANGED plan
  BY DEF HostWorks, Receive, clientVars
<1>6. TimeFrame
  BY <1>2, <1>3, <1>5 DEF TimeFrame
<1>7. CASE call'[t] # IdleCall
  <2>1. UNCHANGED <<plan, previous, progress, results, clientWriter, caller>>
    BY <1>7 DEF HostWorks, clientVars
  <2>2. Busy(t)' /\ call'[t].message = call[t].message
    BY <1>2, <1>7
  <2>3. \A u \in Threads : Busy(u)' <=> Busy(u)
    BY <1>2, <2>2 DEF Busy
  <2>4. UnderWay' \subseteq UnderWay
    BY <1>1, <2>1, <2>3 DEF UnderWay
  <2>5. ConsumersKeep
    BY <1>6, <2>1, <2>4, AllKeep
  <2>6. OneUnderWay'
    BY <1>1, <2>1, <2>3 DEF TestInv, OneUnderWay
  <2>7. ServiceDue(t)'
    <3>1. ASSUME Lost(call'[t])
          PROVE  EnableSoapMessageLog /\ (DiskMayFail \/ OthersThan(caller[t].from))
      <4>1. \/ Lost(call[t])
            \/ call[t].stage = "received" /\ LogThrows(t, ReceivedRequest)
            \/ /\ call[t].stage = "replying" /\ LogThrows(t, SentResponse)
               /\ EnableSoapMessageLog
        BY <1>1, <2>2, <3>1, WorkLoses
      <4>2. CASE Lost(call[t])
        BY <1>1, <1>2, <4>2 DEF ServiceDue
      <4>3. CASE ~Lost(call[t])
        <5>1. EnableSoapMessageLog
          BY <1>1, <4>1, <4>3 DEF ServiceDue
        <5>2. DiskMayFail \/ OthersThan(caller[t].from)
          BY <1>2, <4>1, <4>3, HostLogNeedsOthers DEF TestInv
        <5> QED
          BY <5>1, <5>2
      <4> QED
        BY <4>2, <4>3
    <3>2. call'[t].stage \in {"received", "loggingRequest"} => EnableSoapMessageLog
      BY <1>1, WorkStages DEF ServiceDue
    <3>3. /\ caller[t].number = progress[caller[t].from].number
          /\ plan[caller[t].from].encoder \notin {"tamper", "longDelay"}
      BY <1>1, <1>2 DEF ServiceDue
    <3>4. call[t].message.wellFormed = ~(plan[caller[t].from].clearsBody /\ EnableClientLog)
      BY <1>1, <1>2 DEF ServiceDue
    <3>5. call'[t].message.wellFormed
             = ~(plan'[caller'[t].from].clearsBody /\ EnableClientLog)
      BY <2>1, <2>2, <3>4
    <3>6. Lost(call'[t]) =>
             EnableSoapMessageLog /\ (DiskMayFail \/ OthersThan(caller'[t].from))
      BY <2>1, <3>1
    <3>7. /\ caller'[t].number = progress'[caller'[t].from].number
          /\ plan'[caller'[t].from].encoder \notin {"tamper", "longDelay"}
      BY <2>1, <3>3
    <3> QED
      BY <3>2, <3>5, <3>6, <3>7 DEF ServiceDue, OthersThan
  <2>8. ASSUME NEW u \in Threads PROVE ServiceDue(u)'
    <3>1. CASE u # t
      BY <1>2, <2>1, <3>1, ServiceStaysDue DEF TestInv
    <3> QED
      BY <2>7, <3>1
  <2> QED
    BY <1>1, <1>2, <1>4, <1>6, <2>5, <2>6, <2>8, KeepsTests
<1>8. CASE call'[t] = IdleCall
  <2> PICK request \in [from : Consumers, number : Numbers] : request = caller[t]
    BY <1>1, <1>2 DEF ServiceFits
  <2> PICK reply \in Replies : reply = call[t].reply
    BY <1>2, <1>8 DEF ReplyFits, Busy, IdleCall
  <2>1. /\ Receive(request, reply)
        /\ caller' = [caller EXCEPT ![t] = Nothing]
    BY <1>8 DEF HostWorks
  <2>2. ~Busy(t)'
    BY <1>8 DEF Busy, IdleCall
  <2>3. \A u \in Threads : u # t => caller'[u] = caller[u]
    BY <2>1 DEF CInv, ConsumerTypeOK
  <2>4. UnderWay' \subseteq UnderWay
    BY <1>1, <1>2, <2>2, <2>3 DEF UnderWay, Busy
  <2>5. request.from \notin UnderWay'
    BY <1>1, <1>2, <2>2, <2>3 DEF UnderWay, Busy, TestInv, OneUnderWay
  <2>6. EndsAsAsserted(request.from, request.number, reply)
    BY <1>1, <1>2, <1>8, WorkStages, AnswerIsDue DEF DueInv
  <2>7. reply \in Outcomes
    BY DEF Outcomes
  <2>8. ConsumersKeep
    BY <1>6, <2>1, <2>4, <2>5, <2>6, <2>7, ReceiveKeeps
  <2>9. OneUnderWay'
    BY <1>1, <1>2, <2>2, <2>3 DEF TestInv, OneUnderWay, Busy
  <2>10. ASSUME NEW u \in Threads PROVE ServiceDue(u)'
    <3>1. CASE u = t
      BY <1>8, <2>2, <3>1 DEF ServiceDue, IdleCall
    <3>2. CASE u # t
      <4>1. Busy(u) => caller[u].from \in Consumers /\ caller[u].from \in UnderWay'
        BY <1>2, <2>3, <3>2 DEF CInv, ServiceFits, UnderWay, Busy
      <4>2. Busy(u) => progress'[caller[u].from].number = progress[caller[u].from].number
        BY <2>8, <4>1 DEF ConsumersKeep
      <4> QED
        BY <1>2, <1>5, <2>3, <3>2, <4>2, ServiceStaysDue DEF TestInv
    <3> QED
      BY <3>1, <3>2
  <2> QED
    BY <1>1, <1>2, <1>4, <1>6, <2>8, <2>9, <2>10, KeepsTests
<1> QED
  BY <1>7, <1>8

\* Time passes, or nothing happens.
LEMMA TickOrStutterDue ==
    ASSUME CInv, TestInv, Tick \/ UNCHANGED vars, UNCHANGED consumerVars
    PROVE  TestInv'
<1>1. /\ UNCHANGED <<call, seen>> /\ now' \in Nat /\ now <= now'
      /\ UNCHANGED <<plan, progress, previous, results, network, caller, clientWriter>>
  BY DEF CInv, IInv, TypeOK, Tick, vars, consumerVars, clientVars
<1>2. TimeFrame /\ UNCHANGED UnderWay
  BY <1>1 DEF TimeFrame, UnderWay, Busy
<1>3. ConsumersKeep
  BY <1>1, <1>2, AllKeep
<1>4. DueInv'
  <2>1. [Next]_vars
    BY DEF Next
  <2> QED
    BY <2>1, NextDue DEF CInv, TestInv
<1>5. OneUnderWay'
  BY <1>1 DEF TestInv, OneUnderWay, Busy
<1>6. \A t \in Threads : ServiceDue(t)'
  BY <1>1, ServiceStaysDue DEF TestInv
<1> QED
  BY <1>1, <1>2, <1>3, <1>4, <1>5, <1>6, KeepsTests

LEMMA TestInit == ConsumerInit => TestInv
<1> SUFFICES ASSUME ConsumerInit PROVE TestInv
  OBVIOUS
<1>1. /\ CInv /\ DueInv
  BY ConsumerInitInvariant, InitDue DEF ConsumerInit
<1>2. /\ network = {} /\ seen = {}
      /\ \A t \in Threads : call[t] = IdleCall
      /\ \A f \in {SentRequest, SentRequestModified, ReceivedResponse} :
            clientWriter[f] = NoThread
  BY DEF ConsumerInit, Init, Log!LogInit
<1>3. \A t \in Threads : call[t].stage = "idle" /\ ~Busy(t)
  <2>1. IdleCall.stage = "idle"
    BY DEF IdleCall
  <2> QED
    BY <1>2, <2>1 DEF Busy
<1>4. OneUnderWay /\ SeenFits /\ ClientLogsOwned
  BY <1>2, <1>3 DEF OneUnderWay, SeenFits, ClientLogsOwned
<1>5. \A t \in Threads : ServiceDue(t)
  BY <1>3 DEF ServiceDue
<1>6. ASSUME NEW c \in Consumers PROVE ProgressDue(c) /\ ResultsDue(c)
  <2>1. /\ progress[c].step \in {"logRequest", "sign"}
        /\ previous[c] = Nothing /\ results[c] = {}
    BY DEF ConsumerInit, FirstRequest, FirstStep
  <2>2. c \notin UnderWay
    BY <1>2, <1>3 DEF UnderWay
  <2> QED
    BY <2>1, <2>2 DEF ProgressDue, ResultsDue
<1> QED
  BY <1>1, <1>2, <1>4, <1>5, <1>6 DEF TestInv

LEMMA TestNext ==
    CInv /\ TestInv /\ SettingsOfTheTests /\ [ConsumerNext]_<<vars, consumerVars>> => TestInv'
<1> SUFFICES ASSUME CInv, TestInv, SettingsOfTheTests, [ConsumerNext]_<<vars, consumerVars>>
             PROVE  TestInv'
  OBVIOUS
<1>1. CASE \E c \in Consumers : Consume(c)
  BY <1>1, ClientLogDue, SignOrWaitDue, EncodeDue DEF Consume
<1>2. CASE \E e \in network : (\E t \in Threads : Deliver(t, e)) \/ Refuse(e)
  BY <1>2, DeliverDue, RefuseDue
<1>3. CASE \E t \in Threads : HostWorks(t)
  BY <1>3, HostWorksDue
<1>4. CASE Tick /\ UNCHANGED consumerVars
  BY <1>4, TickOrStutterDue
<1>5. CASE UNCHANGED <<vars, consumerVars>>
  BY <1>5, TickOrStutterDue
<1> QED
  BY <1>1, <1>2, <1>3, <1>4, <1>5 DEF ConsumerNext

\* The tests of class Consumer, by any number of consumers at once against any number
\* of threads, with any delays and timestamps of the kind they have: every request
\* ends with what its test asserts, unless it times out, comes late, or is disturbed
\* by the disk or by another consumer.
THEOREM TestsEndAsTheyAssert == ConsumerSpec => [](SettingsOfTheTests => TestsGetWhatTheyAssert)
<1> DEFINE I == CInv /\ (SettingsOfTheTests => TestInv)
<1>1. ConsumerInit => I
  BY ConsumerInitInvariant, TestInit
<1>2. I /\ [ConsumerNext]_<<vars, consumerVars>> => I'
  <2>1. SettingsOfTheTests' <=> SettingsOfTheTests
    BY DEF SettingsOfTheTests
  <2> QED
    BY <2>1, ConsumerNextInvariant, TestNext
<1>3. I => (SettingsOfTheTests => TestsGetWhatTheyAssert)
  BY DEF TestInv, ResultsDue, TestsGetWhatTheyAssert
<1> HIDE DEF I
<1> QED
  BY <1>1, <1>2, <1>3, PTL DEF ConsumerSpec

-----------------------------------------------------------------------------
(* Why a message is refused.                                                  *)

\* No security fault waits to be logged: it does not reach the inspectors.
NoFaultToLog ==
    \A c \in Consumers :
        progress[c].step = "logResponse" => progress[c].response # SecurityFault

\* The only security faults a step hands out have a cause.
Caused ==
    \A c \in Consumers : \A r \in results'[c] \ results[c] :
        r.outcome = SecurityFault => RefusedForACause(c, r.number)

LEMMA RepliesAreNoSecurityFaults ==
    ASSUME NEW reply \in Replies
    PROVE  reply # SecurityFault
<1>1. SecurityFault.kind = "security fault"
  BY DEF SecurityFault
<1>2. CASE reply \in Tokens
  BY <1>1, <1>2 DEF Tokens
<1>3. CASE reply \in Faults
  BY <1>1, <1>3 DEF Faults
<1>4. CASE reply = FaultOfLastResort
  <2>1. FaultOfLastResort.kind = "fault of last resort"
    BY DEF FaultOfLastResort
  <2> QED
    BY <1>1, <1>4, <2>1
<1> QED
  BY <1>2, <1>3, <1>4 DEF Replies

\* A request that goes on without a response.
LEMMA ProceedIsCaused ==
    ASSUME CInv, NoFaultToLog, NEW c \in Consumers, NEW p,
           Proceed(c, p), UNCHANGED results,
           p.step = "logResponse" => p.response # SecurityFault
    PROVE  NoFaultToLog' /\ Caused
<1>1. progress'[c] = p /\ \A d \in Consumers : d # c => progress'[d] = progress[d]
  BY ProgressTypes DEF Proceed
<1> QED
  BY <1>1 DEF NoFaultToLog, Caused

\* A request that ends.
LEMMA FinishIsCaused ==
    ASSUME CInv, NoFaultToLog, NEW c \in Consumers, NEW outcome, Finish(c, outcome),
           outcome = SecurityFault => RefusedForACause(c, progress[c].number)
    PROVE  NoFaultToLog' /\ Caused
<1> DEFINE next == IF AsAsserted(c, outcome) /\ progress[c].number < Len(plan[c].requests)
                   THEN [FirstRequest EXCEPT !.number = progress[c].number + 1]
                   ELSE [progress[c] EXCEPT !.step = "done", !.writing = FALSE]
           r == [number |-> progress[c].number, outcome |-> outcome]
<1>1. results' = [results EXCEPT ![c] = @ \cup {r}] /\ Proceed(c, next)
  BY DEF Finish
<1>2. progress[c] \in ProgressType /\ progress \in [Consumers -> ProgressType]
  BY ProgressTypes
<1>3. next.step # "logResponse"
  BY <1>2 DEF ProgressType, FirstRequest, FirstStep
<1>4. r.number = progress[c].number /\ r.outcome = outcome
  OBVIOUS
<1> HIDE DEF next, r
<1>5. progress'[c] = next /\ \A d \in Consumers : d # c => progress'[d] = progress[d]
  BY <1>1, <1>2 DEF Proceed
<1>6. /\ results'[c] = results[c] \cup {r}
      /\ \A d \in Consumers : d # c => results'[d] = results[d]
  BY <1>1 DEF CInv, ConsumerTypeOK
<1>7. NoFaultToLog'
  BY <1>3, <1>5 DEF NoFaultToLog
<1>8. Caused
  BY <1>4, <1>6 DEF Caused
<1> QED
  BY <1>7, <1>8

LEMMA ReceiveIsCaused ==
    ASSUME CInv, NoFaultToLog, NEW request, request.from \in Consumers,
           NEW response, Receive(request, response),
           response = SecurityFault => RefusedForACause(request.from, request.number)
    PROVE  NoFaultToLog' /\ Caused
<1> DEFINE c == request.from
<1>1. CASE progress[c].step # "wait" \/ progress[c].number # request.number
  <2>1. UNCHANGED <<progress, results>>
    BY <1>1 DEF Receive
  <2> QED
    BY <2>1 DEF NoFaultToLog, Caused
<1>2. CASE progress[c].step = "wait" /\ progress[c].number = request.number
  <2>1. CASE response = SecurityFault \/ ~EnableClientLog
    <3>1. Finish(c, response)
      BY <1>2, <2>1 DEF Receive
    <3> QED
      BY <1>2, <3>1, FinishIsCaused
  <2>2. CASE response # SecurityFault /\ EnableClientLog
    <3> DEFINE p == [progress[c] EXCEPT !.step = "logResponse", !.response = response]
    <3>1. Proceed(c, p) /\ UNCHANGED results
      BY <1>2, <2>2 DEF Receive
    <3>2. p.response = response
      BY ProgressTypes DEF ProgressType
    <3> HIDE DEF p
    <3> QED
      BY <2>2, <3>1, <3>2, ProceedIsCaused
  <2> QED
    BY <2>1, <2>2
<1> QED
  BY <1>1, <1>2

\* A consumer ends its own requests with what it has logged, or an exception.
LEMMA ConsumeIsCaused ==
    ASSUME CInv, NoFaultToLog, NEW c \in Consumers, Consume(c)
    PROVE  NoFaultToLog' /\ Caused
<1>1. progress[c] \in ProgressType
  BY ProgressTypes
<1>2. \A exception : Thrown(exception) # SecurityFault
  BY DEF Thrown, SecurityFault
<1>3. CASE ClientLogThrows(c) \/ TimeOut(c)
  BY <1>2, <1>3, FinishIsCaused DEF ClientLogThrows, TimeOut
<1>4. CASE OpenClientLog(c)
  <2> DEFINE p == [progress[c] EXCEPT !.writing = TRUE]
  <2>1. Proceed(c, p) /\ UNCHANGED results
    BY <1>4 DEF OpenClientLog
  <2>2. p.step = progress[c].step /\ p.response = progress[c].response
    BY <1>1 DEF ProgressType
  <2> HIDE DEF p
  <2> QED
    BY <2>1, <2>2, ProceedIsCaused DEF NoFaultToLog
<1>5. CASE CloseClientLog(c)
  <2>1. CASE progress[c].step = "logResponse"
    <3>1. Finish(c, progress[c].response)
      BY <1>5, <2>1 DEF CloseClientLog
    <3> QED
      BY <2>1, <3>1, FinishIsCaused DEF NoFaultToLog
  <2>2. CASE progress[c].step # "logResponse"
    <3> DEFINE p == [progress[c] EXCEPT !.writing = FALSE,
                        !.step = IF progress[c].step = "logRequest" /\ plan[c].clearsBody
                                 THEN "logModified" ELSE "sign"]
    <3>1. Proceed(c, p) /\ UNCHANGED results
      BY <1>5, <2>2 DEF CloseClientLog
    <3>2. p.step # "logResponse"
      BY <1>1 DEF ProgressType
    <3> HIDE DEF p
    <3> QED
      BY <3>1, <3>2, ProceedIsCaused
  <2> QED
    BY <2>1, <2>2
<1>6. CASE Sign(c) \/ FallAsleep(c)
  <2>1. PICK p : Proceed(c, p) /\ p.step \in {"encode", "asleep"} /\ UNCHANGED results
    BY <1>1, <1>6 DEF Sign, FallAsleep, ProgressType
  <2> QED
    BY <2>1, ProceedIsCaused
<1>7. CASE EncodeText(c) \/ Modify(c) \/ Wake(c)
  <2> DEFINE p == [progress[c] EXCEPT !.step = "wait", !.message = Nothing]
  <2>1. Proceed(c, p) /\ UNCHANGED results
    BY <1>7 DEF EncodeText, Modify, Wake, Send
  <2>2. p.step = "wait"
    BY <1>1 DEF ProgressType
  <2> HIDE DEF p
  <2> QED
    BY <2>1, <2>2, ProceedIsCaused
<1> QED
  BY <1>3, <1>4, <1>5, <1>6, <1>7 DEF Consume

\* What the channel refuses has been tampered with, was seen before, or is late: it
\* has seen before only what the test has sent before.
LEMMA RefusalHasACause ==
    ASSUME CInv, SettingsOfTheTests, NEW e \in network, EntryDue(e), ~Authentic(e.message)
    PROVE  RefusedForACause(e.from, e.number)
<1> DEFINE c == e.from
           m == e.message
<1>1. /\ c \in Consumers /\ m \in Messages /\ plan[c] \in Plans
      /\ e.number \in 1 .. Len(plan[c].requests) /\ e.number \in Nat \ {0}
  BY ProgressTypes, NumbersAreNatural DEF CInv, ConsumerTypeOK, EntryFits, Asking
<1>2. PICK clock \in 0..now : m = Damaged(c, Dated(c, NumberSent(c, e.number), clock))
  BY DEF EntryDue
<1>3. CASE plan[c].encoder = "tamper"
  BY <1>3 DEF RefusedForACause
<1>4. CASE Replays(c) /\ e.number # 1
  BY <1>1, <1>4 DEF RefusedForACause, Replays
<1>5. CASE plan[c].encoder # "tamper" /\ (e.number = 1 \/ ~Replays(c))
  <2>1. ~Replayed(m)
    BY <1>1, <1>5 DEF EntryDue
  <2>2. /\ m.intact = TRUE /\ m.created = clock
        /\ m.certificate = RequestOf(c, e.number).certificate
    BY <1>2, <1>5 DEF Damaged, Dated, SignedAt, NumberSent, RequestOf
  <2>3. Usual(RequestOf(c, e.number))
    BY <1>1, PlanExpectsWhatIsDue DEF RequestOf
  <2>4. ~Fresh(m)
    BY <2>1, <2>2, <2>3 DEF Authentic, KnownCertificate, Usual
  <2>5. now > m.expires + ChannelClockSkew
    BY <1>1, <2>2, <2>4, PlanTypes, StsHostAssumption DEF Fresh
  <2> QED
    BY <2>5 DEF RefusedForACause
<1> QED
  BY <1>1, <1>3, <1>4, <1>5

LEMMA RefuseIsCaused ==
    ASSUME CInv, TestInv, NoFaultToLog, SettingsOfTheTests, NEW e \in network, Refuse(e)
    PROVE  NoFaultToLog' /\ Caused
<1>1. Receive(e, SecurityFault) /\ ~Authentic(e.message)
  BY DEF Refuse, RefuseMessage
<1>2. e.from \in Consumers /\ EntryDue(e)
  BY DEF CInv, ConsumerTypeOK, TestInv
<1> QED
  BY <1>1, <1>2, RefusalHasACause, ReceiveIsCaused

LEMMA HostWorksIsCaused ==
    ASSUME CInv, NoFaultToLog, NEW t \in Threads, HostWorks(t)
    PROVE  NoFaultToLog' /\ Caused
<1>1. CASE call'[t] # IdleCall
  <2>1. UNCHANGED <<progress, results>>
    BY <1>1 DEF HostWorks, clientVars
  <2> QED
    BY <2>1 DEF NoFaultToLog, Caused
<1>2. CASE call'[t] = IdleCall
  <2>1. Busy(t) /\ (Busy(t)' \/ ReplyFits(call[t].message, call[t].reply))
    BY WorkCall DEF HostWorks, CInv
  <2>2. call[t].reply \in Replies
    BY <1>2, <2>1 DEF Busy, IdleCall, ReplyFits
  <2>3. caller[t].from \in Consumers /\ Receive(caller[t], call[t].reply)
    BY <1>2, <2>1 DEF CInv, ServiceFits, HostWorks
  <2>4. call[t].reply # SecurityFault
    BY <2>2, RepliesAreNoSecurityFaults
  <2> QED
    BY <2>3, <2>4, ReceiveIsCaused
<1> QED
  BY <1>1, <1>2

LEMMA NextIsCaused ==
    ASSUME CInv, TestInv, NoFaultToLog, SettingsOfTheTests,
           [ConsumerNext]_<<vars, consumerVars>>
    PROVE  NoFaultToLog' /\ Caused
<1>1. CASE \E c \in Consumers : Consume(c)
  BY <1>1, ConsumeIsCaused
<1>2. CASE \E e \in network : (\E t \in Threads : Deliver(t, e)) \/ Refuse(e)
  <2>1. CASE \E e \in network, t \in Threads : Deliver(t, e)
    <3>1. UNCHANGED <<progress, results>>
      BY <2>1 DEF Deliver, clientVars
    <3> QED
      BY <3>1 DEF NoFaultToLog, Caused
  <2> QED
    BY <1>2, <2>1, RefuseIsCaused
<1>3. CASE \E t \in Threads : HostWorks(t)
  BY <1>3, HostWorksIsCaused
<1>4. CASE UNCHANGED consumerVars
  <2>1. UNCHANGED <<progress, results>>
    BY <1>4 DEF consumerVars, clientVars
  <2> QED
    BY <2>1 DEF NoFaultToLog, Caused
<1> QED
  BY <1>1, <1>2, <1>3, <1>4 DEF ConsumerNext

\* The tests of class Consumer, however many run at once: a consumer is refused with a
\* security fault only for a message its own test has spoilt or sent before, or for one
\* that has itself come too late; no other test's messages, nor its own earlier ones,
\* are held against it.
THEOREM RefusalsAreCaused == SettingsOfTheTests /\ ConsumerSpec => RefusalsHaveACause
<1> DEFINE I == SettingsOfTheTests /\ CInv /\ TestInv /\ NoFaultToLog
<1>1. SettingsOfTheTests /\ ConsumerInit => I
  <2>1. ConsumerInit => NoFaultToLog
    BY DEF ConsumerInit, NoFaultToLog, FirstRequest, FirstStep
  <2> QED
    BY <2>1, ConsumerInitInvariant, TestInit
<1>2. I /\ [ConsumerNext]_<<vars, consumerVars>> => I'
  <2>1. SettingsOfTheTests' <=> SettingsOfTheTests
    BY DEF SettingsOfTheTests
  <2> QED
    BY <2>1, ConsumerNextInvariant, TestNext, NextIsCaused
<1>3. I /\ [ConsumerNext]_<<vars, consumerVars>>
         => [\A c \in Consumers : \A r \in results'[c] \ results[c] :
                r.outcome = SecurityFault => RefusedForACause(c, r.number)]_<<vars, consumerVars>>
  BY NextIsCaused DEF Caused
<1> HIDE DEF I
<1> QED
  BY <1>1, <1>2, <1>3, PTL DEF ConsumerSpec, RefusalsHaveACause

-----------------------------------------------------------------------------
(* The consumers are clients as the host expects them.                        *)

\* What the consumers do to the host is what any client may do.
LEMMA ConsumerStepsAreHostSteps ==
    CInv /\ [ConsumerNext]_<<vars, consumerVars>> => [Next]_vars
<1> SUFFICES ASSUME CInv, [ConsumerNext]_<<vars, consumerVars>>
             PROVE  Next \/ UNCHANGED vars
  OBVIOUS
<1>1. CASE \E c \in Consumers : Consume(c)
  <2>1. PICK c \in Consumers : Consume(c)
    BY <1>1
  <2>2. CASE OpenClientLog(c) \/ ClientLogThrows(c) \/ CloseClientLog(c)
    BY <2>2 DEF OpenClientLog, ClientLogThrows, CloseClientLog
  <2>3. CASE Sign(c) \/ FallAsleep(c) \/ TimeOut(c)
    BY <2>3 DEF Sign, FallAsleep, TimeOut
  <2>4. CASE EncodeText(c) \/ Modify(c) \/ Wake(c)
    BY <2>4 DEF EncodeText, Modify, Wake
  <2> QED
    BY <2>1, <2>2, <2>3, <2>4 DEF Consume
<1>2. CASE \E e \in network : (\E t \in Threads : Deliver(t, e)) \/ Refuse(e)
  <2>1. \A e \in network : e.message \in Messages
    BY DEF CInv, ConsumerTypeOK
  <2> QED
    BY <1>2, <2>1 DEF Deliver, Refuse, Next
<1>3. CASE \E t \in Threads : HostWorks(t)
  BY <1>3 DEF HostWorks, Next
<1>4. CASE Tick /\ UNCHANGED consumerVars
  BY <1>4 DEF Next
<1>5. CASE UNCHANGED <<vars, consumerVars>>
  BY <1>5
<1> QED
  BY <1>1, <1>2, <1>3, <1>4, <1>5 DEF ConsumerNext

\* With its consumers the host behaves as module StsHost says it does with any
\* clients: whatever is proved of the host holds of it here.
THEOREM ConsumersUseTheHost == ConsumerSpec => Spec
<1>1. ConsumerInit => Init
  BY DEF ConsumerInit
<1> QED
  BY <1>1, ConsumerInvariance, ConsumerStepsAreHostSteps, PTL DEF ConsumerSpec, Spec

\* Its consumers see the host keep the promise of TokenIssuing: each accepted message
\* gets one reply, the one that is due to it unless a log took it away.
THEOREM ConsumersGetThePromise == ConsumerSpec => ImplementsTokenIssuing
<1> QED
  BY ConsumersUseTheHost, HostKeepsThePromise, PTL

=============================================================================
