------------------------------ MODULE StsToken ------------------------------
(***************************************************************************)
(* What the security token service computes for one request: the validation *)
(* of the client certificate, the scope, the output claims, the lifetime    *)
(* and the SAML 2.0 token, with every error these raise.  Only pure         *)
(* operators: the order in which a host runs them is module StsHost.        *)
(***************************************************************************)
EXTENDS Integers

CONSTANTS
    DefaultTokenLifetime,  \* lifetime of a token whose request names no expiry
    MaximumTokenLifetime,  \* longest lifetime a request may ask for
    MaxClockSkew,          \* tolerance of the lifetime checks
    ConfirmationLifetime,  \* Constants.MaximumTokenLifetime of the STS
    BaseNameClaims         \* NameIdentifier claims the base handler derives

ASSUME StsTokenAssumption ==
    /\ DefaultTokenLifetime \in Nat \ {0}
    /\ MaximumTokenLifetime \in Nat
    /\ DefaultTokenLifetime <= MaximumTokenLifetime
    /\ MaxClockSkew \in Nat
    /\ ConfirmationLifetime \in Nat
    /\ DefaultTokenLifetime + MaxClockSkew <= ConfirmationLifetime
    /\ BaseNameClaims \in {0, 1}

-----------------------------------------------------------------------------
(* Data.  Certificates are named by the setting that holds their thumbprint. *)

Certificates == {"client", "onBehalfOf", "stsService", "unknown"}
NameIds == {"Hans Jensen", "Maren Jensdatter", "someone else"}
AppliesTos == {"service", "bootstrap", "noconnectionfound", "dummyError", "missing"}
KeyTypes == {"bearer", "symmetric", "asymmetric"}
RequestClaims == {"cvr", "other"}

\* The content of the OnBehalfOf element: absent, a SAML 2.0 token with the
\* name of its subject ("none" when its subject has no NameID), an X.509 token,
\* a token of another type, or one that no handler can read.
NoOnBehalfOf == [kind |-> "none", who |-> "none"]
OnBehalfOfs ==
    {NoOnBehalfOf} \cup [kind : {"saml2"}, who : NameIds \cup {"none"}]
                   \cup [kind : {"x509"}, who : Certificates]
                   \cup [kind : {"other", "unreadable"}, who : {"none"}]

\* A bound of the requested lifetime that the request does not set.
Unset == -1
Lifetimes == [created : Nat \cup {Unset}, expires : Nat \cup {Unset}]

Rsts == [appliesTo : AppliesTos, claims : SUBSET RequestClaims,
         onBehalfOf : OnBehalfOfs, keyType : KeyTypes,
         secondaryKeyType : KeyTypes \cup {"none"}, lifetime : Lifetimes]

\* An exception in flight; only a FaultException carries a fault code.
FaultCodes == {"5002", "5015", "5050", "5607", "InvalidRequest", "Sender"}
FaultException(code) == [type |-> "FaultException", code |-> code]
IOException == [type |-> "IOException", code |-> "none"]
OtherException == [type |-> "Exception", code |-> "none"]
NoException == [type |-> "none", code |-> "none"]
Exceptions == {NoException, OtherException, IOException} \cup
              [type : {"FaultException"}, code : FaultCodes]

Attributes == {"AssuranceLevel 1", "AssuranceLevel 4", "SpecVer", "KombitSpecVer",
               "CvrNumberIdentifier", "Privileges_intermediate"}
Periods == [notBefore : Int, notOnOrAfter : Int]
Tokens == [kind : {"token"}, subject : NameIds, confirmedBy : NameIds \cup {"none"},
           method : {"bearer", "holder-of-key"}, recipient : AppliesTos,
           audience : AppliesTos, conditions : Periods, confirmationExpires : Int,
           attributes : SUBSET Attributes]
Faults == [kind : {"fault"}, code : FaultCodes]

-----------------------------------------------------------------------------
(* The client certificate. *)

\* Constants.GetSubjectNameId: everybody but the valid client is Maren.
GetSubjectNameId(certificate) ==
    IF certificate = "client" THEN "Hans Jensen" ELSE "Maren Jensdatter"

KnownCertificate(certificate) ==
    certificate \in {"client", "onBehalfOf", "stsService"}

\* The claims ValidateToken leaves: the first NameIdentifier claim of the base
\* handler is removed, one with the subject's name and the requestor are added.
Principal(certificate) ==
    LET kept == IF BaseNameClaims > 0 THEN BaseNameClaims - 1 ELSE 0
    IN [requestor |-> certificate, name |-> GetSubjectNameId(certificate),
        nameClaims |-> kept + 1]

-----------------------------------------------------------------------------
(* The request: scope, lifetime and claims, each with what it throws. *)

\* CheckIfErrorShouldBeThrown; an absent AppliesTo is a NullReferenceException.
ScopeException(rst) ==
    CASE rst.appliesTo = "missing" -> OtherException
      [] rst.appliesTo = "noconnectionfound" -> FaultException("5002")
      [] OTHER -> NoException

\* GetScope lets the SecondaryParameters override the key type in the request.
WithSecondaryParameters(rst) ==
    IF rst.secondaryKeyType = "none" THEN rst
    ELSE [rst EXCEPT !.keyType = rst.secondaryKeyType]

\* The base service's GetTokenLifetime under the configured default.
GetTokenLifetime(lifetime, clock) ==
    LET created == IF lifetime.created = Unset THEN clock ELSE lifetime.created
    IN [notBefore |-> created,
        notOnOrAfter |-> IF lifetime.expires = Unset
                         THEN created + DefaultTokenLifetime ELSE lifetime.expires]

\* Mistaken form of LifetimeException: the longest lifetime itself is refused.
LifetimeExceptionAtLimit(period, clock) ==
    IF \/ period.notOnOrAfter + MaxClockSkew < clock
       \/ period.notBefore > clock + MaxClockSkew
       \/ period.notOnOrAfter <= period.notBefore
       \/ period.notOnOrAfter - period.notBefore >= MaximumTokenLifetime
    THEN FaultException("InvalidRequest")
    ELSE NoException

\* The base service's checks of the lifetime it computed.
LifetimeException(period, clock) ==
    IF \/ period.notOnOrAfter + MaxClockSkew < clock
       \/ period.notBefore > clock + MaxClockSkew
       \/ period.notOnOrAfter <= period.notBefore
       \/ period.notOnOrAfter - period.notBefore > MaximumTokenLifetime
    THEN FaultException("InvalidRequest")
    ELSE NoException

\* Mistaken form of ClaimsException: the claims are looked at before the user.
ClaimsExceptionClaimsFirst(principal, rst) ==
    IF rst.claims = {} THEN FaultException("5015")
    ELSE IF principal.requestor = "stsService" THEN FaultException("5607")
    ELSE IF rst.onBehalfOf.kind = "unreadable" THEN FaultException("Sender")
    ELSE NoException

\* GetOutputClaimsIdentity: the STS's own certificate has no user, a request
\* must carry some claim, an OnBehalfOf token must be readable.
ClaimsException(principal, rst) ==
    IF principal.requestor = "stsService" THEN FaultException("5607")
    ELSE IF rst.claims = {} THEN FaultException("5015")
    ELSE IF rst.onBehalfOf.kind = "unreadable" THEN FaultException("Sender")
    ELSE NoException

UserAttributes == {"SpecVer", "KombitSpecVer", "CvrNumberIdentifier"}

GetOutputClaimsIdentity(principal, rst) ==
    LET level == IF rst.onBehalfOf # NoOnBehalfOf \/ principal.requestor = "onBehalfOf"
                 THEN "AssuranceLevel 4" ELSE "AssuranceLevel 1"
        user == IF rst.onBehalfOf # NoOnBehalfOf
                   \/ principal.requestor \in {"client", "onBehalfOf"}
                THEN {level} \cup UserAttributes ELSE {}
    IN user \cup {"Privileges_intermediate"}

-----------------------------------------------------------------------------
(* The token. *)

\* Two NameIdentifier claims make CreateSamlSubject throw ID4139; the name of
\* a SAML OnBehalfOf token without NameID is a NullReferenceException.
SubjectException(principal, rst) ==
    IF \/ principal.nameClaims > 1
       \/ rst.onBehalfOf = [kind |-> "saml2", who |-> "none"]
    THEN OtherException ELSE NoException

\* The subject is the caller unless the OnBehalfOf token names somebody else.
SubjectName(principal, rst) ==
    CASE rst.onBehalfOf.kind = "saml2" -> rst.onBehalfOf.who
      [] rst.onBehalfOf.kind = "x509" -> GetSubjectNameId(rst.onBehalfOf.who)
      [] OTHER -> principal.name

\* Mistaken form of ConfirmationExpires: the lifetime is not added to the clock.
ConfirmationExpiresNow(lifetime, clock) ==
    IF lifetime.expires # Unset THEN lifetime.expires ELSE clock

\* NotOnOrAfter of the confirmation data: the requested expiry or the clock.
ConfirmationExpires(lifetime, clock) ==
    IF lifetime.expires # Unset THEN lifetime.expires
    ELSE clock + ConfirmationLifetime

\* CreateToken: "rst" is the request the handler was constructed with,
\* "request" the one the service is issuing for.
CreateToken(principal, request, rst, period, clock) ==
    [kind |-> "token",
     subject |-> SubjectName(principal, rst),
     confirmedBy |-> IF rst.onBehalfOf # NoOnBehalfOf THEN principal.name ELSE "none",
     method |-> IF WithSecondaryParameters(request).keyType = "bearer"
                THEN "bearer" ELSE "holder-of-key",
     recipient |-> rst.appliesTo,
     audience |-> request.appliesTo,
     conditions |-> period,
     confirmationExpires |-> ConfirmationExpires(rst.lifetime, clock),
     attributes |-> GetOutputClaimsIdentity(principal, request)]

-----------------------------------------------------------------------------
(* Errors. *)

\* Mistaken form of ProvideFault: an exception that has no code keeps none.
ProvideFaultWithoutCode(exception) == [kind |-> "fault", code |-> exception.code]

\* A FaultException keeps its code, any other exception becomes 5050.
ProvideFault(exception) ==
    [kind |-> "fault",
     code |-> IF exception.type = "FaultException" THEN exception.code ELSE "5050"]
=============================================================================
