------------------------------ MODULE WsdlExport ------------------------------
(***************************************************************************)
(* The metadata of the token service.  WCF exports the endpoints one after  *)
(* the other into one service description; DecoratedEndpointBehavior then   *)
(* cuts the description down to the Issue operation: the port types by a    *)
(* list of what is supported, the binding by a list of what is not.  The    *)
(* class provides for three contracts; WsTrustServiceHostFactory configures  *)
(* one of them.  For each operation it removes from the binding it goes over *)
(* the policies of all endpoints and takes one TransportBinding out of each. *)
(***************************************************************************)
EXTENDS Naturals, Sequences, FiniteSets

CONSTANTS
    Contracts,    \* the contracts of the endpoints that are decorated
    Transports    \* the TransportBindings the policy of an endpoint may have

AllContracts == {"IWSTrustFeb2005Async", "IWSTrust13Async", "IWSTrust13Sync"}

\* The TransportBindings of a policy, in document order, each by its place: a child
\* of the first alternative, or an element anywhere else in the policy.
Places == {"alternative", "elsewhere"}

ASSUME WsdlExportAssumption ==
    /\ Contracts \subseteq AllContracts
    /\ Transports \subseteq Seq(Places)

\* The WS-Trust operations of a contract, and the name of each one in the WSDL:
\* Trust13Cancel, Trust13CancelResponse, Trust13CancelAsync and so on.
Operations(c) == [contract : {c}, verb : {"Cancel", "Issue", "Renew", "Validate"},
                  response : BOOLEAN]
AllOperations == UNION {Operations(c) : c \in AllContracts}
Directions == {"input", "output"}

VARIABLES
    exported,    \* the contracts in the description, in the order of their port types
    portTypes,   \* portTypes[c]: the operations of the port type of c
    bindings,    \* bindings[c]: the operations of the binding of its endpoint
    messages,    \* the messages of the description
    policies,    \* the policies of operations
    transports,  \* transports[c]: the TransportBindings left in the policy of c
    failed,      \* the contract whose export threw, if any
    policed,     \* policed[c]: the directions the binding of c has policies for
    bound        \* bound[c]: the TransportBindings it has

endpointVars == <<policed, bound>>   \* given by the bindings
description == <<exported, portTypes, bindings, messages, policies, transports>>
vars == <<description, failed, endpointVars>>

Exported == {exported[i] : i \in 1 .. Len(exported)}

Init ==
    /\ exported = <<>>
    /\ portTypes = [c \in Contracts |-> {}]
    /\ bindings = [c \in Contracts |-> {}]
    /\ messages = {}
    /\ policies = {}
    /\ transports = [c \in Contracts |-> <<>>]
    /\ failed = {}
    /\ policed \in [Contracts -> SUBSET Directions]
    /\ bound \in [Contracts -> Transports]

-----------------------------------------------------------------------------
IsAValidServiceContract(c, o) == c = o.contract /\ o.verb = "Issue" /\ ~o.response

\* Mistaken form of UnSupportedOperations: no response operations.
UnSupportedRequests == {o \in AllOperations : o.verb # "Issue" /\ ~o.response}

\* The constructor's list.
UnSupportedOperations == {o \in AllOperations : o.verb # "Issue" \/ o.response}

\* Mistaken forms of Listed, where each port type is compared with the contract
\* that is exported instead of its own name; with a list of its own as well.
ListedByExported(order, types, i) ==
    UNION {{o \in types[order[j]] : ~IsAValidServiceContract(order[Len(order)], o)} :
              j \in 1 .. i}
ListedAnew(order, types, i) ==
    {o \in types[order[i]] : ~IsAValidServiceContract(order[Len(order)], o)}

\* The list of operations to remove when port type number i has been gone through;
\* it still has those of the port types before.
Listed(order, types, i) ==
    UNION {{o \in types[order[j]] : ~IsAValidServiceContract(order[j], o)} : j \in 1 .. i}

\* All of the list is removed from the port type; an operation of another one throws.
RemoveThrows(order, types) ==
    \E i \in 1 .. Len(order) : ~(Listed(order, types, i) \subseteq types[order[i]])

\* Mistaken form of MessagesOf: the second comparison is missing.
InputMessagesOf(operations) == [operation : operations, direction : {"input"}]
MessagesOf(operations) == [operation : operations, direction : Directions]

\* RemoveRedundantOperationPolicy: the policies an operation refers to.
PoliciesOf(operations) == [operation : operations, direction : Directions]

\* The search goes over the policies of all endpoints once for each operation that
\* is removed, and removes the first TransportBinding of each from the policy's
\* first alternative; one in another place is not a child of that and throws.
AfterPasses(places, n) == SubSeq(places, n + 1, Len(places))
PassThrows(places, n) == \E i \in 1 .. Len(places) : i <= n /\ places[i] = "elsewhere"

\* WCF exports contract and binding, their parts last in the description, and calls
\* ExportEndpoint.  After an exception the description is given up.
ExportEndpoint(c) ==
    LET order == Append(exported, c)
        types == [portTypes EXCEPT ![c] = Operations(c)]
        redundant == Listed(order, types, Len(order))
        unsupported == Operations(c) \cap UnSupportedOperations
        places == [transports EXCEPT ![c] = bound[c]]
        passes == Cardinality(unsupported)
    IN /\ failed = {}
       /\ c \notin Exported
       /\ IF RemoveThrows(order, types) \/ \E d \in Contracts : PassThrows(places[d], passes)
          THEN failed' = {c} /\ UNCHANGED description
          ELSE /\ exported' = order
               /\ portTypes' = [d \in Contracts |->
                     types[d] \ UNION {Listed(order, types, i) :
                                          i \in {j \in 1 .. Len(order) : order[j] = d}}]
               /\ messages' = (messages \cup [operation : Operations(c), direction : Directions])
                              \ MessagesOf(redundant)
               /\ bindings' = [bindings EXCEPT ![c] = Operations(c) \ unsupported]
               /\ policies' = (policies \cup [operation : Operations(c),
                                              direction : policed[c]])
                              \ PoliciesOf(unsupported)
               /\ transports' = [d \in Contracts |-> AfterPasses(places[d], passes)]
               /\ UNCHANGED failed
       /\ UNCHANGED endpointVars

Next == \E c \in Contracts : ExportEndpoint(c)

Spec == Init /\ [][Next]_vars

-----------------------------------------------------------------------------
\* The list of what is supported and the list of what is not agree: the binding
\* of an exported endpoint has just the operation its port type offers, Issue.
BindingsImplementPortTypes ==
    \A c \in Exported :
        /\ bindings[c] = portTypes[c]
        /\ \E o \in portTypes[c] : portTypes[c] = {o} /\ o.verb = "Issue"

\* The description is closed: it has the messages of the operations it offers and
\* no others, and no policy of an operation it does not offer.
NothingDangles ==
    LET offered == UNION {portTypes[c] : c \in Contracts}
    IN /\ messages = [operation : offered, direction : Directions]
       /\ \A p \in policies : p.operation \in offered

\* An export fails only for a policy, its own or that of an endpoint exported before,
\* with a TransportBinding outside of the first alternative.  In no order does the
\* list that ExportEndpoint keeps across port types make Operations.Remove throw.
FailedExportsHaveACause ==
    failed # {} => \E c \in Exported \cup failed :
                       \E i \in 1 .. Len(bound[c]) : bound[c][i] = "elsewhere"

\* Exporting an endpoint leaves what the earlier ones offer.
EarlierExportsStay ==
    [][\A c \in Exported : portTypes'[c] = portTypes[c] /\ bindings'[c] = bindings[c]]_vars
=============================================================================
