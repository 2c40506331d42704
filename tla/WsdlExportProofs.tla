--------------------------- MODULE WsdlExportProofs ---------------------------
(***************************************************************************)
(* The metadata of the token service is consistent whichever contracts are  *)
(* decorated, whatever policies their bindings have and in whatever order   *)
(* their endpoints are exported.                                            *)
(***************************************************************************)
EXTENDS WsdlExport, FiniteSetTheorems, TLAPS

-----------------------------------------------------------------------------
(* The inductive invariant: the description after some exports is the Issue   *)
(* operation of each contract exported and nothing else.                      *)

IssueOf(c) == [contract |-> c, verb |-> "Issue", response |-> FALSE]
IssueIfExported(c) == IF c \in Exported THEN {IssueOf(c)} ELSE {}
Issues == {IssueOf(c) : c \in Exported}

PortTypesInv == portTypes = [c \in Contracts |-> IssueIfExported(c)]
BindingsInv == bindings = [c \in Contracts |-> IssueIfExported(c)]
MessagesInv == messages = [operation : Issues, direction : Directions]
PoliciesInv == policies \subseteq [operation : Issues, direction : Directions]

\* A TransportBinding that is left stood in the same policy from the start.
Misplaced(places) == \E i \in 1 .. Len(places) : places[i] = "elsewhere"
TransportsInv ==
    /\ transports \in [Contracts -> Seq(Places)]
    /\ \A c \in Contracts : Misplaced(transports[c]) => c \in Exported /\ Misplaced(bound[c])

IInv ==
    /\ exported \in Seq(Contracts)
    /\ policed \in [Contracts -> SUBSET Directions]
    /\ bound \in [Contracts -> Transports]
    /\ PortTypesInv
    /\ BindingsInv
    /\ MessagesInv
    /\ PoliciesInv
    /\ TransportsInv
    /\ FailedExportsHaveACause

-----------------------------------------------------------------------------
(* The two lists of the class. *)

\* Of the operations of a contract, the list of what is supported and the list
\* of what is not leave the same one.
LEMMA ListsAgree ==
    ASSUME NEW c \in Contracts
    PROVE  /\ IssueOf(c) \in Operations(c)
           /\ \A o \in Operations(c) : IsAValidServiceContract(c, o) <=> o = IssueOf(c)
           /\ Operations(c) \cap UnSupportedOperations = Operations(c) \ {IssueOf(c)}
<1>1. c \in AllContracts
  BY WsdlExportAssumption
<1>2. IssueOf(c) \in Operations(c)
  BY DEF IssueOf, Operations
<1>3. \A o \in Operations(c) : (o.verb = "Issue" /\ ~o.response) <=> o = IssueOf(c)
  BY DEF IssueOf, Operations
<1>4. \A o \in Operations(c) : o.contract = c /\ o \in AllOperations
  BY <1>1 DEF Operations, AllOperations
<1>5. \A o \in Operations(c) : IsAValidServiceContract(c, o) <=> o = IssueOf(c)
  BY <1>3, <1>4 DEF IsAValidServiceContract
<1>6. Operations(c) \cap UnSupportedOperations = Operations(c) \ {IssueOf(c)}
  BY <1>3, <1>4 DEF UnSupportedOperations
<1> QED
  BY <1>2, <1>5, <1>6

\* The contract that is exported comes last, behind those exported before.
LEMMA NewPortType ==
    ASSUME IInv, NEW c \in Contracts, c \notin Exported
    PROVE  LET order == Append(exported, c)
               types == [portTypes EXCEPT ![c] = Operations(c)]
           IN /\ order \in Seq(Contracts)
              /\ Len(order) = Len(exported) + 1
              /\ order[Len(order)] = c
              /\ \A i \in 1 .. Len(exported) : order[i] \in Exported /\ order[i] # c
              /\ {order[i] : i \in 1 .. Len(order)} = Exported \cup {c}
              /\ types[c] = Operations(c)
              /\ \A d \in Contracts : d # c => types[d] = IssueIfExported(d)
<1> DEFINE order == Append(exported, c)
<1>1. exported \in Seq(Contracts)
  BY DEF IInv
<1>2. /\ order \in Seq(Contracts) /\ Len(order) = Len(exported) + 1 /\ Len(exported) \in Nat
      /\ order[Len(order)] = c
      /\ \A i \in 1 .. Len(exported) : order[i] = exported[i]
  BY <1>1
<1>3. \A i \in 1 .. Len(exported) : order[i] \in Exported /\ order[i] # c
  BY <1>2 DEF Exported
<1>4. \A i \in 1 .. Len(order) : i \in 1 .. Len(exported) \/ i = Len(order)
  BY <1>2
<1>5. 1 .. Len(exported) \subseteq 1 .. Len(order) /\ Len(order) \in 1 .. Len(order)
  BY <1>2
<1> HIDE DEF order
<1>6. {order[i] : i \in 1 .. Len(order)} = Exported \cup {c}
  BY <1>2, <1>4, <1>5 DEF Exported
<1> QED
  BY <1>2, <1>3, <1>6 DEF order, IInv, PortTypesInv

\* Exporting goes through the port types of the earlier endpoints first and lists
\* nothing there; what it lists of the new one, the last, can be removed from it.
LEMMA ListedOperations ==
    ASSUME IInv, NEW c \in Contracts, c \notin Exported
    PROVE  LET order == Append(exported, c)
               types == [portTypes EXCEPT ![c] = Operations(c)]
           IN /\ \A i \in 1 .. Len(exported) : Listed(order, types, i) = {}
              /\ Listed(order, types, Len(order)) = Operations(c) \ {IssueOf(c)}
              /\ ~RemoveThrows(order, types)
<1> DEFINE order == Append(exported, c)
           types == [portTypes EXCEPT ![c] = Operations(c)]
           redundant(j) == {o \in types[order[j]] : ~IsAValidServiceContract(order[j], o)}
<1>1. /\ order \in Seq(Contracts)
      /\ Len(order) = Len(exported) + 1
      /\ order[Len(order)] = c
      /\ \A i \in 1 .. Len(exported) : order[i] \in Exported /\ order[i] # c
      /\ types[c] = Operations(c)
      /\ \A d \in Contracts : d # c => types[d] = IssueIfExported(d)
  BY NewPortType
<1>2. Len(exported) \in Nat
  BY DEF IInv
<1>3. \A i : Listed(order, types, i) = UNION {redundant(j) : j \in 1 .. i}
  BY DEF Listed
<1> HIDE DEF order, types
<1>4. \A j \in 1 .. Len(exported) : redundant(j) = {}
  <2> SUFFICES ASSUME NEW j \in 1 .. Len(exported)
               PROVE  \A o \in types[order[j]] : IsAValidServiceContract(order[j], o)
    OBVIOUS
  <2>1. order[j] \in Contracts
    BY <1>1, <1>2
  <2>2. types[order[j]] \subseteq {IssueOf(order[j])}
    BY <1>1, <2>1 DEF IssueIfExported
  <2>3. IsAValidServiceContract(order[j], IssueOf(order[j]))
    BY <2>1, ListsAgree
  <2> QED
    BY <2>2, <2>3
<1>5. redundant(Len(order)) = Operations(c) \ {IssueOf(c)}
  BY <1>1, ListsAgree
<1> HIDE DEF redundant
<1>6. \A i \in 1 .. Len(exported) : Listed(order, types, i) = {}
  <2> SUFFICES ASSUME NEW i \in 1 .. Len(exported)
               PROVE  \A j \in 1 .. i : redundant(j) = {}
    BY <1>3
  <2>1. 1 .. i \subseteq 1 .. Len(exported)
    BY <1>2
  <2> QED
    BY <1>4, <2>1
<1>7. Listed(order, types, Len(order)) = Operations(c) \ {IssueOf(c)}
  <2>1. /\ \A j \in 1 .. Len(order) : j \in 1 .. Len(exported) \/ j = Len(order)
        /\ Len(order) \in 1 .. Len(order)
    BY <1>1, <1>2
  <2>2. \A j \in 1 .. Len(order) : redundant(j) \subseteq redundant(Len(order))
    BY <1>4, <2>1
  <2>3. UNION {redundant(j) : j \in 1 .. Len(order)} = redundant(Len(order))
    BY <2>1, <2>2
  <2> QED
    BY <1>3, <1>5, <2>3
<1>8. ~RemoveThrows(order, types)
  <2> SUFFICES ASSUME NEW i \in 1 .. Len(order)
               PROVE  Listed(order, types, i) \subseteq types[order[i]]
    BY DEF RemoveThrows
  <2>1. CASE i \in 1 .. Len(exported)
    BY <1>6, <2>1
  <2>2. CASE i = Len(order)
    BY <1>1, <1>7, <2>2
  <2> QED
    BY <1>1, <1>2, <2>1, <2>2
<1> QED
  BY <1>6, <1>7, <1>8 DEF order, types

-----------------------------------------------------------------------------
(* The search for TransportBindings. *)

\* What is left after some passes stood in the policy before them.
LEMMA PassesLeaveSome ==
    ASSUME NEW places \in Seq(Places), NEW n
    PROVE  n \in Nat => /\ AfterPasses(places, n) \in Seq(Places)
                        /\ Misplaced(AfterPasses(places, n)) => Misplaced(places)
<1> SUFFICES ASSUME n \in Nat
             PROVE  /\ AfterPasses(places, n) \in Seq(Places)
                    /\ Misplaced(AfterPasses(places, n)) => Misplaced(places)
  OBVIOUS
<1> DEFINE left == AfterPasses(places, n)
<1>1. left \in Seq(Places)
  BY DEF AfterPasses
<1>2. \A i \in 1 .. Len(left) : n + i \in 1 .. Len(places) /\ left[i] = places[n + i]
  BY DEF AfterPasses
<1> QED
  BY <1>1, <1>2 DEF Misplaced

\* The policies the search goes over are those of the endpoints exported before and
\* of the one that is exported.
LEMMA ExportedPlaces ==
    ASSUME IInv, NEW c \in Contracts, NEW d \in Contracts
    PROVE  LET places == [transports EXCEPT ![c] = bound[c]]
           IN /\ places[d] \in Seq(Places)
              /\ Misplaced(places[d]) => d \in Exported \cup {c} /\ Misplaced(bound[d])
<1>1. bound[c] \in Seq(Places)
  BY WsdlExportAssumption DEF IInv
<1>2. /\ transports \in [Contracts -> Seq(Places)]
      /\ \A e \in Contracts : Misplaced(transports[e]) => e \in Exported /\ Misplaced(bound[e])
  BY DEF IInv, TransportsInv
<1> QED
  BY <1>1, <1>2

\* The number of passes is a number.
LEMMA OperationsFinite ==
    ASSUME NEW c \in Contracts
    PROVE  Cardinality(Operations(c) \ {IssueOf(c)}) \in Nat
<1> DEFINE op(verb, response) == [contract |-> c, verb |-> verb, response |-> response]
           both(verb) == {op(verb, TRUE)} \cup {op(verb, FALSE)}
<1>1. Operations(c) = ((both("Cancel") \cup both("Issue")) \cup both("Renew"))
                         \cup both("Validate")
  <2>1. ASSUME NEW o \in Operations(c)
        PROVE  /\ o.verb \in {"Cancel", "Issue", "Renew", "Validate"}
               /\ o \in both(o.verb)
    <3>1. /\ o = op(o.verb, o.response)
          /\ o.verb \in {"Cancel", "Issue", "Renew", "Validate"}
          /\ o.response \in BOOLEAN
      BY DEF Operations
    <3>2. o.response = TRUE \/ o.response = FALSE
      BY <3>1
    <3> QED
      BY <3>1, <3>2
  <2>2. \A verb \in {"Cancel", "Issue", "Renew", "Validate"} :
           both(verb) \subseteq Operations(c)
    BY DEF Operations
  <2> HIDE DEF both
  <2> QED
    BY <2>1, <2>2
<1>3. ASSUME NEW verb PROVE IsFiniteSet(both(verb))
  <2>1. IsFiniteSet({op(verb, TRUE)}) /\ IsFiniteSet({op(verb, FALSE)})
    BY FS_Singleton
  <2> QED
    BY <2>1, FS_Union
<1> HIDE DEF both
<1>4. IsFiniteSet(both("Cancel") \cup both("Issue"))
  BY <1>3, FS_Union
<1>5. IsFiniteSet((both("Cancel") \cup both("Issue")) \cup both("Renew"))
  BY <1>3, <1>4, FS_Union
<1>6. IsFiniteSet(Operations(c))
  BY <1>1, <1>3, <1>5, FS_Union
<1> QED
  BY <1>6, FS_Subset, FS_CardinalityType

-----------------------------------------------------------------------------
\* Only contracts of decorated endpoints are exported.
LEMMA ExportedContracts == exported \in Seq(Contracts) => Exported \subseteq Contracts
  BY DEF Exported

LEMMA InitInvariant == Init => IInv
<1> SUFFICES ASSUME Init PROVE IInv
  OBVIOUS
<1>1. exported = <<>> /\ Exported = {}
  BY DEF Init, Exported
<1>2. PortTypesInv /\ BindingsInv /\ MessagesInv /\ PoliciesInv
  BY <1>1 DEF Init, PortTypesInv, BindingsInv, MessagesInv, PoliciesInv, IssueIfExported,
              Issues
<1>3. TransportsInv
  BY DEF Init, TransportsInv, Misplaced
<1> QED
  BY <1>1, <1>2, <1>3 DEF Init, IInv, FailedExportsHaveACause

\* The description after a successful export; in the proof of the parts that the
\* TransportBindings do not concern.
LEMMA ExportInvariant ==
    ASSUME IInv, NEW c \in Contracts, ExportEndpoint(c), UNCHANGED failed
    PROVE  IInv'
<1> DEFINE order == Append(exported, c)
           types == [portTypes EXCEPT ![c] = Operations(c)]
           removed == Operations(c) \ {IssueOf(c)}
           places == [transports EXCEPT ![c] = bound[c]]
           passes == Cardinality(removed)
<1>1. c \notin Exported /\ failed = {} /\ UNCHANGED <<failed, policed, bound>>
  BY DEF ExportEndpoint, endpointVars
<1>2. /\ \A i \in 1 .. Len(exported) : Listed(order, types, i) = {}
      /\ Listed(order, types, Len(order)) = removed
  BY <1>1, ListedOperations
<1>3. Operations(c) \cap UnSupportedOperations = removed
  BY ListsAgree
<1>4. /\ exported' = order
      /\ portTypes' = [d \in Contracts |->
            types[d] \ UNION {Listed(order, types, i) :
                                 i \in {j \in 1 .. Len(order) : order[j] = d}}]
      /\ messages' = (messages \cup [operation : Operations(c), direction : Directions])
                     \ [operation : removed, direction : Directions]
      /\ bindings' = [bindings EXCEPT ![c] = Operations(c) \ removed]
      /\ policies' = (policies \cup [operation : Operations(c), direction : policed[c]])
                     \ [operation : removed, direction : Directions]
      /\ transports' = [d \in Contracts |-> AfterPasses(places[d], passes)]
  BY <1>1, <1>2, <1>3 DEF ExportEndpoint, MessagesOf, PoliciesOf
<1>5. IssueOf(c) \in Operations(c) /\ Operations(c) \ removed = {IssueOf(c)}
  BY ListsAgree
<1>6. \A d \in Exported : IssueOf(d) \notin Operations(c)
  BY <1>1 DEF IssueOf, Operations
<1>7. /\ order \in Seq(Contracts)
      /\ Len(order) = Len(exported) + 1
      /\ order[Len(order)] = c
      /\ \A i \in 1 .. Len(exported) : order[i] \in Exported /\ order[i] # c
      /\ {order[i] : i \in 1 .. Len(order)} = Exported \cup {c}
      /\ types[c] = Operations(c)
      /\ \A d \in Contracts : d # c => types[d] = IssueIfExported(d)
  BY <1>1, NewPortType
<1>8. Exported' = Exported \cup {c}
  BY <1>4, <1>7 DEF Exported
<1>9. Issues' = Issues \cup {IssueOf(c)}
  BY <1>8 DEF Issues
<1>10. \A d \in Contracts : IssueIfExported(d)' = IF d = c THEN {IssueOf(c)}
                                                   ELSE IssueIfExported(d)
  BY <1>8 DEF IssueIfExported
<1> HIDE DEF order, types, places, passes
<1>11. PortTypesInv'
  <2> DEFINE at(d) == {j \in 1 .. Len(order) : order[j] = d}
             gone(d) == UNION {Listed(order, types, i) : i \in at(d)}
  <2>1. /\ \A j \in 1 .. Len(order) : j \in 1 .. Len(exported) \/ j = Len(order)
        /\ Len(order) \in 1 .. Len(order)
    BY <1>7 DEF IInv
  <2>2. at(c) = {Len(order)}
    BY <1>7, <2>1
  <2>3. gone(c) = removed
    BY <1>2, <2>2
  <2>4. \A d \in Contracts : d # c => gone(d) = {}
    <3> SUFFICES ASSUME NEW d \in Contracts, d # c
                 PROVE  \A i \in at(d) : Listed(order, types, i) = {}
      OBVIOUS
    <3>1. at(d) \subseteq 1 .. Len(exported)
      BY <1>7, <2>1
    <3> QED
      BY <1>2, <3>1
  <2> HIDE DEF gone, at
  <2>5. \A d \in Contracts : types[d] \ gone(d) = IssueIfExported(d)'
    BY <1>5, <1>7, <1>10, <2>3, <2>4
  <2>6. portTypes' = [d \in Contracts |-> types[d] \ gone(d)]
    BY <1>4 DEF gone, at
  <2> QED
    BY <2>5, <2>6 DEF PortTypesInv
<1>12. BindingsInv'
  BY <1>4, <1>5, <1>10 DEF IInv, BindingsInv
<1>13. \A o \in Issues : o \notin removed
  BY <1>6 DEF Issues
<1>14. MessagesInv'
  <2>1. \A x \in messages : x \notin [operation : removed, direction : Directions]
    BY <1>13 DEF IInv, MessagesInv
  <2>2. [operation : Operations(c), direction : Directions]
           \ [operation : removed, direction : Directions]
        = [operation : {IssueOf(c)}, direction : Directions]
    BY <1>5
  <2>3. [operation : Issues \cup {IssueOf(c)}, direction : Directions]
        = [operation : Issues, direction : Directions]
             \cup [operation : {IssueOf(c)}, direction : Directions]
    OBVIOUS
  <2> QED
    BY <1>4, <1>9, <2>1, <2>2, <2>3 DEF IInv, MessagesInv
<1>15. PoliciesInv'
  <2> SUFFICES ASSUME NEW p \in policies'
               PROVE  p \in [operation : Issues \cup {IssueOf(c)}, direction : Directions]
    BY <1>9 DEF PoliciesInv
  <2>1. p \notin [operation : removed, direction : Directions]
    BY <1>4
  <2>2. CASE p \in policies
    BY <2>2 DEF IInv, PoliciesInv
  <2>3. CASE p \in [operation : Operations(c), direction : policed[c]]
    BY <1>5, <2>1, <2>3 DEF IInv
  <2> QED
    BY <1>4, <2>2, <2>3
<1>16. TransportsInv'
  <2>1. passes \in Nat
    BY OperationsFinite DEF passes
  <2> SUFFICES ASSUME NEW d \in Contracts
               PROVE  /\ AfterPasses(places[d], passes) \in Seq(Places)
                      /\ Misplaced(AfterPasses(places[d], passes)) =>
                            d \in Exported \cup {c} /\ Misplaced(bound[d])
    BY <1>1, <1>4, <1>8 DEF TransportsInv
  <2>2. places[d] \in Seq(Places) /\ (Misplaced(places[d]) => d \in Exported \cup {c}
                                                         /\ Misplaced(bound[d]))
    BY ExportedPlaces DEF places
  <2> QED
    BY <2>1, <2>2, PassesLeaveSome
<1>17. exported' \in Seq(Contracts)
  BY <1>4, <1>7
<1> QED
  BY <1>1, <1>11, <1>12, <1>14, <1>15, <1>16, <1>17
     DEF IInv, FailedExportsHaveACause

\* An export that throws has met a TransportBinding in the wrong place.
LEMMA FailureInvariant ==
    ASSUME IInv, NEW c \in Contracts, ExportEndpoint(c), ~UNCHANGED failed
    PROVE  IInv'
<1> DEFINE places == [transports EXCEPT ![c] = bound[c]]
           passes == Cardinality(Operations(c) \cap UnSupportedOperations)
<1>1. c \notin Exported
  BY DEF ExportEndpoint
<1>2. ~RemoveThrows(Append(exported, c), [portTypes EXCEPT ![c] = Operations(c)])
  BY <1>1, ListedOperations
<1>3. /\ failed' = {c}
      /\ UNCHANGED <<description, policed, bound>>
      /\ \E d \in Contracts : PassThrows(places[d], passes)
  BY <1>2 DEF ExportEndpoint, endpointVars
<1>4. PICK d \in Contracts : PassThrows(places[d], passes)
  BY <1>3
<1>5. Misplaced(places[d])
  BY <1>4 DEF PassThrows, Misplaced
<1> HIDE DEF passes
<1>6. d \in Exported \cup {c} /\ Misplaced(bound[d])
  BY <1>5, ExportedPlaces
<1>7. FailedExportsHaveACause'
  <2>1. Exported' = Exported /\ bound' = bound
    BY <1>3 DEF description, Exported
  <2> QED
    BY <1>3, <1>6, <2>1 DEF FailedExportsHaveACause, Misplaced
<1> QED
  BY <1>3, <1>7 DEF description, IInv, PortTypesInv, BindingsInv, MessagesInv, PoliciesInv,
                    TransportsInv, IssueIfExported, Issues, Exported

LEMMA NextInvariant == IInv /\ [Next]_vars => IInv'
<1> SUFFICES ASSUME IInv, [Next]_vars PROVE IInv'
  OBVIOUS
<1>1. CASE Next
  BY <1>1, ExportInvariant, FailureInvariant DEF Next
<1>2. CASE UNCHANGED vars
  BY <1>2 DEF vars, description, endpointVars, IInv, PortTypesInv, BindingsInv, MessagesInv,
              PoliciesInv, TransportsInv, IssueIfExported, Issues, Exported,
              FailedExportsHaveACause
<1> QED
  BY <1>1, <1>2

\* The invariant of the export, for every set of contracts and policies.
THEOREM Invariance == Spec => []IInv
<1> QED
  BY InitInvariant, NextInvariant, PTL DEF Spec

\* The list of supported operations and the list of unsupported ones cut port type
\* and binding down to the same operation.
THEOREM ListsLeaveIssue == Spec => []BindingsImplementPortTypes
<1>1. IInv => BindingsImplementPortTypes
  <2> SUFFICES ASSUME IInv, NEW c \in Exported
               PROVE  /\ bindings[c] = portTypes[c]
                      /\ \E o \in portTypes[c] : portTypes[c] = {o} /\ o.verb = "Issue"
    BY DEF BindingsImplementPortTypes
  <2>1. bindings[c] = {IssueOf(c)} /\ portTypes[c] = {IssueOf(c)}
    BY ExportedContracts DEF IInv, PortTypesInv, BindingsInv, IssueIfExported
  <2> QED
    BY <2>1 DEF IssueOf
<1> QED
  BY <1>1, Invariance, PTL

\* What is removed with an operation is all that belongs to it and nothing else.
THEOREM TheDescriptionIsClosed == Spec => []NothingDangles
<1>1. IInv => NothingDangles
  <2> SUFFICES ASSUME IInv PROVE NothingDangles
    OBVIOUS
  <2>1. UNION {portTypes[c] : c \in Contracts} = Issues
    <3>1. Exported \subseteq Contracts
      BY ExportedContracts DEF IInv
    <3>2. \A c \in Contracts : portTypes[c] = IssueIfExported(c)
      BY DEF IInv, PortTypesInv
    <3> QED
      BY <3>1, <3>2 DEF IssueIfExported, Issues
  <2> QED
    BY <2>1 DEF NothingDangles, IInv, MessagesInv, PoliciesInv
<1> QED
  BY <1>1, Invariance, PTL

\* Whatever the order, no export fails but for a misplaced TransportBinding: the
\* port types of earlier exports put nothing on the list, and the new one is last.
THEOREM FailuresAreMisplacedTransports == Spec => []FailedExportsHaveACause
<1>1. IInv => FailedExportsHaveACause
  BY DEF IInv
<1> QED
  BY <1>1, Invariance, PTL

\* What is in the description stays there.
LEMMA ExportedStay ==
    ASSUME IInv, Next, NEW c \in Exported
    PROVE  c \in Contracts /\ c \in Exported'
<1>1. exported \in Seq(Contracts)
  BY DEF IInv
<1>2. exported' = exported \/ \E d \in Contracts : exported' = Append(exported, d)
  BY DEF Next, ExportEndpoint, description
<1>3. PICK i \in 1 .. Len(exported) : c = exported[i]
  BY DEF Exported
<1>4. i \in 1 .. Len(exported') /\ exported'[i] = c
  BY <1>1, <1>2, <1>3
<1> QED
  BY <1>1, <1>3, <1>4 DEF Exported

\* A later export passes over the port types of the earlier ones and keeps them.
THEOREM ExportsDoNotDisturb == Spec => EarlierExportsStay
<1>1. IInv /\ IInv' /\ [Next]_vars =>
         [\A c \in Exported : portTypes'[c] = portTypes[c] /\ bindings'[c] = bindings[c]]_vars
  <2> SUFFICES ASSUME IInv, IInv', Next, NEW c \in Exported
               PROVE  portTypes'[c] = portTypes[c] /\ bindings'[c] = bindings[c]
    OBVIOUS
  <2>1. c \in Contracts /\ c \in Exported'
    BY ExportedStay
  <2> QED
    BY <2>1 DEF IInv, PortTypesInv, BindingsInv, IssueIfExported
<1> QED
  BY <1>1, Invariance, PTL DEF Spec, EarlierExportsStay
=============================================================================
