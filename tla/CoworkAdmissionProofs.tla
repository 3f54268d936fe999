----------------------- MODULE CoworkAdmissionProofs ------------------------
(* The monthly limit, for any number of requests, any limit and any month.   *)
EXTENDS CoworkAdmission, FiniteSetTheorems, TLAPS

LEMMA Finite ==
    ASSUME NEW S \in SUBSET Request
    PROVE  IsFiniteSet(S) /\ Cardinality(S) \in Nat
BY AdmissionAssumption, FS_Subset, FS_CardinalityType

LEMMA InFlightFinite ==
    /\ IsFiniteSet(InFlight) /\ Cardinality(InFlight) \in Nat
    /\ \A m : /\ IsFiniteSet(Admitted(m)) /\ Cardinality(Admitted(m)) \in Nat
              /\ Cardinality(Admitted(m)) <= Cardinality(InFlight)
<1>1. InFlight \in SUBSET Request
  BY DEF InFlight
<1>2. ASSUME NEW m
      PROVE  Admitted(m) \in SUBSET Request /\ Admitted(m) \subseteq InFlight
  BY <1>1 DEF Admitted
<1> QED BY <1>1, <1>2, Finite, FS_Subset

LEMMA TypeInit == Init => TypeOK
<1> SUFFICES ASSUME Init PROVE TypeOK
  OBVIOUS
<1>1. 0 \in Month
  BY AdmissionAssumption DEF Month
<1> QED BY <1>1 DEF Init, TypeOK

LEMMA TypeNext == TypeOK /\ [Next]_vars => TypeOK'
<1> SUFFICES ASSUME TypeOK, [Next]_vars PROVE TypeOK'
  OBVIOUS
<1> USE AdmissionAssumption DEF TypeOK, Goes
<1>1. ASSUME NEW r \in Request, ReadUser(r) PROVE TypeOK'
  BY <1>1, InFlightFinite DEF ReadUser
<1>2. ASSUME NEW r \in Request, CountSessions(r) PROVE TypeOK'
  BY <1>2 DEF CountSessions
<1>3. ASSUME NEW r \in Request, Decompose(r) PROVE TypeOK'
  BY <1>3 DEF Decompose
<1>4. ASSUME NEW r \in Request, InsertSession(r) PROVE TypeOK'
  BY <1>4 DEF InsertSession
<1>5. ASSUME NEW r \in Request, InsertTasks(r) PROVE TypeOK'
  BY <1>5 DEF InsertTasks
<1>6. ASSUME NEW r \in Request, Throws(r) PROVE TypeOK'
  BY <1>6 DEF Throws
<1>7. CASE TurnOfMonth  BY <1>7 DEF TurnOfMonth, Month
<1>8. CASE ActivatePro  BY <1>8 DEF ActivatePro
<1>9. CASE ActivateFree  BY <1>9 DEF ActivateFree
<1>10. CASE UNCHANGED vars  BY <1>10 DEF vars
<1> QED BY <1>1, <1>2, <1>3, <1>4, <1>5, <1>6, <1>7, <1>8, <1>9, <1>10
       DEF Next, createCoworkSession

\* The rows, the requests and the history keep their types.
THEOREM TypeCorrect == Spec => []TypeOK
BY TypeInit, TypeNext, PTL DEF Spec

-----------------------------------------------------------------------------

LEMMA InvInit == Init => IInv
<1> SUFFICES ASSUME Init PROVE IInv
  OBVIOUS
<1>1. InFlight = {}
  BY DEF Init, InFlight
<1>2. Admitted(month) = {}
  BY <1>1 DEF Admitted
<1>3. Cardinality({}) = 0
  BY FS_EmptySet
<1>4. month \in Month /\ Limit \in Nat \ {0}
  BY TypeInit, AdmissionAssumption DEF TypeOK
<1>5. \A m \in Month : created[m] = 0 /\ peak = 0
  BY DEF Init
<1>6. AdmittedFit
  BY <1>2, <1>3, <1>4, <1>5 DEF Init, AdmittedFit, OverrunIsBounded
<1> QED BY <1>1, <1>3, <1>5, <1>6, <1>4, TypeInit DEF IInv

\* A step by which no request comes nearer to the insert.
LEMMA NoneAdmitted ==
    ASSUME IInv, TypeOK', peak' = peak, created' = created, month' = month,
           InFlight' \subseteq InFlight, Admitted(month)' \subseteq Admitted(month),
           wasPro' = wasPro, plan' = plan \/ wasPro'
    PROVE  IInv'
<1>1. /\ Cardinality(InFlight') <= Cardinality(InFlight)
      /\ Cardinality(InFlight') \in Nat
  BY InFlightFinite, FS_Subset, FS_CardinalityType
<1>2. /\ Cardinality(Admitted(month)') <= Cardinality(Admitted(month))
      /\ Cardinality(Admitted(month)') \in Nat
  BY InFlightFinite, FS_Subset, FS_CardinalityType
<1>3. Cardinality(InFlight') <= peak'
  BY <1>1, InFlightFinite DEF IInv, TypeOK
<1>4. AdmittedFit'
  <2> SUFFICES ASSUME ~ wasPro PROVE AdmittedFit'
    BY DEF AdmittedFit
  <2>1. created[month] \in Nat /\ Limit \in Nat /\ peak \in Nat
    BY AdmissionAssumption DEF IInv, TypeOK
  <2>2. created'[month'] + Cardinality(Admitted(month)') < Limit + peak'
    BY <1>2, <2>1, InFlightFinite DEF IInv, AdmittedFit
  <2> QED BY <2>2 DEF IInv, AdmittedFit, OverrunIsBounded
<1> QED BY <1>3, <1>4 DEF IInv

LEMMA InvNext == IInv /\ [Next]_vars => IInv'
<1> SUFFICES ASSUME IInv, [Next]_vars PROVE IInv'
  OBVIOUS
<1>0. TypeOK'
  BY TypeNext DEF IInv
<1>a. /\ created[month] \in Nat /\ Limit \in Nat \ {0} /\ peak \in Nat
      /\ month \in Month /\ \A m \in Month : m \in Nat
  BY AdmissionAssumption DEF IInv, TypeOK, Month
<1>1. ASSUME NEW r \in Request, ReadUser(r) PROVE IInv'
  <2>1. InFlight' \subseteq InFlight \cup {r} /\ r \notin InFlight
    BY <1>1 DEF ReadUser, Goes, InFlight, IInv, TypeOK
  <2>2. /\ IsFiniteSet(InFlight \cup {r})
        /\ Cardinality(InFlight \cup {r}) = Cardinality(InFlight) + 1
    BY <2>1, InFlightFinite, FS_AddElement
  <2>3. /\ Cardinality(InFlight') <= Cardinality(InFlight) + 1
        /\ Cardinality(InFlight') \in Nat
    BY <2>1, <2>2, FS_Subset, FS_CardinalityType
  <2>4. peak' \in Nat /\ peak <= peak' /\ Cardinality(InFlight) + 1 <= peak'
    BY <1>1, <1>a, InFlightFinite DEF ReadUser
  <2>5. Cardinality(InFlight') <= peak'
    BY <2>3, <2>4, InFlightFinite
  <2>6. ASSUME ~ wasPro PROVE AdmittedFit'
    <3>1. Admitted(month)' = Admitted(month)
      BY <1>1, <2>6 DEF ReadUser, Goes, Admitted, InFlight, AdmittedFit, IInv, TypeOK
    <3>2. created[month] + Cardinality(Admitted(month)) < Limit + peak'
      BY <1>a, <2>4, <2>6, InFlightFinite DEF IInv, AdmittedFit
    <3>3. \A m \in Month : created[m] < Limit + peak'
      BY <1>a, <2>4, <2>6 DEF IInv, AdmittedFit, OverrunIsBounded, TypeOK
    <3> QED BY <1>1, <2>6, <3>1, <3>2, <3>3
           DEF ReadUser, AdmittedFit, OverrunIsBounded, IInv
  <2> QED BY <1>0, <1>1, <2>5, <2>6 DEF ReadUser, IInv, AdmittedFit
<1>2. ASSUME NEW r \in Request, CountSessions(r) PROVE IInv'
  <2>1. InFlight' \subseteq InFlight
    BY <1>2 DEF CountSessions, Goes, InFlight, IInv, TypeOK
  <2>2. CASE ~ (window[r] = month /\ created[month] < Limit)
    <3>1. Admitted(month)' \subseteq Admitted(month)
      BY <1>2, <1>a, <2>2 DEF CountSessions, Goes, Admitted, InFlight, IInv, TypeOK
    <3> QED BY <1>0, <1>2, <2>1, <3>1, NoneAdmitted DEF CountSessions
  <2>3. CASE window[r] = month /\ created[month] < Limit
    <3>1. Cardinality(InFlight') <= Cardinality(InFlight) /\ Cardinality(InFlight') \in Nat
      BY <2>1, InFlightFinite, FS_Subset, FS_CardinalityType
    <3>2. Admitted(month)' \subseteq InFlight
      BY <2>1 DEF Admitted
    <3>3. /\ Cardinality(Admitted(month)') <= Cardinality(InFlight)
          /\ Cardinality(Admitted(month)') \in Nat
      BY <3>2, InFlightFinite, FS_Subset, FS_CardinalityType
    <3>4. created[month] + Cardinality(Admitted(month)') < Limit + peak
      BY <1>a, <2>3, <3>3, InFlightFinite DEF IInv
    <3>5. Cardinality(InFlight') <= peak
      BY <1>a, <3>1, InFlightFinite DEF IInv
    <3> QED BY <1>0, <1>2, <3>4, <3>5
           DEF CountSessions, IInv, AdmittedFit, OverrunIsBounded
  <2> QED BY <2>2, <2>3
<1>3. ASSUME NEW r \in Request, Decompose(r) PROVE IInv'
  <2>1. InFlight' \subseteq InFlight /\ Admitted(month)' \subseteq Admitted(month)
    BY <1>3 DEF Decompose, Goes, Admitted, InFlight, IInv, TypeOK
  <2> QED BY <1>0, <1>3, <2>1, NoneAdmitted DEF Decompose
<1>4. ASSUME NEW r \in Request, InsertSession(r) PROVE IInv'
  <2>1. InFlight' \subseteq InFlight
    BY <1>4 DEF InsertSession, Goes, InFlight, IInv, TypeOK
  <2>2. Cardinality(InFlight') <= peak
    <3>1. Cardinality(InFlight') <= Cardinality(InFlight) /\ Cardinality(InFlight') \in Nat
      BY <2>1, InFlightFinite, FS_Subset, FS_CardinalityType
    <3> QED BY <1>a, <3>1, InFlightFinite DEF IInv
  <2>3. Admitted(month)' = Admitted(month) \ {r} /\ r \in Admitted(month)
    BY <1>4 DEF InsertSession, Goes, Admitted, InFlight, IInv, TypeOK
  <2>4. Cardinality(Admitted(month)') = Cardinality(Admitted(month)) - 1
    BY <2>3, InFlightFinite, FS_RemoveElement
  <2>5. ASSUME ~ wasPro PROVE AdmittedFit'
    <3>1. /\ created'[month] = created[month] + 1
          /\ \A m \in Month : m # month => created'[m] = created[m]
      BY <1>4, <1>a DEF InsertSession, IInv, TypeOK
    <3>2. created'[month] + Cardinality(Admitted(month)') < Limit + peak
      BY <1>a, <2>4, <2>5, <3>1, InFlightFinite DEF IInv, AdmittedFit
    <3>3. Cardinality(Admitted(month)') \in Nat
      BY <2>3, InFlightFinite, FS_RemoveElement, FS_CardinalityType
    <3>4. created'[month] < Limit + peak
      BY <1>a, <3>1, <3>2, <3>3
    <3>5. \A m \in Month : created'[m] < Limit + peak
      BY <2>5, <3>1, <3>4 DEF IInv, AdmittedFit, OverrunIsBounded
    <3>6. \A m \in Month : m > month => created'[m] = 0
      BY <1>a, <2>5, <3>1 DEF IInv, AdmittedFit
    <3> QED BY <1>4, <2>5, <3>2, <3>5, <3>6
           DEF InsertSession, IInv, AdmittedFit, OverrunIsBounded
  <2> QED BY <1>0, <1>4, <2>2, <2>5 DEF InsertSession, IInv, AdmittedFit
<1>5. ASSUME NEW r \in Request, InsertTasks(r) PROVE IInv'
  <2>1. InFlight' \subseteq InFlight /\ Admitted(month)' \subseteq Admitted(month)
    BY <1>5 DEF InsertTasks, Goes, Admitted, InFlight, IInv, TypeOK
  <2> QED BY <1>0, <1>5, <2>1, NoneAdmitted DEF InsertTasks
<1>6. ASSUME NEW r \in Request, Throws(r) PROVE IInv'
  <2>1. InFlight' \subseteq InFlight /\ Admitted(month)' \subseteq Admitted(month)
    BY <1>6 DEF Throws, Admitted, InFlight, IInv, TypeOK
  <2> QED BY <1>0, <1>6, <2>1, NoneAdmitted DEF Throws
<1>7. CASE TurnOfMonth
  <2>1. InFlight' = InFlight
    BY <1>7 DEF TurnOfMonth, InFlight
  <2>2. month + 1 \in Month /\ month + 1 > month
    BY <1>7, <1>a, AdmissionAssumption DEF TurnOfMonth, Month
  <2>3. /\ Cardinality(Admitted(month)') <= Cardinality(InFlight)
        /\ Cardinality(Admitted(month)') \in Nat
    <3>1. Admitted(month)' \subseteq InFlight
      BY <2>1 DEF Admitted
    <3> QED BY <3>1, InFlightFinite, FS_Subset, FS_CardinalityType
  <2>4. ASSUME ~ wasPro PROVE AdmittedFit'
    <3>1. created[month + 1] = 0
      BY <2>2, <2>4 DEF IInv, AdmittedFit
    <3>2. created[month + 1] + Cardinality(Admitted(month)') < Limit + peak
      BY <1>a, <2>3, <3>1, InFlightFinite DEF IInv
    <3>3. \A m \in Month : m > month + 1 => created[m] = 0
      BY <1>a, <2>4 DEF IInv, AdmittedFit
    <3> QED BY <1>7, <2>4, <3>2, <3>3
           DEF TurnOfMonth, IInv, AdmittedFit, OverrunIsBounded
  <2> QED BY <1>0, <1>7, <2>1, <2>4 DEF TurnOfMonth, IInv, AdmittedFit
<1>8. CASE ActivatePro
  BY <1>0, <1>8 DEF ActivatePro, IInv, AdmittedFit, InFlight
<1>9. CASE ActivateFree
  <2>1. InFlight' = InFlight /\ Admitted(month)' = Admitted(month)
    BY <1>9 DEF ActivateFree, InFlight, Admitted
  <2> QED BY <1>0, <1>9, <2>1 DEF ActivateFree, IInv, AdmittedFit, OverrunIsBounded
<1>10. CASE UNCHANGED vars
  <2>1. InFlight' = InFlight /\ Admitted(month)' = Admitted(month)
    BY <1>10 DEF vars, InFlight, Admitted
  <2> QED BY <1>0, <1>10, <2>1 DEF vars, IInv, AdmittedFit, OverrunIsBounded
<1> QED BY <1>1, <1>2, <1>3, <1>4, <1>5, <1>6, <1>7, <1>8, <1>9, <1>10
       DEF Next, createCoworkSession

\* The requests that can no longer be refused fit under the bound.
THEOREM Invariance == Spec => []IInv
BY InvInit, InvNext, PTL DEF Spec

\* However requests overlap and months turn, a user who stayed on the free plan
\* exceeds the limit by less than the number of requests under way at once.
THEOREM OverrunBound == Spec => []OverrunIsBounded
<1>1. IInv => OverrunIsBounded
  BY DEF IInv, AdmittedFit, OverrunIsBounded
<1> QED BY <1>1, Invariance, PTL

\* The limit itself holds as long as requests do not overlap (test TC-1.8).
THEOREM SequentialLimit == Spec => [](peak <= 1 => MonthlyLimit)
<1>1. IInv => (peak <= 1 => MonthlyLimit)
  BY AdmissionAssumption DEF IInv, AdmittedFit, OverrunIsBounded, MonthlyLimit, TypeOK
<1> QED BY <1>1, Invariance, PTL
=============================================================================
