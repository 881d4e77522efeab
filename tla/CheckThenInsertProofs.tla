------------------------ MODULE CheckThenInsertProofs ------------------------
(***************************************************************************)
(* What a check before an insert is worth, for any limits and any number   *)
(* of requests and keys.                                                   *)
(***************************************************************************)
EXTENDS CheckThenInsert, FiniteSetTheorems, TLAPS

IInv == TypeOK /\ Budget

\* A request that passes or leaves changes the number of holders by one.
LEMMA HolderCounts ==
    ASSUME ConstantsOK, NEW H \in SUBSET Requests, NEW q \in Requests
    PROVE  /\ Cardinality(H) \in Nat
           /\ Cardinality(H) <= Cardinality(Requests)
           /\ Cardinality(Requests) \in Nat
           /\ Cardinality(H \cup {q}) <= Cardinality(Requests)
           /\ q \in H => Cardinality(H \ {q}) = Cardinality(H) - 1
<1>1. IsFiniteSet(Requests)
  BY DEF ConstantsOK
<1>2. IsFiniteSet(H) /\ Cardinality(H) <= Cardinality(Requests)
  BY <1>1, FS_Subset
<1>3. H \cup {q} \in SUBSET Requests
  OBVIOUS
<1>4. Cardinality(H \cup {q}) <= Cardinality(Requests)
  BY <1>1, <1>3, FS_Subset
<1>5. Cardinality(H) \in Nat /\ Cardinality(Requests) \in Nat
  BY <1>1, <1>2, FS_CardinalityType
<1>6. q \in H => Cardinality(H \ {q}) = Cardinality(H) - 1
  BY <1>2, FS_RemoveElement
<1> QED
  BY <1>2, <1>4, <1>5, <1>6

LEMMA InitInv == ASSUME ConstantsOK PROVE Init => IInv
<1> SUFFICES ASSUME Init PROVE IInv
  OBVIOUS
<1>1. PICK q : q \in Requests
  BY DEF ConstantsOK
<1>2. Cardinality(Requests) \in Nat /\ Cardinality(Requests) # 0
  BY FS_CardinalityType, FS_EmptySet DEF ConstantsOK
<1>3. Cardinality({}) = 0
  BY FS_EmptySet
<1>4. \A k \in Keys : Limit[k] \in Nat \ {0}
  BY DEF ConstantsOK
<1>5. ASSUME NEW k \in Keys
      PROVE  /\ rows[k] \in Nat /\ holders[k] \subseteq Requests
             /\ rows[k] + Cardinality(holders[k]) <= Limit[k] - 1 + Cardinality(Requests)
  <2>1. holders[k] = {}
    BY <1>5 DEF Init
  <2>2. rows[k] \in Nat /\ rows[k] <= Limit[k]
    BY <1>5 DEF Init
  <2> QED
    BY <2>1, <2>2, <1>2, <1>3, <1>4
<1> QED
  BY <1>5 DEF IInv, TypeOK, Budget

\* One key: a pass starts from fewer rows than the limit, a leave gives a
\* holder for at most one row, a removal lowers the sum.
LEMMA KeyInv ==
    ASSUME ConstantsOK, NEW k \in Keys, IInv, KeyStep(k)
    PROVE  /\ rows'[k] \in Nat /\ holders'[k] \subseteq Requests
           /\ rows'[k] + Cardinality(holders'[k]) <= Limit[k] - 1 + Cardinality(Requests)
<1>1. /\ rows[k] \in Nat /\ holders[k] \in SUBSET Requests
      /\ rows[k] + Cardinality(holders[k]) <= Limit[k] - 1 + Cardinality(Requests)
  BY DEF IInv, TypeOK, Budget
<1>2. Limit[k] \in Nat \ {0}
  BY DEF ConstantsOK
<1>3. PICK r : r \in Requests
  BY DEF ConstantsOK
<1>4. Cardinality(holders[k]) \in Nat /\ Cardinality(Requests) \in Nat
  BY <1>1, <1>3, HolderCounts
<1>5. CASE Remove(k)
  BY <1>1, <1>2, <1>4, <1>5 DEF Remove
<1>6. ASSUME NEW q \in Requests, Pass(k, q)
      PROVE  /\ rows'[k] \in Nat /\ holders'[k] \subseteq Requests
             /\ rows'[k] + Cardinality(holders'[k]) <= Limit[k] - 1 + Cardinality(Requests)
  <2>1. /\ rows'[k] \in 0 .. Limit[k] - 1
        /\ holders'[k] = holders[k] \cup {q}
    BY <1>6 DEF Pass
  <2>2. Cardinality(holders[k] \cup {q}) <= Cardinality(Requests)
    BY <1>1, HolderCounts
  <2>3. holders[k] \cup {q} \in SUBSET Requests
    BY <1>1
  <2>4. Cardinality(holders[k] \cup {q}) \in Nat
    BY <2>3, HolderCounts
  <2> QED
    BY <2>1, <2>2, <2>3, <2>4, <1>2, <1>4
<1>7. ASSUME NEW q \in Requests, Leave(k, q)
      PROVE  /\ rows'[k] \in Nat /\ holders'[k] \subseteq Requests
             /\ rows'[k] + Cardinality(holders'[k]) <= Limit[k] - 1 + Cardinality(Requests)
  <2>1. /\ q \in holders[k]
        /\ rows'[k] \in {rows[k], rows[k] + 1}
        /\ holders'[k] = holders[k] \ {q}
    BY <1>7 DEF Leave
  <2>2. Cardinality(holders[k] \ {q}) = Cardinality(holders[k]) - 1
    BY <1>1, <2>1, HolderCounts
  <2>3. holders'[k] \subseteq Requests
    BY <1>1, <2>1
  <2> QED
    BY <2>1, <2>2, <2>3, <1>1, <1>2, <1>4
<1> QED
  BY <1>5, <1>6, <1>7 DEF KeyStep

LEMMA StepInv == ASSUME ConstantsOK PROVE IInv /\ [Next]_vars => IInv'
<1> SUFFICES ASSUME IInv, [Next]_vars PROVE IInv'
  OBVIOUS
<1>1. CASE Next
  BY <1>1, KeyInv DEF Next, IInv, TypeOK, Budget
<1>2. CASE UNCHANGED vars
  BY <1>2 DEF vars, IInv, TypeOK, Budget
<1> QED
  BY <1>1, <1>2

\* However many requests check and insert, a key has never more rows than the
\* limit and the overlapping requests but one allow.
THEOREM BudgetHolds == ASSUME ConstantsOK PROVE Spec => []Budget
<1>1. Init => IInv
  BY InitInv
<1>2. IInv /\ [Next]_vars => IInv'
  BY StepInv
<1>3. IInv => Budget
  BY DEF IInv
<1> QED
  BY <1>1, <1>2, <1>3, PTL DEF Spec

=============================================================================
