------------------------- MODULE LeaveServiceProofs -------------------------
(***************************************************************************)
(* Theorems about LeaveService, for any requests, employees, leave types,  *)
(* dates and quotas: the ledger of the balances, and the days payroll      *)
(* counts.                                                                 *)
(***************************************************************************)
EXTENDS LeaveService, TLAPS, FiniteSetTheorems, WellFoundedInduction

(* Sums over finite sets: DaysOf is a fold, which TLA+ defines with a       *)
(* recursive function.  Induction is on a smallest counterexample.          *)

\* A non-empty set of subsets of a finite set has a member that contains no
\* other member.
LEMMA MinimalSubset ==
  ASSUME NEW S, IsFiniteSet(S), NEW C, C \subseteq SUBSET S, C # {}
  PROVE  \E T \in C : \A U \in C : U \subseteq T => U = T
<1>1. C \subseteq FiniteSubsetsOf(S)
  BY FS_FiniteSubsetsOfFinite
<1>2. PICK T \in C : \A U \in C : <<U, T>> \notin StrictSubsetOrdering(S)
  BY <1>1, FS_StrictSubsetOrderingWellFounded, WFMin
<1>3. QED
  BY <1>1, <1>2 DEF StrictSubsetOrdering, FiniteSubsetsOf

Some(s) == CHOOSE x \in s : TRUE

LEMMA SomeIsIn == \A s : s # {} => Some(s) \in s
BY DEF Some

\* g is the function that the fold over ids is computed with.
Adds(g, table, ids) ==
  g = [s \in SUBSET ids |->
         IF s = {} THEN 0
         ELSE InclusiveDays(table[Some(s)]) + g[s \ {Some(s)}]]

LEMMA DaysOfFold ==
  ASSUME NEW table, NEW ids
  PROVE  DaysOf(table, ids) = (CHOOSE g : Adds(g, table, ids))[ids]
BY DEF DaysOf, MapThenSumSet, MapThenFoldSet, Adds, Some

LEMMA AddsAt ==
  ASSUME NEW table, NEW S, NEW g, Adds(g, table, S), NEW s \in SUBSET S
  PROVE  g[s] = IF s = {} THEN 0
                ELSE InclusiveDays(table[Some(s)]) + g[s \ {Some(s)}]
BY DEF Adds

LEMMA AddsAgree ==
  ASSUME NEW table, NEW S, IsFiniteSet(S), NEW T \in SUBSET S,
         NEW g, Adds(g, table, S), NEW h, Adds(h, table, T)
  PROVE  \A s \in SUBSET T : g[s] = h[s]
<1> DEFINE C == {s \in SUBSET T : g[s] # h[s]}
<1> SUFFICES ASSUME C # {} PROVE FALSE
  OBVIOUS
<1>1. PICK s \in C : \A U \in C : U \subseteq s => U = s
  <2>1. C \subseteq SUBSET S
    OBVIOUS
  <2> HIDE DEF C
  <2>2. QED
    BY <2>1, MinimalSubset
<1>2. s \in SUBSET T /\ s \in SUBSET S /\ g[s] # h[s]
  OBVIOUS
<1>3. CASE s = {}
  BY <1>2, <1>3, AddsAt
<1>4. CASE s # {}
  <2>1. Some(s) \in s /\ s \ {Some(s)} \in SUBSET T
    BY <1>2, <1>4, SomeIsIn
  <2>2. g[s \ {Some(s)}] = h[s \ {Some(s)}]
    BY <1>1, <2>1
  <2>3. /\ g[s] = InclusiveDays(table[Some(s)]) + g[s \ {Some(s)}]
        /\ h[s] = InclusiveDays(table[Some(s)]) + h[s \ {Some(s)}]
    BY <1>2, <1>4, AddsAt
  <2>4. QED
    BY <1>2, <2>2, <2>3
<1>5. QED
  BY <1>3, <1>4

\* The recursive function exists: there is no smallest set without one.
LEMMA AddsExists ==
  ASSUME NEW table, NEW S, IsFiniteSet(S)
  PROVE  \E g : Adds(g, table, S)
<1> DEFINE C == {T \in SUBSET S : ~\E g : Adds(g, table, T)}
<1> SUFFICES ASSUME C # {} PROVE FALSE
  OBVIOUS
<1>1. PICK T \in C : \A U \in C : U \subseteq T => U = T
  <2>1. C \subseteq SUBSET S
    OBVIOUS
  <2> HIDE DEF C
  <2>2. QED
    BY <2>1, MinimalSubset
<1> DEFINE G(U) == CHOOSE g : Adds(g, table, U)
           Rest(s) == s \ {Some(s)}
           At(s) == IF s = {} THEN 0
                    ELSE InclusiveDays(table[Some(s)]) + G(Rest(s))[Rest(s)]
           h == [s \in SUBSET T |-> At(s)]
<1>2. ASSUME NEW U \in SUBSET T, U # T
      PROVE  Adds(G(U), table, U) /\ IsFiniteSet(U)
  <2>1. U \notin C /\ U \in SUBSET S
    BY <1>1, <1>2
  <2>2. \E g : Adds(g, table, U)
    BY <2>1
  <2>3. QED
    BY <2>1, <2>2, FS_Subset
<1>3. ASSUME NEW U \in SUBSET T, U # T
      PROVE  G(U)[U] = h[U]
  <2>1. CASE U = {}
    BY <1>2, <1>3, <2>1, AddsAt
  <2>2. CASE U # {}
    <3>1. Some(U) \in U /\ Rest(U) \in SUBSET U /\ Rest(U) # T
      BY <1>3, <2>2, SomeIsIn
    <3>2. Adds(G(U), table, U) /\ IsFiniteSet(U)
      BY <1>2, <1>3
    <3>3. Adds(G(Rest(U)), table, Rest(U))
      BY <1>2, <1>3, <3>1
    <3>4. G(U)[Rest(U)] = G(Rest(U))[Rest(U)]
      <4> DEFINE r == Rest(U)
                 g == G(U)
                 f == G(r)
      <4>1. /\ r \in SUBSET U /\ IsFiniteSet(U)
            /\ Adds(g, table, U) /\ Adds(f, table, r)
        BY <3>1, <3>2, <3>3
      <4> HIDE DEF r, g, f
      <4>2. g[r] = f[r]
        BY <4>1, AddsAgree
      <4>3. QED
        BY <4>2 DEF r, g, f
    <3>5. G(U)[U] = InclusiveDays(table[Some(U)]) + G(U)[Rest(U)]
      <4> HIDE DEF G
      <4>1. QED
        BY <2>2, <3>2, AddsAt
    <3>6. QED
      BY <2>2, <3>4, <3>5
  <2>3. QED
    BY <2>1, <2>2
<1>4. Adds(h, table, T)
  <2>1. ASSUME NEW s \in SUBSET T, s # {}
        PROVE  h[s] = InclusiveDays(table[Some(s)]) + h[Rest(s)]
    <3>1. Rest(s) \in SUBSET T /\ Rest(s) # T
      BY <2>1, SomeIsIn
    <3>2. QED
      BY <2>1, <3>1, <1>3
  <2>2. \A s \in SUBSET T :
          h[s] = IF s = {} THEN 0
                 ELSE InclusiveDays(table[Some(s)]) + h[Rest(s)]
    <3>1. h[{}] = 0
      OBVIOUS
    <3> HIDE DEF h
    <3>2. QED
      BY <2>1, <3>1
  <2>3. h = [s \in SUBSET T |-> h[s]]
    OBVIOUS
  <2> HIDE DEF h
  <2>4. QED
    BY <2>2, <2>3 DEF Adds
<1>5. QED
  BY <1>4

\* The days of a set of requests, one request at a time.
LEMMA DaysOfDef ==
  ASSUME NEW table, NEW ids, IsFiniteSet(ids)
  PROVE  DaysOf(table, ids) =
           IF ids = {} THEN 0
           ELSE InclusiveDays(table[Some(ids)])
                  + DaysOf(table, ids \ {Some(ids)})
<1> DEFINE G(U) == CHOOSE g : Adds(g, table, U)
           rest == ids \ {Some(ids)}
<1>1. IsFiniteSet(rest) /\ rest \in SUBSET ids
  BY FS_Subset
<1>2. Adds(G(ids), table, ids) /\ Adds(G(rest), table, rest)
  BY <1>1, AddsExists
<1>3. DaysOf(table, ids) = G(ids)[ids] /\ DaysOf(table, rest) = G(rest)[rest]
  BY DaysOfFold
<1> HIDE DEF G, rest
<1>4. G(ids)[rest] = G(rest)[rest]
  BY <1>1, <1>2, AddsAgree
<1>5. G(ids)[ids] = IF ids = {} THEN 0
                    ELSE InclusiveDays(table[Some(ids)]) + G(ids)[rest]
  BY <1>2, AddsAt DEF rest
<1>6. QED
  BY <1>3, <1>4, <1>5 DEF rest

LEMMA DaysOfEmpty == \A table : DaysOf(table, {}) = 0
BY DaysOfDef, FS_EmptySet

LEMMA DaysOfType ==
  ASSUME NEW table, NEW S, IsFiniteSet(S),
         \A i \in S : InclusiveDays(table[i]) \in Nat
  PROVE  DaysOf(table, S) \in Nat
<1> DEFINE C == {T \in SUBSET S : DaysOf(table, T) \notin Nat}
<1> SUFFICES ASSUME C # {} PROVE FALSE
  OBVIOUS
<1>1. PICK T \in C : \A U \in C : U \subseteq T => U = T
  <2>1. C \subseteq SUBSET S
    OBVIOUS
  <2> HIDE DEF C
  <2>2. QED
    BY <2>1, MinimalSubset
<1>2. T \in SUBSET S /\ IsFiniteSet(T) /\ DaysOf(table, T) \notin Nat
  BY FS_Subset
<1>3. CASE T = {}
  BY <1>2, <1>3, DaysOfEmpty
<1>4. CASE T # {}
  <2>1. Some(T) \in T
    BY <1>4, SomeIsIn
  <2>2. DaysOf(table, T \ {Some(T)}) \in Nat
    BY <1>1, <1>2, <2>1
  <2>3. InclusiveDays(table[Some(T)]) \in Nat
    BY <1>2, <2>1
  <2>4. DaysOf(table, T) =
          InclusiveDays(table[Some(T)]) + DaysOf(table, T \ {Some(T)})
    BY <1>2, <1>4, DaysOfDef
  <2>5. QED
    BY <1>2, <2>2, <2>3, <2>4
<1>5. QED
  BY <1>3, <1>4

\* Any of them may be counted first.
LEMMA DaysOfElement ==
  ASSUME NEW table, NEW S, IsFiniteSet(S), NEW x \in S,
         \A i \in S : InclusiveDays(table[i]) \in Nat
  PROVE  DaysOf(table, S) = InclusiveDays(table[x]) + DaysOf(table, S \ {x})
<1> DEFINE Days(i) == InclusiveDays(table[i])
           C == {T \in SUBSET S :
                   \E y \in T : DaysOf(table, T) #
                                  Days(y) + DaysOf(table, T \ {y})}
<1> SUFFICES ASSUME C # {} PROVE FALSE
  OBVIOUS
<1>1. PICK T \in C : \A U \in C : U \subseteq T => U = T
  <2>1. C \subseteq SUBSET S
    OBVIOUS
  <2> HIDE DEF C
  <2>2. QED
    BY <2>1, MinimalSubset
<1>2. PICK y \in T : DaysOf(table, T) # Days(y) + DaysOf(table, T \ {y})
  OBVIOUS
<1> DEFINE c == Some(T)
           rest == T \ {c}
<1>3. T \in SUBSET S /\ IsFiniteSet(T) /\ T # {} /\ c \in T
  BY FS_Subset, SomeIsIn
<1>4. DaysOf(table, T) = Days(c) + DaysOf(table, rest)
  BY <1>3, DaysOfDef
<1>5. y # c
  BY <1>2, <1>4
<1>6. /\ IsFiniteSet(T \ {y}) /\ IsFiniteSet(rest) /\ IsFiniteSet(rest \ {y})
      /\ (T \ {y}) \ {c} = rest \ {y}
  BY <1>3, FS_RemoveElement
<1>7. /\ DaysOf(table, rest) = Days(y) + DaysOf(table, rest \ {y})
      /\ DaysOf(table, T \ {y}) = Days(c) + DaysOf(table, (T \ {y}) \ {c})
  <2>1. /\ rest \notin C /\ rest \in SUBSET S /\ y \in rest
        /\ T \ {y} \notin C /\ T \ {y} \in SUBSET S /\ c \in T \ {y}
    BY <1>1, <1>2, <1>3, <1>5
  <2>2. QED
    BY <2>1
<1>8. /\ Days(c) \in Nat /\ Days(y) \in Nat
      /\ DaysOf(table, rest \ {y}) \in Nat
  BY <1>3, <1>6, DaysOfType
<1> HIDE DEF Days, c, rest, C
<1>9. QED
  BY <1>2, <1>4, <1>6, <1>7, <1>8

\* Only the dates of the requests that are counted matter.
LEMMA DaysOfSame ==
  ASSUME NEW table, NEW other, NEW S,
         \A i \in S : InclusiveDays(other[i]) = InclusiveDays(table[i])
  PROVE  DaysOf(other, S) = DaysOf(table, S)
<1>1. \A g : Adds(g, other, S) <=> Adds(g, table, S)
  <2>1. \A s \in SUBSET S : s # {} => Some(s) \in S
    BY SomeIsIn
  <2>2. QED
    BY <2>1 DEF Adds
<1>2. (CHOOSE g : Adds(g, other, S)) = (CHOOSE g : Adds(g, table, S))
  BY <1>1
<1>3. QED
  BY <1>2, DaysOfFold
-----------------------------------------------------------------------------
(* The rows the tools compute. *)

LEMMA RequestFields ==
  ASSUME NEW r \in Request
  PROVE  /\ r.start \in Nat /\ r.end \in Nat /\ r.start <= r.end
         /\ InclusiveDays(r) \in Nat
         /\ KeyOf(r) \in Keys /\ KeyOf(r)[2] = r.type
         /\ r # NoRow
<1>1. r.start \in Dates /\ r.end \in Dates /\ r.start <= r.end
  BY DEF Request
<1>2. r.start \in Nat /\ r.end \in Nat
  BY <1>1, DatesAssumption
<1>3. KeyOf(r) \in Keys /\ KeyOf(r)[2] = r.type
  BY <1>1 DEF KeyOf, Keys, Request, Years
<1>4. QED
  BY <1>1, <1>2, <1>3, NoRowAssumption DEF InclusiveDays

LEMMA PendingRowType ==
  ASSUME NEW e \in Employees, NEW t \in LeaveTypes, NEW start, NEW end,
         ValidDates(start, end)
  PROVE  /\ PendingRow(e, t, start, end) \in Request
         /\ PendingRow(e, t, start, end).status = "PENDING"
BY DEF PendingRow, Request, ValidDates, Statuses

\* Only the status and the approver change, or only the dates.
LEMMA NewRowType ==
  ASSUME NEW r \in Request
  PROVE  /\ \A approve \in BOOLEAN, m \in Managers :
              LET d == Decided(r, approve, m)
              IN  /\ d \in Request /\ KeyOf(d) = KeyOf(r)
                  /\ InclusiveDays(d) = InclusiveDays(r)
                  /\ d.status = IF approve THEN "APPROVED" ELSE "REJECTED"
         /\ LET d == Cancelled(r)
            IN  d \in Request /\ d.status = "CANCELLED"
         /\ \A start, end : ValidDates(start, end) =>
              LET d == Redated(r, start, end)
              IN  d \in Request /\ d.status = r.status
BY DEF Decided, Cancelled, Redated, Request, Statuses, ValidDates, KeyOf,
       InclusiveDays

RowBalanced(b) == b.remaining = b.total - b.used

LEMMA ChargeOK ==
  ASSUME NEW b \in BalanceRow \cup {NoRow}, NEW days \in Nat
  PROVE  /\ Charge(b, days) \in BalanceRow
         /\ RowBalanced(Charge(b, days))
         /\ Charge(b, days).used = (IF b = NoRow THEN 0 ELSE b.used) + days
         /\ b # NoRow => Charge(b, days).total = b.total
BY DEF Charge, WithUsed, ZeroRow, BalanceRow, RowBalanced

LEMMA RefundOK ==
  ASSUME NEW b \in BalanceRow, NEW days \in Nat
  PROVE  /\ Refund(b, days) \in BalanceRow
         /\ RowBalanced(Refund(b, days))
         /\ days <= b.used => Refund(b, days).used = b.used - days
<1>1. b # NoRow
  BY NoRowAssumption
<1>2. QED
  BY <1>1 DEF Refund, WithUsed, BalanceRow, RowBalanced

LEMMA QuotaRowOK ==
  ASSUME NEW t \in PaidTypes
  PROVE  /\ QuotaRow(t) \in BalanceRow /\ RowBalanced(QuotaRow(t))
         /\ QuotaRow(t).used = 0
BY QuotaAssumption DEF QuotaRow, BalanceRow, RowBalanced
-----------------------------------------------------------------------------
(* The ledger. *)

\* What one key of the ledger says.
Exact(table, b, k) ==
  /\ k[2] = Unpaid => b = NoRow
  /\ k[2] # Unpaid =>
       (IF b = NoRow THEN 0 ELSE b.used) = ApprovedDays(table, k)

LEMMA LedgerOf == LedgerExact <=> \A k \in Keys : Exact(request, balance[k], k)
BY DEF LedgerExact, Exact

\* The approved requests of a key are finitely many rows of the table.
LEMMA ApprovedRows ==
  ASSUME TypeOK, IsFiniteSet(Made), NEW k
  PROVE  /\ ApprovedOn(request, k) \in SUBSET Made
         /\ IsFiniteSet(ApprovedOn(request, k))
         /\ \A i \in ApprovedOn(request, k) :
              request[i] \in Request /\ InclusiveDays(request[i]) \in Nat
         /\ ApprovedDays(request, k) \in Nat
<1>1. ApprovedOn(request, k) \in SUBSET Made
  BY DEF ApprovedOn, Made, TypeOK
<1>2. IsFiniteSet(ApprovedOn(request, k))
  BY <1>1, FS_Subset
<1>3. \A i \in ApprovedOn(request, k) :
        request[i] \in Request /\ InclusiveDays(request[i]) \in Nat
  BY RequestFields DEF ApprovedOn, TypeOK
<1>4. QED
  BY <1>1, <1>2, <1>3, DaysOfType DEF ApprovedDays

\* One request row is written, an approved one neither before nor after.
LEMMA NotApproved ==
  ASSUME TypeOK, NEW id \in RequestIds, NEW r \in Request,
         request' = [request EXCEPT ![id] = r],
         ~HasStatus(id, "APPROVED"), r.status # "APPROVED", NEW k
  PROVE  ApprovedDays(request', k) = ApprovedDays(request, k)
<1>1. ApprovedOn(request', k) = ApprovedOn(request, k)
  BY DEF ApprovedOn, TypeOK, HasStatus
<1>2. \A i \in ApprovedOn(request, k) : request'[i] = request[i]
  BY DEF ApprovedOn, TypeOK, HasStatus
<1>3. DaysOf(request', ApprovedOn(request, k)) = ApprovedDays(request, k)
  BY <1>2, DaysOfSame DEF ApprovedDays
<1>4. QED
  BY <1>1, <1>3 DEF ApprovedDays

\* One more request is approved.
LEMMA OneMore ==
  ASSUME TypeOK, IsFiniteSet(Made), NEW id \in RequestIds, NEW r \in Request,
         request' = [request EXCEPT ![id] = r], request[id] # NoRow,
         ~HasStatus(id, "APPROVED"), r.status = "APPROVED", NEW k
  PROVE  ApprovedDays(request', k) =
           ApprovedDays(request, k)
             + (IF k = KeyOf(r) THEN InclusiveDays(r) ELSE 0)
<1> DEFINE old == ApprovedOn(request, k)
           new == ApprovedOn(request', k)
<1>1. /\ IsFiniteSet(old) /\ old \in SUBSET Made
      /\ \A i \in old : InclusiveDays(request[i]) \in Nat
      /\ ApprovedDays(request, k) \in Nat
  BY ApprovedRows
<1>2. \A i \in old : request'[i] = request[i] /\ i # id
  BY DEF ApprovedOn, TypeOK, HasStatus
<1>3. request'[id] = r /\ r # NoRow /\ InclusiveDays(r) \in Nat
  BY RequestFields DEF TypeOK
<1>4. DaysOf(request', old) = DaysOf(request, old)
  BY <1>2, DaysOfSame
<1>5. CASE k = KeyOf(r)
  <2>1. new = old \cup {id} /\ id \notin old /\ new \ {id} = old
    BY <1>2, <1>3, <1>5 DEF ApprovedOn, TypeOK
  <2>2. \A i \in new : InclusiveDays(request'[i]) \in Nat
    BY <1>1, <1>2, <1>3, <2>1
  <2>3. PICK after, ids : after = request' /\ ids = new
    OBVIOUS
  <2>4. IsFiniteSet(ids) /\ id \in ids /\ ids \ {id} = old
    <3> HIDE DEF old, new
    <3>1. QED
      BY <1>1, <2>1, <2>3, FS_AddElement
  <2>5. \A i \in ids : InclusiveDays(after[i]) \in Nat
    BY <2>2, <2>3
  <2>6. DaysOf(after, ids)
          = InclusiveDays(after[id]) + DaysOf(after, ids \ {id})
    BY <2>4, <2>5, DaysOfElement
  <2>7. DaysOf(request', new) = InclusiveDays(r) + DaysOf(request', old)
    BY <1>3, <2>3, <2>4, <2>6
  <2>8. QED
    BY <1>1, <1>3, <1>4, <1>5, <2>7 DEF ApprovedDays
<1>6. CASE k # KeyOf(r)
  <2>1. new = old
    BY <1>2, <1>3, <1>6 DEF ApprovedOn, TypeOK
  <2>2. QED
    BY <1>1, <1>4, <1>6, <2>1 DEF ApprovedDays
<1>7. QED
  BY <1>5, <1>6

\* One approved request less.
LEMMA OneLess ==
  ASSUME TypeOK, IsFiniteSet(Made), NEW id \in RequestIds, NEW r \in Request,
         request' = [request EXCEPT ![id] = r],
         HasStatus(id, "APPROVED"), r.status # "APPROVED", NEW k
  PROVE  /\ ApprovedDays(request', k) \in Nat
         /\ ApprovedDays(request, k) =
              ApprovedDays(request', k)
                + (IF k = KeyOf(request[id]) THEN InclusiveDays(request[id])
                   ELSE 0)
<1> DEFINE old == ApprovedOn(request, k)
           new == ApprovedOn(request', k)
<1>1. /\ IsFiniteSet(old) /\ old \in SUBSET Made
      /\ \A i \in old : InclusiveDays(request[i]) \in Nat
  BY ApprovedRows
<1>2. request[id] \in Request /\ request[id] # NoRow
  BY DEF TypeOK, HasStatus
<1>3. new = old \ {id} /\ \A i \in new : request'[i] = request[i]
  BY DEF ApprovedOn, TypeOK, HasStatus
<1>4. id \in old <=> k = KeyOf(request[id])
  BY <1>2 DEF ApprovedOn, TypeOK, HasStatus
<1>5. DaysOf(request', new) = DaysOf(request, new)
  BY <1>3, DaysOfSame
<1>6. DaysOf(request, new) \in Nat
  <2>1. IsFiniteSet(new) /\ \A i \in new : InclusiveDays(request[i]) \in Nat
    BY <1>1, <1>3, FS_Subset
  <2> HIDE DEF new
  <2>2. QED
    BY <2>1, DaysOfType
<1>7. CASE k = KeyOf(request[id])
  <2>1. id \in old
    BY <1>4, <1>7
  <2> HIDE DEF old, new
  <2>2. DaysOf(request, old)
          = InclusiveDays(request[id]) + DaysOf(request, new)
    BY <1>1, <1>3, <2>1, DaysOfElement
  <2>3. InclusiveDays(request[id]) \in Nat
    BY <1>2, RequestFields
  <2>4. QED
    BY <1>5, <1>6, <1>7, <2>2, <2>3 DEF ApprovedDays, old, new
<1>8. CASE k # KeyOf(request[id])
  <2>1. new = old
    BY <1>3, <1>4, <1>8
  <2>2. QED
    BY <1>5, <1>6, <1>8, <2>1 DEF ApprovedDays
<1>9. QED
  BY <1>7, <1>8
-----------------------------------------------------------------------------
(* The steps. *)

LEMMA RequestWritten ==
  ASSUME TypeOK, IsFiniteSet(Made), NEW id \in RequestIds, NEW r \in Request,
         request' = [request EXCEPT ![id] = r]
  PROVE  /\ request' \in [RequestIds -> Request \cup {NoRow}]
         /\ IsFiniteSet(Made')
<1>1. request' \in [RequestIds -> Request \cup {NoRow}]
  BY DEF TypeOK
<1>2. Made' = Made \cup {id}
  BY NoRowAssumption DEF TypeOK, Made
<1>3. QED
  BY <1>1, <1>2, FS_AddElement

\* Neither a balance nor an approved request changes.
LEMMA PendingOnly ==
  ASSUME TypeOK, IInv, NEW id \in RequestIds, NEW r \in Request,
         request' = [request EXCEPT ![id] = r], UNCHANGED balance,
         ~HasStatus(id, "APPROVED"), r.status # "APPROVED"
  PROVE  TypeOK' /\ IInv'
<1>1. request' \in [RequestIds -> Request \cup {NoRow}] /\ IsFiniteSet(Made')
  BY RequestWritten DEF IInv
<1>2. \A k \in Keys : ApprovedDays(request', k) = ApprovedDays(request, k)
  BY NotApproved
<1>3. LedgerExact'
  BY <1>2 DEF IInv, LedgerExact
<1>4. RowsBalanced'
  BY DEF IInv, RowsBalanced
<1>5. QED
  BY <1>1, <1>3, <1>4 DEF TypeOK, IInv

\* One balance row is written along with a request.
LEMMA OneRow ==
  ASSUME TypeOK, IInv, NEW id \in RequestIds, NEW r \in Request,
         request' = [request EXCEPT ![id] = r],
         NEW key \in Keys, key[2] # Unpaid,
         NEW row \in BalanceRow, RowBalanced(row),
         balance' = [balance EXCEPT ![key] = row],
         row.used = ApprovedDays(request', key),
         \A k \in Keys \ {key} :
           ApprovedDays(request', k) = ApprovedDays(request, k)
  PROVE  TypeOK' /\ IInv'
<1>1. request' \in [RequestIds -> Request \cup {NoRow}] /\ IsFiniteSet(Made')
  BY RequestWritten DEF IInv
<1>2. /\ balance' \in [Keys -> BalanceRow \cup {NoRow}]
      /\ balance'[key] = row
      /\ \A k \in Keys \ {key} : balance'[k] = balance[k]
  BY DEF TypeOK
<1>3. row # NoRow
  BY NoRowAssumption
<1>4. LedgerExact'
  BY <1>2, <1>3 DEF IInv, LedgerExact
<1>5. RowsBalanced'
  BY <1>2 DEF IInv, RowsBalanced, RowBalanced
<1>6. QED
  BY <1>1, <1>2, <1>4, <1>5 DEF TypeOK, IInv

\* Unpaid leave has no row to write.
LEMMA NoBalance ==
  ASSUME TypeOK, IInv, NEW id \in RequestIds, NEW r \in Request,
         request' = [request EXCEPT ![id] = r], UNCHANGED balance,
         \A k \in Keys : k[2] # Unpaid =>
           ApprovedDays(request', k) = ApprovedDays(request, k)
  PROVE  TypeOK' /\ IInv'
<1>1. request' \in [RequestIds -> Request \cup {NoRow}] /\ IsFiniteSet(Made')
  BY RequestWritten DEF IInv
<1>2. LedgerExact' /\ RowsBalanced'
  BY DEF IInv, LedgerExact, RowsBalanced
<1>3. QED
  BY <1>1, <1>2 DEF TypeOK, IInv

LEMMA ApplyOK ==
  ASSUME TypeOK, IInv, NEW id \in RequestIds, NEW e \in Employees,
         NEW t \in LeaveTypes, NEW start \in Dates, NEW end \in Dates,
         ApplyForLeave(id, e, t, start, end)
  PROVE  TypeOK' /\ IInv'
BY PendingRowType, PendingOnly DEF ApplyForLeave, HasStatus

LEMMA ModifyOK ==
  ASSUME TypeOK, IInv, NEW id \in RequestIds,
         NEW start \in Dates, NEW end \in Dates,
         ModifyLeaveRequest(id, start, end)
  PROVE  TypeOK' /\ IInv'
<1> DEFINE d == Redated(request[id], start, end)
<1>1. request[id] \in Request /\ request[id].status = "PENDING"
  BY DEF ModifyLeaveRequest, HasStatus, TypeOK
<1>2. d \in Request /\ d.status = "PENDING"
  BY <1>1, NewRowType DEF ModifyLeaveRequest
<1>3. request' = [request EXCEPT ![id] = d] /\ UNCHANGED balance
  BY DEF ModifyLeaveRequest
<1>4. QED
  BY <1>1, <1>2, <1>3, PendingOnly DEF HasStatus

LEMMA DecideOK ==
  ASSUME TypeOK, IInv, NEW id \in RequestIds, NEW approve \in BOOLEAN,
         NEW m \in Managers, DecideOnLeaveRequest(id, approve, m)
  PROVE  TypeOK' /\ IInv'
<1> DEFINE old == request[id]
           r == Decided(old, approve, m)
           key == KeyOf(old)
<1>1. old \in Request /\ old # NoRow /\ old.status = "PENDING"
  BY DEF DecideOnLeaveRequest, HasStatus, TypeOK
<1>2. /\ r \in Request /\ KeyOf(r) = key
      /\ InclusiveDays(r) = InclusiveDays(old)
      /\ r.status = IF approve THEN "APPROVED" ELSE "REJECTED"
  BY <1>1, NewRowType
<1>3. request' = [request EXCEPT ![id] = r]
  BY DEF DecideOnLeaveRequest
<1>4. ~HasStatus(id, "APPROVED")
  BY <1>1 DEF HasStatus
<1>5. CASE ~approve
  BY <1>2, <1>3, <1>4, <1>5, PendingOnly DEF DecideOnLeaveRequest
<1>6. CASE approve
  <2>1. \A k \in Keys :
          ApprovedDays(request', k) =
            ApprovedDays(request, k)
              + (IF k = key THEN InclusiveDays(old) ELSE 0)
    BY <1>1, <1>2, <1>3, <1>4, <1>6, OneMore DEF IInv
  <2>2. \A k \in Keys : ApprovedDays(request, k) \in Nat
    BY ApprovedRows DEF IInv
  <2>3. key \in Keys /\ key[2] = old.type /\ InclusiveDays(old) \in Nat
    BY <1>1, RequestFields
  <2>4. \A k \in Keys \ {key} :
          ApprovedDays(request', k) = ApprovedDays(request, k)
    BY <2>1, <2>2
  <2>5. CASE old.type = Unpaid
    <3>1. UNCHANGED balance
      BY <1>6, <2>5 DEF DecideOnLeaveRequest, Rebalance
    <3>2. QED
      BY <1>2, <1>3, <2>3, <2>4, <2>5, <3>1, NoBalance
  <2>6. CASE old.type # Unpaid
    <3> DEFINE row == Charge(balance[key], InclusiveDays(old))
    <3>1. balance' = [balance EXCEPT ![key] = row]
      BY <1>6, <2>6 DEF DecideOnLeaveRequest, Rebalance, Charged, BalanceOf
    <3>2. balance[key] \in BalanceRow \cup {NoRow}
      BY <2>3 DEF TypeOK
    <3>3. /\ row \in BalanceRow /\ RowBalanced(row)
          /\ row.used = (IF balance[key] = NoRow THEN 0
                         ELSE balance[key].used) + InclusiveDays(old)
      BY <2>3, <3>2, ChargeOK
    <3>4. row.used = ApprovedDays(request', key)
      BY <2>1, <2>3, <2>6, <3>3 DEF IInv, LedgerExact
    <3>5. QED
      BY <1>2, <1>3, <2>3, <2>4, <2>6, <3>1, <3>3, <3>4, OneRow
  <2>7. QED
    BY <2>5, <2>6
<1>7. QED
  BY <1>5, <1>6

LEMMA CancelOK ==
  ASSUME TypeOK, IInv, NEW id \in RequestIds, CancelLeave(id)
  PROVE  TypeOK' /\ IInv'
<1> DEFINE old == request[id]
           r == Cancelled(old)
           key == KeyOf(old)
<1>1. old \in Request /\ old # NoRow
  BY DEF CancelLeave, HasStatus, TypeOK
<1>2. r \in Request /\ r.status = "CANCELLED"
  BY <1>1, NewRowType
<1>3. request' = [request EXCEPT ![id] = r]
  BY DEF CancelLeave
<1>4. CASE ~HasStatus(id, "APPROVED")
  BY <1>2, <1>3, <1>4, PendingOnly DEF CancelLeave
<1>5. CASE HasStatus(id, "APPROVED")
  <2>1. \A k \in Keys :
          /\ ApprovedDays(request', k) \in Nat
          /\ ApprovedDays(request, k) =
               ApprovedDays(request', k)
                 + (IF k = key THEN InclusiveDays(old) ELSE 0)
    BY <1>2, <1>3, <1>5, OneLess DEF IInv
  <2>2. key \in Keys /\ key[2] = old.type /\ InclusiveDays(old) \in Nat
    BY <1>1, RequestFields
  <2>3. \A k \in Keys \ {key} :
          ApprovedDays(request', k) = ApprovedDays(request, k)
    BY <2>1
  <2>4. CASE old.type = Unpaid
    <3>1. UNCHANGED balance
      BY <1>5, <2>4 DEF CancelLeave, Rebalance
    <3>2. QED
      BY <1>2, <1>3, <2>2, <2>3, <2>4, <3>1, NoBalance
  <2>5. CASE old.type # Unpaid
    <3> DEFINE b == balance[key]
               row == Refund(b, InclusiveDays(old))
    <3>1. balance' = [balance EXCEPT ![key] = row]
      BY <1>5, <2>5 DEF CancelLeave, Rebalance, Refunded, BalanceOf
    <3>2. /\ b \in BalanceRow \cup {NoRow}
          /\ (IF b = NoRow THEN 0 ELSE b.used) = ApprovedDays(request, key)
      BY <2>2, <2>5 DEF TypeOK, IInv, LedgerExact
    <3>3. InclusiveDays(old) # 0
      BY <1>1, RequestFields DEF InclusiveDays
    <3>4. b \in BalanceRow /\ InclusiveDays(old) <= b.used
      BY <2>1, <2>2, <3>2, <3>3
    <3>5. /\ row \in BalanceRow /\ RowBalanced(row)
          /\ row.used = b.used - InclusiveDays(old)
      BY <2>2, <3>4, RefundOK
    <3>6. row.used = ApprovedDays(request', key)
      BY <2>1, <2>2, <3>2, <3>4, <3>5, NoRowAssumption
    <3>7. QED
      BY <1>2, <1>3, <2>2, <2>3, <2>5, <3>1, <3>5, <3>6, OneRow
  <2>6. QED
    BY <2>4, <2>5
<1>6. QED
  BY <1>4, <1>5

\* A seeded row stands for a key without approved requests.
LEMMA SeedOK ==
  ASSUME TypeOK, IInv, NEW emps, NEW year, SeedLeaveBalances(emps, year)
  PROVE  TypeOK' /\ IInv'
<1>1. request' = request
  BY DEF SeedLeaveBalances
<1>2. ASSUME NEW k \in Keys
      PROVE  \/ balance'[k] = balance[k]
             \/ /\ balance[k] = NoRow /\ balance'[k] = QuotaRow(k[2])
                /\ k[2] # Unpaid /\ k[2] \in PaidTypes
  BY DEF SeedLeaveBalances, Keys, LeaveTypes
<1>3. \A k \in Keys :
        \/ balance'[k] = balance[k]
        \/ /\ balance[k] = NoRow /\ k[2] # Unpaid
           /\ balance'[k] \in BalanceRow /\ balance'[k] # NoRow
           /\ RowBalanced(balance'[k]) /\ balance'[k].used = 0
  BY <1>2, QuotaRowOK, NoRowAssumption
<1>4. balance' \in [Keys -> BalanceRow \cup {NoRow}]
  <2>1. balance' = [k \in Keys |-> balance'[k]]
    BY DEF SeedLeaveBalances
  <2>2. \A k \in Keys : balance'[k] \in BalanceRow \cup {NoRow}
    BY <1>3 DEF TypeOK
  <2>3. QED
    BY <2>1, <2>2
<1>5. LedgerExact' /\ RowsBalanced'
  BY <1>1, <1>3 DEF IInv, LedgerExact, RowsBalanced, RowBalanced
<1>6. QED
  BY <1>1, <1>4, <1>5 DEF TypeOK, IInv, Made

LEMMA InitOK == Init => TypeOK /\ IInv
<1> SUFFICES ASSUME Init PROVE TypeOK /\ IInv
  OBVIOUS
<1>1. TypeOK /\ Made = {}
  BY DEF Init, TypeOK, Made
<1>2. \A k \in Keys : ApprovedDays(request, k) = 0
  <2>1. \A k : ApprovedOn(request, k) = {}
    BY DEF Init, ApprovedOn
  <2>2. QED
    BY <2>1, DaysOfEmpty DEF ApprovedDays
<1>3. LedgerExact /\ RowsBalanced
  BY <1>2 DEF Init, LedgerExact, RowsBalanced
<1>4. QED
  BY <1>1, <1>3, FS_EmptySet DEF IInv

LEMMA NextOK ==
  ASSUME TypeOK, IInv, [Next]_vars PROVE TypeOK' /\ IInv'
<1>1. ASSUME NEW id \in RequestIds, NEW e \in Employees, NEW t \in LeaveTypes,
             NEW start \in Dates, NEW end \in Dates,
             ApplyForLeave(id, e, t, start, end)
      PROVE  TypeOK' /\ IInv'
  BY <1>1, ApplyOK
<1>2. ASSUME NEW id \in RequestIds, NEW approve \in BOOLEAN,
             NEW m \in Managers, DecideOnLeaveRequest(id, approve, m)
      PROVE  TypeOK' /\ IInv'
  BY <1>2, DecideOK
<1>3. ASSUME NEW id \in RequestIds, CancelLeave(id)
      PROVE  TypeOK' /\ IInv'
  BY <1>3, CancelOK
<1>4. ASSUME NEW id \in RequestIds, NEW start \in Dates, NEW end \in Dates,
             ModifyLeaveRequest(id, start, end)
      PROVE  TypeOK' /\ IInv'
  BY <1>4, ModifyOK
<1>5. ASSUME NEW emps \in {{e} : e \in Employees} \cup {Employees},
             NEW year \in Years, SeedLeaveBalances(emps, year)
      PROVE  TypeOK' /\ IInv'
  BY <1>5, SeedOK
<1>6. CASE UNCHANGED vars
  BY <1>6 DEF vars, TypeOK, IInv, Made, RowsBalanced, LedgerExact
<1>7. QED
  BY <1>1, <1>2, <1>3, <1>4, <1>5, <1>6 DEF Next
-----------------------------------------------------------------------------
\* Every request and every balance row has its type.
THEOREM TypeCorrect == Spec => []TypeOK
<1>1. TypeOK /\ IInv /\ [Next]_vars => (TypeOK /\ IInv)'
  BY NextOK
<1>2. QED
  BY <1>1, InitOK, PTL DEF Spec

\* The ledger is exact, its rows are balanced and finitely many requests were
\* made: inductive together with the types.
THEOREM Invariance == Spec => []IInv
<1>1. TypeOK /\ IInv /\ [Next]_vars => (TypeOK /\ IInv)'
  BY NextOK
<1>2. QED
  BY <1>1, InitOK, PTL DEF Spec

\* After any sequence of applications, modifications, decisions, seedings and
\* cancellations, the used days of a balance are the days of the approved
\* requests charged to it.
THEOREM LedgerStaysExact == Spec => []LedgerExact
<1>1. IInv => LedgerExact
  BY DEF IInv
<1>2. QED
  BY <1>1, Invariance, PTL

\* What checkLeaveEligibility lets through never overdraws when it is
\* approved: the check and the charge count the same days against one row.
THEOREM EligibleFits == Spec => EligibleNeverOverdraws
<1>1. ASSUME TypeOK, IInv, NEW id \in RequestIds, NEW m \in Managers,
             DecideOnLeaveRequest(id, TRUE, m), request[id].type # Unpaid,
             Eligible(balance[KeyOf(request[id])], request[id].type,
                      request[id].start, request[id].end)
      PROVE  balance'[KeyOf(request[id])].remaining >= 0
  <2> DEFINE r == request[id]
             key == KeyOf(r)
             b == balance[key]
             row == Charge(b, InclusiveDays(r))
  <2>1. r \in Request
    BY <1>1 DEF DecideOnLeaveRequest, HasStatus, TypeOK
  <2>2. /\ key \in Keys /\ InclusiveDays(r) \in Nat
        /\ r.start \in Nat /\ r.end \in Nat
    BY <2>1, RequestFields
  <2>3. /\ b # NoRow /\ b \in BalanceRow
        /\ b.remaining >= r.end - r.start + 1
    BY <1>1, <2>2 DEF Eligible, TypeOK
  <2>4. b.remaining = b.total - b.used
    BY <1>1, <2>2, <2>3 DEF IInv, RowsBalanced
  <2>5. balance'[key] = row
    BY <1>1, <2>2
       DEF DecideOnLeaveRequest, Rebalance, Charged, BalanceOf, TypeOK
  <2>6. /\ row.remaining = row.total - row.used
        /\ row.used = b.used + InclusiveDays(r) /\ row.total = b.total
    BY <2>2, <2>3, ChargeOK DEF RowBalanced
  <2>7. b.total \in Nat /\ b.used \in Nat
    BY <2>3 DEF BalanceRow
  <2>8. QED
    BY <2>2, <2>3, <2>4, <2>5, <2>6, <2>7 DEF InclusiveDays
<1>2. TypeOK /\ IInv /\ [Next]_vars =>
        [\A id \in RequestIds, m \in Managers :
           DecideOnLeaveRequest(id, TRUE, m) =>
             LET r == request[id]
                 k == KeyOf(r)
             IN  (r.type # Unpaid
                    /\ Eligible(balance[k], r.type, r.start, r.end))
                   => balance'[k].remaining >= 0]_vars
  BY <1>1
<1>3. QED
  BY <1>2, TypeCorrect, Invariance, PTL DEF Spec, EligibleNeverOverdraws
-----------------------------------------------------------------------------
(* The days payroll counts. *)

\* The days of [first, last] that some request of a set covers.
Covered(table, ids, first, last) ==
  {d \in first .. last : \E i \in ids : d \in table[i].start .. table[i].end}

\* They are no more than the days of the requests, added up.
LEMMA CoveredAtMostDays ==
  ASSUME NEW table, NEW S, IsFiniteSet(S), NEW first \in Nat, NEW last \in Nat,
         \A i \in S : table[i] \in Request
  PROVE  Cardinality(Covered(table, S, first, last)) <= DaysOf(table, S)
<1> DEFINE Cov(T) == Covered(table, T, first, last)
           C == {T \in SUBSET S : ~(Cardinality(Cov(T)) <= DaysOf(table, T))}
<1> SUFFICES ASSUME C # {} PROVE FALSE
  OBVIOUS
<1>1. PICK T \in C : \A U \in C : U \subseteq T => U = T
  <2>1. C \subseteq SUBSET S
    OBVIOUS
  <2> HIDE DEF C
  <2>2. QED
    BY <2>1, MinimalSubset
<1>2. /\ T \in SUBSET S /\ IsFiniteSet(T)
      /\ ~(Cardinality(Cov(T)) <= DaysOf(table, T))
  BY FS_Subset
<1>3. CASE T = {}
  <2>1. Cov(T) = {}
    BY <1>3 DEF Covered
  <2>2. QED
    BY <1>2, <1>3, <2>1, DaysOfEmpty, FS_EmptySet
<1>4. CASE T # {}
  <2> DEFINE x == Some(T)
             rest == T \ {x}
             own == table[x].start .. table[x].end
  <2>1. x \in T /\ rest \in SUBSET S /\ rest \notin C
    BY <1>1, <1>2, <1>4, SomeIsIn
  <2>2. Cardinality(Cov(rest)) <= DaysOf(table, rest)
    BY <2>1
  <2>3. table[x] \in Request
    BY <1>2, <2>1
  <2>4. /\ table[x].start \in Nat /\ table[x].end \in Nat
        /\ table[x].start <= table[x].end
        /\ InclusiveDays(table[x]) \in Nat
    BY <2>3, RequestFields
  <2>5. IsFiniteSet(own) /\ Cardinality(own) = InclusiveDays(table[x])
    <3>1. PICK a, b : a = table[x].start /\ b = table[x].end
      OBVIOUS
    <3>2. a \in Int /\ b \in Int /\ ~(a > b)
      BY <2>4, <3>1
    <3>3. IsFiniteSet(a .. b) /\ Cardinality(a .. b) = b - a + 1
      BY <3>2, FS_Interval
    <3>4. own = a .. b
      BY <3>1
    <3>5. InclusiveDays(table[x]) = b - a + 1
      BY <3>1 DEF InclusiveDays
    <3> QED
      BY <3>3, <3>4, <3>5
  <2>6. /\ IsFiniteSet(Cov(rest)) /\ Cardinality(Cov(rest)) \in Nat
    <3>1. Cov(rest) \in SUBSET (first .. last)
      BY DEF Covered
    <3>2. IsFiniteSet(first .. last)
      BY FS_Interval
    <3> HIDE DEF Cov
    <3>3. QED
      BY <3>1, <3>2, FS_Subset, FS_CardinalityType
  <2>7. Cov(T) \subseteq own \cup Cov(rest)
    BY DEF Covered
  <2>8. DaysOf(table, T) = InclusiveDays(table[x]) + DaysOf(table, rest)
    BY <1>2, <1>4, DaysOfDef
  <2>9. DaysOf(table, rest) \in Nat
    <3>1. IsFiniteSet(rest)
      BY <1>2, FS_RemoveElement
    <3>2. \A i \in rest : InclusiveDays(table[i]) \in Nat
      BY <2>1, RequestFields
    <3> HIDE DEF rest
    <3>3. QED
      BY <3>1, <3>2, DaysOfType
  <2> HIDE DEF Cov, own, rest
  <2>10. /\ IsFiniteSet(own \cup Cov(rest))
         /\ Cardinality(own \cup Cov(rest))
              <= InclusiveDays(table[x]) + Cardinality(Cov(rest))
    <3>1. IsFiniteSet(own \cap Cov(rest))
      BY <2>5, FS_Intersection, <2>6
    <3>2. Cardinality(own \cap Cov(rest)) \in Nat
      BY <3>1, FS_CardinalityType
    <3>3. QED
      BY <2>4, <2>5, <2>6, <3>2, FS_Union
  <2>11. /\ Cardinality(Cov(T)) <= Cardinality(own \cup Cov(rest))
         /\ Cardinality(Cov(T)) \in Nat
         /\ Cardinality(own \cup Cov(rest)) \in Nat
    BY <2>7, <2>10, FS_Subset, FS_CardinalityType
  <2>12. QED
    BY <1>2, <2>2, <2>4, <2>6, <2>8, <2>9, <2>10, <2>11
<1>5. QED
  BY <1>3, <1>4

\* Payroll never misses an unpaid day: getUnpaidLeaveDaysForMonth counts at
\* least the days of the month that approved unpaid leave covers.
THEOREM UnpaidDaysAreCounted == Spec => []NoUnpaidDayMissed
<1>1. ASSUME TypeOK, IInv, NEW e \in Employees, NEW first \in Dates,
             NEW last \in Dates
      PROVE  UnpaidDays(request, e, first, last)
               >= Cardinality(UnpaidDates(request, e, first, last))
  <2> DEFINE ids == UnpaidIn(request, e, first, last)
             days == UnpaidDates(request, e, first, last)
  <2>1. first \in Nat /\ last \in Nat
    BY DatesAssumption
  <2>2. ids \in SUBSET Made /\ \A i \in ids : request[i] \in Request
    BY <1>1 DEF UnpaidIn, Made, TypeOK
  <2>3. IsFiniteSet(ids)
    <3> HIDE DEF ids
    <3>1. QED
      BY <1>1, <2>2, FS_Subset DEF IInv
  <2>4. days = Covered(request, ids, first, last)
    <3>1. ASSUME NEW d \in first .. last, NEW i \in RequestIds,
                 request[i] # NoRow,
                 d \in request[i].start .. request[i].end
          PROVE  Overlaps(request[i], first, last)
      <4>1. request[i].start \in Nat /\ request[i].end \in Nat
        BY <1>1, <3>1, RequestFields DEF TypeOK
      <4>2. QED
        BY <2>1, <3>1, <4>1 DEF Overlaps
    <3>2. DOMAIN request = RequestIds
      BY <1>1 DEF TypeOK
    <3>3. QED
      BY <3>1, <3>2 DEF UnpaidDates, UnpaidIn, Covered
  <2> HIDE DEF ids, days
  <2>5. Cardinality(days) <= DaysOf(request, ids)
    BY <2>1, <2>2, <2>3, <2>4, CoveredAtMostDays
  <2>6. IsFiniteSet(days) /\ Cardinality(days) \in Nat
    <3>1. days \in SUBSET (first .. last)
      BY <2>4 DEF Covered
    <3>2. IsFiniteSet(first .. last)
      BY <2>1, FS_Interval
    <3>3. QED
      BY <3>1, <3>2, FS_Subset, FS_CardinalityType
  <2>7. DaysOf(request, ids) \in Nat
    BY <2>2, <2>3, RequestFields, DaysOfType
  <2>8. QED
    BY <2>5, <2>6, <2>7 DEF UnpaidDays, ids, days
<1>2. TypeOK /\ IInv => NoUnpaidDayMissed
  BY <1>1 DEF NoUnpaidDayMissed
<1>3. QED
  BY <1>2, TypeCorrect, Invariance, PTL
=============================================================================
