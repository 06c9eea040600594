------------------------- MODULE ModelBudgetProofs -------------------------
(***************************************************************************)
(* The ledger and the reservations agree, nothing that is decided is taken *)
(* back and what is held fits the caps, for any number of calls and        *)
(* snapshots and any caps and prices.  The last of these is about sums     *)
(* over the calls; the first section proves what it needs of them, from    *)
(* the definition of the community modules and with the well-foundedness   *)
(* of the subsets of a finite set in place of an induction principle.      *)
(***************************************************************************)
EXTENDS ModelBudget, FiniteSetTheorems, WellFoundedInduction, TLAPS

----------------------------------------------------------------------------
(* Sums over finite sets *)

\* A nonempty family of subsets of a finite set has a smallest member.
LEMMA SmallestMember ==
  ASSUME NEW S, IsFiniteSet(S), NEW B \in SUBSET SUBSET S, B # {}
  PROVE  \E T \in B : \A U \in SUBSET T : U # T => U \notin B
<1>1. B \subseteq FiniteSubsetsOf(S)
  BY FS_FiniteSubsetsOfFinite
<1>2. PICK T \in B : \A U \in B : ~(<<U, T>> \in StrictSubsetOrdering(S))
  BY <1>1, FS_StrictSubsetOrderingWellFounded, WFMin
<1> QED BY <1>2 DEF StrictSubsetOrdering

\* The recursion that the community modules define a sum by.
Sums(f, S, g) ==
  g = [T \in SUBSET S |-> IF T = {} THEN 0
                          ELSE f[CHOOSE x \in T : TRUE] + g[T \ {CHOOSE x \in T : TRUE}]]

\* A sum is the value of that recursion on the whole set.
LEMMA SumIsRecursion ==
  ASSUME NEW f, NEW S
  PROVE  SumFunctionOnSet(f, S) = (CHOOSE g : Sums(f, S, g))[S]
BY DEF SumFunctionOnSet, FoldFunctionOnSet, MapThenFoldSet, Sums

\* Two recursions over finite sets agree wherever both are defined.
LEMMA SumsAgree ==
  ASSUME NEW f, NEW S, NEW U, NEW g, NEW h, IsFiniteSet(S), U \subseteq S,
         Sums(f, S, g), Sums(f, U, h)
  PROVE  \A T \in SUBSET U : g[T] = h[T]
<1> DEFINE B == {T \in SUBSET U : g[T] # h[T]}
<1>1. SUFFICES ASSUME B # {} PROVE FALSE
  OBVIOUS
<1>2. PICK T \in B : \A V \in SUBSET T : V # T => V \notin B
  <2>1. B \in SUBSET SUBSET S
    OBVIOUS
  <2> HIDE DEF B
  <2> QED BY <1>1, <2>1, SmallestMember
<1> DEFINE c == CHOOSE x \in T : TRUE
<1>3. /\ g[T] = IF T = {} THEN 0 ELSE f[c] + g[T \ {c}]
      /\ h[T] = IF T = {} THEN 0 ELSE f[c] + h[T \ {c}]
  BY DEF Sums
<1>4. T # {} => c \in T
  OBVIOUS
<1>5. T # {} => g[T \ {c}] = h[T \ {c}]
  BY <1>2, <1>4
<1> QED BY <1>2, <1>3, <1>5

\* The recursion has a solution over every finite set.
LEMMA SumsExist ==
  ASSUME NEW f, NEW S, IsFiniteSet(S)
  PROVE  \E g : Sums(f, S, g)
<1> DEFINE B == {T \in SUBSET S : ~\E g : Sums(f, T, g)}
<1>1. SUFFICES ASSUME B # {} PROVE FALSE
  OBVIOUS
<1>2. PICK T \in B : \A U \in SUBSET T : U # T => U \notin B
  <2>1. B \in SUBSET SUBSET S
    OBVIOUS
  <2> HIDE DEF B
  <2> QED BY <1>1, <2>1, SmallestMember
<1> DEFINE G(U) == CHOOSE g : Sums(f, U, g)
           c == CHOOSE x \in T : TRUE
           value(U) == IF U = {} THEN 0
                       ELSE IF U = T THEN f[c] + G(T \ {c})[T \ {c}] ELSE G(U)[U]
           g == [U \in SUBSET T |-> value(U)]
<1>3. \A U \in SUBSET T : U # T => Sums(f, U, G(U))
  BY <1>2
<1>4. ASSUME NEW U \in SUBSET T
      PROVE  value(U) = IF U = {} THEN 0
                        ELSE f[CHOOSE x \in U : TRUE] + g[U \ {CHOOSE x \in U : TRUE}]
  <2> DEFINE d == CHOOSE x \in U : TRUE
  <2>0. CASE U = {}
    BY <2>0
  <2>1. CASE U # {} /\ U = T
    <3>1. c \in T /\ T \ {c} # T
      BY <2>1
    <3>2. g[T \ {c}] = G(T \ {c})[T \ {c}]
      <4>1. CASE T \ {c} = {}
        <5>1. Sums(f, {}, G({})) /\ g[{}] = 0
          BY <4>1, <3>1, <1>3
        <5> HIDE DEF G, g
        <5>2. G({})[{}] = 0
          BY <5>1 DEF Sums
        <5> QED BY <4>1, <5>1, <5>2
      <4>2. CASE T \ {c} # {}
        BY <4>2, <3>1
      <4> QED BY <4>1, <4>2
    <3> QED BY <2>1, <3>2
  <2>2. CASE U # {} /\ U # T
    <3>1. d \in U /\ U \ {d} # U /\ U \ {d} # T
      BY <2>2
    <3>2. Sums(f, U, G(U)) /\ Sums(f, U \ {d}, G(U \ {d}))
      BY <1>3, <2>2, <3>1
    <3> HIDE DEF G
    <3>3. G(U)[U] = f[d] + G(U)[U \ {d}]
      BY <2>2, <3>2 DEF Sums
    <3>4. G(U)[U \ {d}] = G(U \ {d})[U \ {d}]
      BY <3>2, SumsAgree, FS_Subset
    <3>5. g[U \ {d}] = G(U \ {d})[U \ {d}]
      <4>1. CASE U \ {d} = {}
        BY <4>1, <3>2 DEF Sums
      <4>2. CASE U \ {d} # {}
        BY <4>2, <3>1
      <4> QED BY <4>1, <4>2
    <3> QED BY <2>2, <3>3, <3>4, <3>5
  <2> QED BY <2>0, <2>1, <2>2
<1>5. Sums(f, T, g)
  <2>1. g = [U \in SUBSET T |-> IF U = {} THEN 0
              ELSE f[CHOOSE x \in U : TRUE] + g[U \ {CHOOSE x \in U : TRUE}]]
    <3> HIDE DEF value
    <3> QED BY <1>4, Zenon
  <2> HIDE DEF g
  <2> QED BY <2>1 DEF Sums
<1> QED BY <1>2, <1>5

\* A sum over a finite set is the solution over any set that contains it.
LEMMA SumOfPart ==
  ASSUME NEW f, NEW S, NEW g, IsFiniteSet(S), Sums(f, S, g), NEW T \in SUBSET S
  PROVE  SumFunctionOnSet(f, T) = g[T]
<1>1. Sums(f, T, CHOOSE h : Sums(f, T, h))
  BY SumsExist, FS_Subset
<1> QED BY <1>1, SumIsRecursion, SumsAgree

\* One step of the recursion.
LEMMA SumStep ==
  ASSUME NEW f, NEW S, IsFiniteSet(S)
  PROVE  SumFunctionOnSet(f, S) =
           IF S = {} THEN 0
           ELSE f[CHOOSE x \in S : TRUE] + SumFunctionOnSet(f, S \ {CHOOSE x \in S : TRUE})
<1>1. PICK g : Sums(f, S, g)
  BY SumsExist
<1> DEFINE c == CHOOSE x \in S : TRUE
<1>2. SumFunctionOnSet(f, S) = g[S] /\ SumFunctionOnSet(f, S \ {c}) = g[S \ {c}]
  BY <1>1, SumOfPart
<1>3. g[S] = IF S = {} THEN 0 ELSE f[c] + g[S \ {c}]
  BY <1>1 DEF Sums
<1> QED BY <1>2, <1>3

\* A sum of naturals is a natural.
LEMMA SumIsNat ==
  ASSUME NEW f, NEW S, IsFiniteSet(S), \A x \in S : f[x] \in Nat
  PROVE  SumFunctionOnSet(f, S) \in Nat
<1> DEFINE B == {T \in SUBSET S : SumFunctionOnSet(f, T) \notin Nat}
<1>1. SUFFICES ASSUME B # {} PROVE FALSE
  OBVIOUS
<1>2. PICK T \in B : \A U \in SUBSET T : U # T => U \notin B
  <2>1. B \in SUBSET SUBSET S
    OBVIOUS
  <2> HIDE DEF B
  <2> QED BY <1>1, <2>1, SmallestMember
<1> DEFINE c == CHOOSE x \in T : TRUE
<1>3. SumFunctionOnSet(f, T) = IF T = {} THEN 0 ELSE f[c] + SumFunctionOnSet(f, T \ {c})
  BY SumStep, FS_Subset
<1>4. CASE T # {}
  <2>1. c \in T /\ T \ {c} \notin B
    BY <1>2, <1>4
  <2> QED BY <1>2, <1>3, <1>4, <2>1
<1> QED BY <1>2, <1>3, <1>4

\* Any element can be taken out of a sum first.
LEMMA SumTakesOut ==
  ASSUME NEW f, NEW S, IsFiniteSet(S), \A x \in S : f[x] \in Nat, NEW e \in S
  PROVE  SumFunctionOnSet(f, S) = f[e] + SumFunctionOnSet(f, S \ {e})
<1> DEFINE Sum(T) == SumFunctionOnSet(f, T)
           B == {T \in SUBSET S : \E x \in T : Sum(T) # f[x] + Sum(T \ {x})}
<1>1. SUFFICES ASSUME B # {} PROVE FALSE
  OBVIOUS
<1>2. PICK T \in B : \A U \in SUBSET T : U # T => U \notin B
  <2>1. B \in SUBSET SUBSET S
    OBVIOUS
  <2> HIDE DEF B
  <2> QED BY <1>1, <2>1, SmallestMember
<1>3. PICK x \in T : Sum(T) # f[x] + Sum(T \ {x})
  BY <1>2
<1> DEFINE c == CHOOSE y \in T : TRUE
<1>4. c \in T /\ c # x
  <2>1. c \in T
    BY <1>3
  <2>2. Sum(T) = f[c] + Sum(T \ {c})
    BY <2>1, SumStep, FS_Subset
  <2> QED BY <1>3, <2>1, <2>2
<1>5. T \in SUBSET S /\ IsFiniteSet(T) /\ IsFiniteSet(T \ {x}) /\ IsFiniteSet(T \ {c})
  BY FS_Subset
<1>6. Sum(T) = f[c] + Sum(T \ {c})
  BY <1>4, <1>5, SumStep
<1>7. Sum(T \ {c}) = f[x] + Sum((T \ {c}) \ {x})
  BY <1>2, <1>3, <1>4
<1>8. Sum(T \ {x}) = f[c] + Sum((T \ {x}) \ {c})
  BY <1>2, <1>3, <1>4
<1>9. (T \ {c}) \ {x} = (T \ {x}) \ {c}
  OBVIOUS
<1>10. f[x] \in Nat /\ f[c] \in Nat /\ Sum((T \ {x}) \ {c}) \in Nat
  BY <1>4, <1>5, SumIsNat, FS_Subset
<1> HIDE DEF Sum
<1> QED BY <1>3, <1>6, <1>7, <1>8, <1>9, <1>10

\* Functions that agree on a set have the same sum over it.
LEMMA SumOfSame ==
  ASSUME NEW f, NEW g, NEW S, IsFiniteSet(S), \A x \in S : f[x] = g[x]
  PROVE  SumFunctionOnSet(f, S) = SumFunctionOnSet(g, S)
<1> DEFINE B == {T \in SUBSET S : SumFunctionOnSet(f, T) # SumFunctionOnSet(g, T)}
<1>1. SUFFICES ASSUME B # {} PROVE FALSE
  OBVIOUS
<1>2. PICK T \in B : \A U \in SUBSET T : U # T => U \notin B
  <2>1. B \in SUBSET SUBSET S
    OBVIOUS
  <2> HIDE DEF B
  <2> QED BY <1>1, <2>1, SmallestMember
<1> DEFINE c == CHOOSE x \in T : TRUE
<1>3. /\ SumFunctionOnSet(f, T) = IF T = {} THEN 0 ELSE f[c] + SumFunctionOnSet(f, T \ {c})
      /\ SumFunctionOnSet(g, T) = IF T = {} THEN 0 ELSE g[c] + SumFunctionOnSet(g, T \ {c})
  BY SumStep, FS_Subset
<1>4. CASE T # {}
  <2>1. c \in T /\ T \ {c} \notin B
    BY <1>2, <1>4
  <2> QED BY <1>2, <1>3, <1>4, <2>1
<1> QED BY <1>2, <1>3, <1>4

\* A sum of nothing but zeros is zero.
LEMMA SumOfZeros ==
  ASSUME NEW f, NEW S, IsFiniteSet(S), \A x \in S : f[x] = 0
  PROVE  SumFunctionOnSet(f, S) = 0
<1> DEFINE B == {T \in SUBSET S : SumFunctionOnSet(f, T) # 0}
<1>1. SUFFICES ASSUME B # {} PROVE FALSE
  OBVIOUS
<1>2. PICK T \in B : \A U \in SUBSET T : U # T => U \notin B
  <2>1. B \in SUBSET SUBSET S
    OBVIOUS
  <2> HIDE DEF B
  <2> QED BY <1>1, <2>1, SmallestMember
<1> DEFINE c == CHOOSE x \in T : TRUE
<1>3. SumFunctionOnSet(f, T) = IF T = {} THEN 0 ELSE f[c] + SumFunctionOnSet(f, T \ {c})
  BY SumStep, FS_Subset
<1>4. CASE T # {}
  <2>1. c \in T /\ T \ {c} \notin B
    BY <1>2, <1>4
  <2> QED BY <1>2, <1>3, <1>4, <2>1
<1> QED BY <1>2, <1>3, <1>4

\* A change of one entry changes a sum by as much.
LEMMA SumMoves ==
  ASSUME NEW f, NEW g, NEW S, IsFiniteSet(S), NEW e,
         \A x \in S : f[x] \in Nat /\ g[x] \in Nat,
         \A x \in S \ {e} : f[x] = g[x]
  PROVE  IF e \in S
         THEN /\ SumFunctionOnSet(f, S) - f[e] \in Nat
              /\ SumFunctionOnSet(g, S) = (SumFunctionOnSet(f, S) - f[e]) + g[e]
         ELSE SumFunctionOnSet(g, S) = SumFunctionOnSet(f, S)
<1>0. IsFiniteSet(S \ {e})
  BY FS_Subset
<1>1. CASE e \in S
  <2>1. /\ SumFunctionOnSet(f, S) = f[e] + SumFunctionOnSet(f, S \ {e})
        /\ SumFunctionOnSet(g, S) = g[e] + SumFunctionOnSet(g, S \ {e})
    BY <1>1, SumTakesOut
  <2>2. SumFunctionOnSet(f, S \ {e}) = SumFunctionOnSet(g, S \ {e})
    BY <1>0, SumOfSame
  <2>3. SumFunctionOnSet(f, S \ {e}) \in Nat
    BY <1>0, SumIsNat
  <2> QED BY <1>1, <2>1, <2>2, <2>3
<1>2. CASE e \notin S
  BY <1>2, SumOfSame
<1> QED BY <1>1, <1>2

\* Smaller entries have no greater sum.
LEMMA SumIsMonotone ==
  ASSUME NEW f, NEW g, NEW S, IsFiniteSet(S),
         \A x \in S : f[x] \in Nat /\ g[x] \in Nat /\ f[x] <= g[x]
  PROVE  SumFunctionOnSet(f, S) <= SumFunctionOnSet(g, S)
<1> DEFINE B == {T \in SUBSET S : ~(SumFunctionOnSet(f, T) <= SumFunctionOnSet(g, T))}
<1>1. SUFFICES ASSUME B # {} PROVE FALSE
  OBVIOUS
<1>2. PICK T \in B : \A U \in SUBSET T : U # T => U \notin B
  <2>1. B \in SUBSET SUBSET S
    OBVIOUS
  <2> HIDE DEF B
  <2> QED BY <1>1, <2>1, SmallestMember
<1> DEFINE c == CHOOSE x \in T : TRUE
<1>3. /\ SumFunctionOnSet(f, T) = IF T = {} THEN 0 ELSE f[c] + SumFunctionOnSet(f, T \ {c})
      /\ SumFunctionOnSet(g, T) = IF T = {} THEN 0 ELSE g[c] + SumFunctionOnSet(g, T \ {c})
  BY SumStep, FS_Subset
<1>4. CASE T # {}
  <2>1. c \in T /\ T \ {c} \notin B
    BY <1>2, <1>4
  <2>2. SumFunctionOnSet(f, T \ {c}) \in Nat /\ SumFunctionOnSet(g, T \ {c}) \in Nat
    BY SumIsNat, FS_Subset
  <2> QED BY <1>2, <1>3, <1>4, <2>1, <2>2
<1> QED BY <1>2, <1>3, <1>4

----------------------------------------------------------------------------
(* Types *)

\* A receipt charges what it reports, and the maxima if it reports nothing
\* (_settle_model_budget).
LEMMA WhatIsCharged ==
  ASSUME NEW c \in Call, NEW u
  PROVE  Charged(c, Reported(u)) = u /\ Charged(c, Unknown) = MaxOf[c]
BY DEF Charged, Reported, Unknown

\* What a command may charge is an amount.
LEMMA ChargedIsAmount ==
  ASSUME NEW c \in Call, NEW usage \in {Unknown} \cup {Reported(u) : u \in Amount}
  PROVE  Charged(c, usage) \in Amount
<1>1. CASE usage = Unknown
  BY <1>1, WhatIsCharged, BudgetAssumption
<1>2. CASE usage # Unknown
  <2>1. PICK u \in Amount : usage = Reported(u)
    BY <1>2
  <2> QED BY <2>1, WhatIsCharged
<1> QED BY <1>1, <1>2

\* Nothing is an amount.
LEMMA ZeroIsAmount == Zero \in Amount
BY DEF Zero, Amount

\* The commands keep the types.
LEMMA CreateSnapshotKeepsTypes ==
  ASSUME BudgetTypeOK, NEW s \in Snapshot, CreateSnapshot(s)
  PROVE  BudgetTypeOK'
BY DEF BudgetTypeOK, CreateSnapshot

\* A reservation keeps the types.
LEMMA ReserveKeepsTypes ==
  ASSUME BudgetTypeOK, NEW c \in Call, Reserve(c)
  PROVE  BudgetTypeOK'
<1>1. reservations' \in [Call -> Reservation]
  BY DEF BudgetTypeOK, Reserve, Reservation
<1> QED BY <1>1 DEF BudgetTypeOK, Reserve

\* A settlement keeps the types, whatever usage is reported.
LEMMA SettleKeepsTypes ==
  ASSUME BudgetTypeOK, NEW c \in Call,
         NEW usage \in {Unknown} \cup {Reported(u) : u \in Amount}, Settle(c, usage)
  PROVE  BudgetTypeOK'
<1>0. Charged(c, usage) \in Amount
  BY ChargedIsAmount
<1>1. reservations' \in [Call -> Reservation]
  BY <1>0 DEF BudgetTypeOK, Settle, Reservation
<1>2. ledger' \subseteq LedgerRow
  <2> DEFINE over == \E d \in Dim : Charged(c, usage)[d] > MaxOf[c][d]
  <2>1. /\ ledger' = ledger \cup {[call |-> c, charged |-> Charged(c, usage), overBudget |-> over]}
        /\ over \in BOOLEAN
    BY DEF Settle
  <2> HIDE DEF over
  <2> QED BY <1>0, <2>1 DEF BudgetTypeOK, LedgerRow
<1> QED BY <1>1, <1>2 DEF BudgetTypeOK, Settle

\* Every step of the budget is one of its commands, with a well-typed receipt.
LEMMA BudgetSteps ==
  ASSUME BudgetNext
  PROVE  \/ \E s \in Snapshot : CreateSnapshot(s)
         \/ \E c \in Call : Reserve(c)
         \/ \E c \in Call, usage \in {Unknown} \cup {Reported(u) : u \in Amount} :
              Settle(c, usage)
BY BudgetAssumption DEF BudgetNext

\* The rows of the budget are well formed in every reachable state.
THEOREM BudgetTypeCorrect == BudgetSpec => []BudgetTypeOK
<1>1. BudgetInit => BudgetTypeOK
  BY ZeroIsAmount DEF BudgetInit, BudgetTypeOK, Reservation
<1>2. BudgetTypeOK /\ [BudgetNext]_budget => BudgetTypeOK'
  <2> SUFFICES ASSUME BudgetTypeOK, [BudgetNext]_budget PROVE BudgetTypeOK'
    OBVIOUS
  <2>1. CASE BudgetNext
    BY <2>1, BudgetSteps, CreateSnapshotKeepsTypes, ReserveKeepsTypes, SettleKeepsTypes
  <2>2. CASE UNCHANGED budget
    BY <2>2 DEF BudgetTypeOK, budget
  <2> QED BY <2>1, <2>2
<1> QED BY <1>1, <1>2, PTL DEF BudgetSpec

----------------------------------------------------------------------------

\* A settlement writes the one ledger row of its reservation.
LEMMA SettleKeepsBalance ==
  ASSUME BudgetTypeOK, LedgerBalances, NEW c \in Call, NEW usage, Settle(c, usage)
  PROVE  LedgerBalances'
<1> DEFINE new == [call |-> c, charged |-> Charged(c, usage),
                   overBudget |-> \E d \in Dim : Charged(c, usage)[d] > MaxOf[c][d]]
<1>1. /\ ledger' = ledger \cup {new}
      /\ new.call = c /\ new.charged = Charged(c, usage)
  BY DEF Settle
<1>2. /\ Status(c)' \in Terminal
      /\ reservations'[c].charged = Charged(c, usage)
      /\ \A other \in Call \ {c} : reservations'[other] = reservations[other]
      /\ Status(c) \notin Terminal
  BY DEF Settle, BudgetTypeOK, Status, Terminal
<1> HIDE DEF new
<1>3. \A row \in ledger : row.call \in Call \ {c}
  BY <1>2 DEF LedgerBalances, BudgetTypeOK, LedgerRow
<1>4. ASSUME NEW row \in ledger'
      PROVE  /\ Status(row.call)' \in Terminal
             /\ row.charged = reservations'[row.call].charged
             /\ \A other \in ledger' : other.call = row.call => other = row
  <2>1. CASE row = new
    BY <2>1, <1>1, <1>2, <1>3
  <2>2. CASE row \in ledger
    BY <2>2, <1>1, <1>2, <1>3 DEF LedgerBalances, Status
  <2> QED BY <2>1, <2>2, <1>1
<1>5. ASSUME NEW other \in Call, Status(other)' \in Terminal
      PROVE  \E row \in ledger' : row.call = other
  BY <1>1, <1>2, <1>5 DEF LedgerBalances, Status
<1> QED BY <1>4, <1>5 DEF LedgerBalances

\* A reservation is not settled and needs no ledger row.
LEMMA ReserveKeepsBalance ==
  ASSUME BudgetTypeOK, LedgerBalances, NEW c \in Call, Reserve(c)
  PROVE  LedgerBalances'
<1>1. /\ Status(c) \notin Terminal /\ Status(c)' \notin Terminal
      /\ \A other \in Call \ {c} : reservations'[other] = reservations[other]
      /\ ledger' = ledger
  BY DEF Reserve, BudgetTypeOK, Status, Terminal, Reservation
<1>2. \A row \in ledger : row.call \in Call \ {c}
  BY <1>1 DEF LedgerBalances, BudgetTypeOK, LedgerRow
<1> QED BY <1>1, <1>2 DEF LedgerBalances, Status

\* Ledger and settled reservations say the same, for every set of calls: the
\* settlement writes both in one transaction.
THEOREM LedgerAlwaysBalances == BudgetSpec => []LedgerBalances
<1>1. BudgetInit => LedgerBalances
  BY DEF BudgetInit, LedgerBalances, Status, Terminal
<1>2. BudgetTypeOK /\ LedgerBalances /\ [BudgetNext]_budget => LedgerBalances'
  <2> SUFFICES ASSUME BudgetTypeOK, LedgerBalances, [BudgetNext]_budget
               PROVE  LedgerBalances'
    OBVIOUS
  <2>1. CASE \E s \in Snapshot : CreateSnapshot(s)
    BY <2>1 DEF CreateSnapshot, LedgerBalances, Status
  <2>2. CASE \E c \in Call : Reserve(c)
    BY <2>2, ReserveKeepsBalance
  <2>3. CASE \E c \in Call, usage \in {Unknown} \cup {Reported(u) : u \in Amount} :
               Settle(c, usage)
    BY <2>3, SettleKeepsBalance
  <2>4. CASE UNCHANGED budget
    BY <2>4 DEF LedgerBalances, Status, budget
  <2> QED BY <2>1, <2>2, <2>3, <2>4, BudgetSteps
<1> QED BY <1>1, <1>2, BudgetTypeCorrect, PTL DEF BudgetSpec

----------------------------------------------------------------------------

\* No step takes back a refusal or a settlement or drops a ledger row, and
\* only a flagged overrun makes a reserved call hold more.
THEOREM BudgetStaysFinal == BudgetSpec => BudgetIsFinal
<1> DEFINE Final == /\ \A c \in Call : Status(c) \in Terminal \cup {"refused"}
                         => reservations'[c] = reservations[c]
                    /\ ledger \subseteq ledger'
                    /\ \A c \in Call, d \in Dim :
                         Status(c) = "reserved" /\ Held(c)'[d] > Held(c)[d]
                           => \E row \in ledger' : row.call = c /\ row.overBudget
<1>1. BudgetTypeOK /\ [BudgetNext]_budget => [Final]_budget
  <2> SUFFICES ASSUME BudgetTypeOK, BudgetNext PROVE Final
    BY DEF Final
  <2>1. ASSUME NEW s \in Snapshot, CreateSnapshot(s) PROVE Final
    BY <2>1, BudgetAssumption DEF CreateSnapshot, Held, Status, Amount, Terminal
  <2>2. ASSUME NEW c \in Call, Reserve(c) PROVE Final
    <3>1. /\ Status(c) = "absent" /\ ledger' = ledger
          /\ \A other \in Call \ {c} : reservations'[other] = reservations[other]
      BY <2>2 DEF Reserve, BudgetTypeOK, Status
    <3>2. \A other \in Call \ {c} : Held(other)' = Held(other)
      BY <3>1 DEF Held, Status
    <3>3. \A other \in Call : Status(other) = "reserved" => Held(other) = MaxOf[other]
      BY DEF Held, Terminal
    <3> QED BY <3>1, <3>2, <3>3, BudgetAssumption DEF Terminal, Amount
  <2>3. ASSUME NEW c \in Call, NEW usage \in {Unknown} \cup {Reported(u) : u \in Amount},
               Settle(c, usage)
        PROVE  Final
    <3>1. /\ Status(c) = "reserved" /\ ledger \subseteq ledger'
          /\ \A other \in Call \ {c} : reservations'[other] = reservations[other]
      BY <2>3 DEF Settle, BudgetTypeOK, Status
    <3>2. \A other \in Call \ {c} : Held(other)' = Held(other)
      BY <3>1 DEF Held, Status
    <3>3. Held(c) = MaxOf[c] /\ Held(c)' = Charged(c, usage)
      BY <2>3, <3>1 DEF Held, Settle, BudgetTypeOK, Status, Terminal
    <3>4. ASSUME NEW d \in Dim, Charged(c, usage)[d] > MaxOf[c][d]
          PROVE  \E row \in ledger' : row.call = c /\ row.overBudget
      <4> DEFINE over == \E e \in Dim : Charged(c, usage)[e] > MaxOf[c][e]
                 new == [call |-> c, charged |-> Charged(c, usage), overBudget |-> over]
      <4>1. new \in ledger'
        BY <2>3 DEF Settle
      <4>2. new.call = c /\ new.overBudget
        BY <3>4
      <4> QED BY <4>1, <4>2
    <3>5. \A other \in Call \ {c}, d \in Dim :
            Status(other) = "reserved" => ~(Held(other)'[d] > Held(other)[d])
      <4> SUFFICES ASSUME NEW other \in Call \ {c}, NEW d \in Dim, Status(other) = "reserved"
                   PROVE  ~(Held(other)'[d] > Held(other)[d])
        OBVIOUS
      <4>1. Held(other)' = MaxOf[other] /\ Held(other) = MaxOf[other]
        BY <3>2 DEF Held, Terminal
      <4> QED BY <4>1, BudgetAssumption DEF Amount
    <3> QED BY <3>1, <3>3, <3>4, <3>5 DEF Terminal
  <2> QED BY <2>1, <2>2, <2>3, BudgetSteps
<1> QED BY <1>1, BudgetTypeCorrect, PTL DEF BudgetSpec, BudgetIsFinal

----------------------------------------------------------------------------
(* The caps *)

\* What a call holds is an amount.
LEMMA HeldIsAmount == BudgetTypeOK => \A x \in Call : Held(x) \in Amount
BY ZeroIsAmount, BudgetAssumption DEF BudgetTypeOK, Reservation, Held, Status, Terminal

\* So it is after a step.
LEMMA HeldIsAmountNext == (BudgetTypeOK => \A x \in Call : Held(x) \in Amount)'
BY HeldIsAmount, PTL

\* By how much a row exceeds the maxima of its call is a natural.
LEMMA ExcessIsNat ==
  ASSUME NEW row \in LedgerRow, NEW d \in Dim
  PROVE  Excess(row, d) \in Nat
<1>1. row.charged[d] \in Nat /\ MaxOf[row.call][d] \in Nat
  BY BudgetAssumption DEF LedgerRow, Amount
<1> QED BY <1>1 DEF Excess

\* The totals of the calls are naturals.
LEMMA TotalsAreNat ==
  BudgetTypeOK /\ IsFiniteSet(ledger) =>
    \A calls \in SUBSET Call, d \in Dim :
      /\ HeldBy(calls, d) \in Nat
      /\ Overrun(calls, d) \in Nat
      /\ Slots(calls) \in Nat
<1> SUFFICES ASSUME BudgetTypeOK, IsFiniteSet(ledger), NEW calls \in SUBSET Call, NEW d \in Dim
             PROVE  /\ HeldBy(calls, d) \in Nat
                    /\ Overrun(calls, d) \in Nat
                    /\ Slots(calls) \in Nat
  OBVIOUS
<1>0. IsFiniteSet(calls)
  BY BudgetAssumption, FS_Subset
<1>1. HeldBy(calls, d) \in Nat
  <2> DEFINE f == [c \in Call |-> Held(c)[d]]
  <2>1. \A c \in calls : f[c] \in Nat
    BY HeldIsAmount DEF Amount
  <2> HIDE DEF f
  <2>2. SumFunctionOnSet(f, calls) \in Nat
    BY <1>0, <2>1, SumIsNat
  <2> QED BY <2>2 DEF HeldBy, f
<1>2. Overrun(calls, d) \in Nat
  <2> DEFINE f == [row \in ledger |-> Excess(row, d)]
  <2>1. IsFiniteSet(Flagged(calls)) /\ Flagged(calls) \subseteq ledger
    BY FS_Subset DEF Flagged
  <2>2. \A row \in Flagged(calls) : f[row] \in Nat
    BY <2>1, ExcessIsNat DEF BudgetTypeOK
  <2> HIDE DEF f
  <2>3. SumFunctionOnSet(f, Flagged(calls)) \in Nat
    BY <2>1, <2>2, SumIsNat
  <2> QED BY <2>3 DEF Overrun, f
<1>3. Slots(calls) \in Nat
  BY <1>0, FS_Subset, FS_CardinalityType DEF Slots
<1> QED BY <1>1, <1>2, <1>3

\* The same of the totals after a step.
LEMMA TotalsAreNatNext ==
  (BudgetTypeOK /\ IsFiniteSet(ledger) =>
     \A calls \in SUBSET Call, d \in Dim :
       /\ HeldBy(calls, d) \in Nat
       /\ Overrun(calls, d) \in Nat
       /\ Slots(calls) \in Nat)'
BY TotalsAreNat, PTL

\* A step on one call moves the totals of a set of calls by what that call
\* holds more or less.
LEMMA OneCallMoves ==
  ASSUME BudgetTypeOK, BudgetTypeOK', NEW c \in Call,
         \A other \in Call \ {c} : Held(other)' = Held(other),
         NEW calls \in SUBSET Call, NEW d \in Dim
  PROVE  IF c \in calls
         THEN /\ HeldBy(calls, d) - Held(c)[d] \in Nat
              /\ HeldBy(calls, d)' = (HeldBy(calls, d) - Held(c)[d]) + Held(c)'[d]
         ELSE HeldBy(calls, d)' = HeldBy(calls, d)
<1> DEFINE f == [x \in Call |-> Held(x)[d]]
           g == [x \in Call |-> Held(x)'[d]]
<1>0. IsFiniteSet(calls)
  BY BudgetAssumption, FS_Subset
<1>1. HeldBy(calls, d) = SumFunctionOnSet(f, calls) /\ HeldBy(calls, d)' = SumFunctionOnSet(g, calls)
  BY DEF HeldBy
<1>2. \A x \in Call : Held(x) \in Amount /\ Held(x)' \in Amount
  BY HeldIsAmount, HeldIsAmountNext
<1>3. /\ \A x \in Call : f[x] \in Nat /\ g[x] \in Nat
      /\ \A x \in Call \ {c} : f[x] = g[x]
      /\ f[c] = Held(c)[d] /\ g[c] = Held(c)'[d]
  BY <1>2 DEF Amount
<1> HIDE DEF f, g
<1> QED BY <1>0, <1>1, <1>3, SumMoves

\* With the same ledger the overruns are the same.
LEMMA OverrunStays ==
  ASSUME UNCHANGED ledger
  PROVE  \A calls, d : Overrun(calls, d)' = Overrun(calls, d)
BY DEF Overrun, Flagged, Excess

\* If every call holds what it held, so does every set of calls.
LEMMA HeldByStays ==
  ASSUME UNCHANGED reservations
  PROVE  \A calls, d : HeldBy(calls, d)' = HeldBy(calls, d) /\ Slots(calls)' = Slots(calls)
BY DEF HeldBy, Slots, Held, Status

\* One more call in a set takes one more slot.
LEMMA SlotTaken ==
  ASSUME NEW c \in Call, NEW calls \in SUBSET Call, Status(c) = "absent",
         Status(c)' = "reserved", \A other \in Call \ {c} : Status(other)' = Status(other)
  PROVE  Slots(calls)' = IF c \in calls THEN Slots(calls) + 1 ELSE Slots(calls)
<1> DEFINE taken == {x \in calls : Status(x) \notin {"absent", "refused"}}
           taken1 == {x \in calls : Status(x)' \notin {"absent", "refused"}}
<1>1. IsFiniteSet(taken) /\ c \notin taken
  BY BudgetAssumption, FS_Subset
<1>2. taken1 = IF c \in calls THEN taken \cup {c} ELSE taken
  OBVIOUS
<1>3. Slots(calls) = Cardinality(taken) /\ Slots(calls)' = Cardinality(taken1)
  BY DEF Slots
<1> HIDE DEF taken, taken1
<1> QED BY <1>1, <1>2, <1>3, FS_AddElement

\* A refused call takes none.
LEMMA NoSlotTaken ==
  ASSUME \A c \in Call : Status(c) \in {"absent", "refused"} <=> Status(c)' \in {"absent", "refused"},
         NEW calls \in SUBSET Call
  PROVE  Slots(calls)' = Slots(calls)
<1>1. {x \in calls : Status(x) \notin {"absent", "refused"}}
        = {x \in calls : Status(x)' \notin {"absent", "refused"}}
  OBVIOUS
<1> QED BY <1>1 DEF Slots

\* What a price makes of amounts that differ by no more than their overruns.
LEMMA RmbKeepsBound ==
  ASSUME NEW h1 \in Nat, NEW h2 \in Nat, NEW o1 \in Nat, NEW o2 \in Nat,
         NEW k1 \in Nat, NEW k2 \in Nat, NEW q1 \in Nat, NEW q2 \in Nat,
         k1 + o1 <= h1 + q1, k2 + o2 <= h2 + q2,
         Rmb(h1, h2) <= ProgramCaps.rmb + Rmb(o1, o2)
  PROVE  Rmb(k1, k2) <= ProgramCaps.rmb + Rmb(q1, q2)
<1> DEFINE p1 == ProgramCaps.inputPrice
           p2 == ProgramCaps.outputPrice
           r == ProgramCaps.rmb
<1>1. p1 \in Nat /\ p2 \in Nat /\ r \in Nat
  BY BudgetAssumption DEF ProgramCapsType
<1>2. h1 * p1 + h2 * p2 <= r + (o1 * p1 + o2 * p2)
  BY DEF Rmb
<1> SUFFICES k1 * p1 + k2 * p2 <= r + (q1 * p1 + q2 * p2)
  BY DEF Rmb
<1> HIDE DEF p1, p2, r
<1>3. ASSUME NEW k \in Nat, NEW o \in Nat, NEW h \in Nat, NEW q \in Nat, NEW p \in Nat,
             k + o <= h + q
      PROVE  k * p + o * p <= h * p + q * p
  <2>1. (k + o) * p <= (h + q) * p
    <3>1. PICK x \in Nat : h + q = (k + o) + x
      <4>1. (h + q) - (k + o) \in Nat
        BY <1>3
      <4> QED BY <4>1
    <3>2. (h + q) * p = (k + o) * p + x * p
      BY <3>1
    <3>3. x * p \in Nat /\ (k + o) * p \in Nat
      OBVIOUS
    <3> QED BY <3>2, <3>3
  <2>2. (k + o) * p = k * p + o * p /\ (h + q) * p = h * p + q * p
    OBVIOUS
  <2> QED BY <2>1, <2>2
<1>4. k1 * p1 + o1 * p1 <= h1 * p1 + q1 * p1
  BY <1>1, <1>3
<1>5. k2 * p2 + o2 * p2 <= h2 * p2 + q2 * p2
  BY <1>1, <1>3
<1>6. /\ h1 * p1 \in Nat /\ h2 * p2 \in Nat /\ o1 * p1 \in Nat /\ o2 * p2 \in Nat
      /\ k1 * p1 \in Nat /\ k2 * p2 \in Nat /\ q1 * p1 \in Nat /\ q2 * p2 \in Nat
  BY <1>1
<1> QED BY <1>1, <1>2, <1>4, <1>5, <1>6

\* The caps hold beside what they are measured with: a ledger that is finite and
\* has a row for every settled call.
BudgetInv ==
  /\ BudgetTypeOK
  /\ LedgerBalances
  /\ IsFiniteSet(ledger)
  /\ CapsHold

\* A step that takes no slot, and moves no total by more than it flags, keeps
\* the caps.
LEMMA FlaggedMovesKeepCaps ==
  ASSUME BudgetTypeOK, IsFiniteSet(ledger), CapsHold,
         BudgetTypeOK', IsFiniteSet(ledger)',
         \A calls \in SUBSET Call : Slots(calls)' = Slots(calls),
         \A calls \in SUBSET Call, d \in Dim :
           HeldBy(calls, d)' + Overrun(calls, d) <= HeldBy(calls, d) + Overrun(calls, d)'
  PROVE  CapsHold'
<1>1. \A calls \in SUBSET Call, d \in Dim :
        /\ HeldBy(calls, d) \in Nat /\ Overrun(calls, d) \in Nat
        /\ HeldBy(calls, d)' \in Nat /\ Overrun(calls, d)' \in Nat
  BY TotalsAreNat, TotalsAreNatNext
<1>2. Call \in SUBSET Call /\ \A s \in Snapshot : InSnapshot(s) \in SUBSET Call
  BY DEF InSnapshot
<1>3. \A s \in Snapshot : InSnapshot(s)' = InSnapshot(s)
  BY DEF InSnapshot
<1>4. \A s \in Snapshot, d \in Dim : CapsOf[s].total[d] \in Nat
  BY BudgetAssumption DEF Caps, Amount
<1>5. /\ ProgramCaps.input \in Nat /\ ProgramCaps.output \in Nat
      /\ "input" \in Dim /\ "output" \in Dim
  BY BudgetAssumption DEF ProgramCapsType, Dim
<1>6. /\ HeldBy(Call, "input")' <= ProgramCaps.input + Overrun(Call, "input")'
      /\ HeldBy(Call, "output")' <= ProgramCaps.output + Overrun(Call, "output")'
  <2>1. /\ HeldBy(Call, "input") <= ProgramCaps.input + Overrun(Call, "input")
        /\ HeldBy(Call, "output") <= ProgramCaps.output + Overrun(Call, "output")
    BY DEF CapsHold
  <2>2. \A d \in Dim : HeldBy(Call, d)' + Overrun(Call, d) <= HeldBy(Call, d) + Overrun(Call, d)'
    BY <1>2
  <2> QED BY <1>1, <1>2, <1>5, <2>1, <2>2
<1>7. Rmb(HeldBy(Call, "input")', HeldBy(Call, "output")')
        <= ProgramCaps.rmb + Rmb(Overrun(Call, "input")', Overrun(Call, "output")')
  <2>1. Rmb(HeldBy(Call, "input"), HeldBy(Call, "output"))
          <= ProgramCaps.rmb + Rmb(Overrun(Call, "input"), Overrun(Call, "output"))
    BY DEF CapsHold
  <2>2. \A d \in Dim : HeldBy(Call, d)' + Overrun(Call, d) <= HeldBy(Call, d) + Overrun(Call, d)'
    BY <1>2
  <2> QED BY <1>1, <1>2, <1>5, <2>1, <2>2, RmbKeepsBound
<1>8. ASSUME NEW s \in Snapshot, NEW d \in Dim
      PROVE  HeldBy(InSnapshot(s), d)' <= CapsOf[s].total[d] + Overrun(InSnapshot(s), d)'
  <2>1. HeldBy(InSnapshot(s), d) <= CapsOf[s].total[d] + Overrun(InSnapshot(s), d)
    BY DEF CapsHold
  <2> DEFINE I == InSnapshot(s)
  <2>2. HeldBy(I, d)' + Overrun(I, d) <= HeldBy(I, d) + Overrun(I, d)'
    BY <1>2
  <2>3. /\ HeldBy(I, d) \in Nat /\ Overrun(I, d) \in Nat
        /\ HeldBy(I, d)' \in Nat /\ Overrun(I, d)' \in Nat
    BY <1>1, <1>2
  <2>4. CapsOf[s].total[d] \in Nat
    BY <1>4
  <2> QED BY <2>1, <2>2, <2>3, <2>4
<1>9. Slots(Call)' = Slots(Call) /\ \A s \in Snapshot : Slots(InSnapshot(s))' = Slots(InSnapshot(s))
  BY <1>2
<1> QED BY <1>3, <1>6, <1>7, <1>8, <1>9 DEF CapsHold, Rmb

\* A settlement replaces the maxima by what is charged and flags what exceeds
\* them.
LEMMA SettleKeepsCaps ==
  ASSUME BudgetInv, BudgetTypeOK', NEW c \in Call,
         NEW usage \in {Unknown} \cup {Reported(u) : u \in Amount}, Settle(c, usage)
  PROVE  CapsHold' /\ IsFiniteSet(ledger')
<1> USE DEF BudgetInv
<1> DEFINE charged == Charged(c, usage)
           over == \E d \in Dim : charged[d] > MaxOf[c][d]
           new == [call |-> c, charged |-> charged, overBudget |-> over]
<1>1. /\ ledger' = ledger \cup {new}
      /\ new.call = c /\ new.charged = charged /\ new.overBudget = over
      /\ charged \in Amount /\ MaxOf[c] \in Amount
  BY ChargedIsAmount, BudgetAssumption DEF Settle
<1>2. IsFiniteSet(ledger')
  BY <1>1, FS_AddElement
<1>3. /\ Status(c) = "reserved" /\ Status(c)' \in Terminal
      /\ reservations'[c].charged = charged
      /\ \A other \in Call \ {c} : reservations'[other] = reservations[other]
  BY DEF Settle, BudgetTypeOK, Status, Terminal
<1>4. Held(c) = MaxOf[c] /\ Held(c)' = charged
  BY <1>3 DEF Held, Status, Terminal
<1>5. \A other \in Call \ {c} : Held(other)' = Held(other)
  BY <1>3 DEF Held, Status
<1>6. new \notin ledger
  BY <1>1, <1>3 DEF LedgerBalances, Terminal
<1> HIDE DEF new, over, charged
<1>7. \A calls \in SUBSET Call : Slots(calls)' = Slots(calls)
  BY <1>3, NoSlotTaken DEF Status, Terminal
<1>8. ASSUME NEW calls \in SUBSET Call, NEW d \in Dim
      PROVE  Overrun(calls, d)' = Overrun(calls, d)
               + IF c \in calls /\ over THEN Excess(new, d) ELSE 0
  <2> DEFINE f == [row \in ledger |-> Excess(row, d)]
             g == [row \in ledger' |-> Excess(row, d)]
             rows == Flagged(calls)
  <2>1. IsFiniteSet(rows) /\ rows \subseteq ledger /\ new \notin rows
    BY <1>6, FS_Subset DEF Flagged
  <2>2. Flagged(calls)' = IF c \in calls /\ over THEN rows \cup {new} ELSE rows
    BY <1>1 DEF Flagged
  <2>3. Overrun(calls, d) = SumFunctionOnSet(f, rows)
    BY DEF Overrun
  <2>4. Overrun(calls, d)' = SumFunctionOnSet(g, Flagged(calls)')
    BY DEF Overrun, Excess
  <2>5. /\ \A row \in rows : f[row] = g[row] /\ f[row] \in Nat
        /\ g[new] = Excess(new, d) /\ Excess(new, d) \in Nat
    <3>1. new \in LedgerRow
      BY <1>1 DEF BudgetTypeOK
    <3> QED BY <1>1, <2>1, <3>1, ExcessIsNat DEF BudgetTypeOK
  <2> HIDE DEF f, g, rows
  <2>6. SumFunctionOnSet(f, rows) = SumFunctionOnSet(g, rows) /\ SumFunctionOnSet(g, rows) \in Nat
    BY <2>1, <2>5, SumOfSame, SumIsNat
  <2>7. CASE c \in calls /\ over
    <3>1. IsFiniteSet(rows \cup {new}) /\ (rows \cup {new}) \ {new} = rows
      BY <2>1, FS_AddElement
    <3>2. \A row \in rows \cup {new} : g[row] \in Nat
      BY <2>5
    <3>3. SumFunctionOnSet(g, rows \cup {new}) = g[new] + SumFunctionOnSet(g, rows)
      BY <3>1, <3>2, SumTakesOut
    <3> QED BY <2>2, <2>3, <2>4, <2>5, <2>6, <2>7, <3>3
  <2>8. CASE ~(c \in calls /\ over)
    BY <2>2, <2>3, <2>4, <2>6, <2>8
  <2> QED BY <2>7, <2>8
<1>9. ASSUME NEW calls \in SUBSET Call, NEW d \in Dim
      PROVE  HeldBy(calls, d)' + Overrun(calls, d) <= HeldBy(calls, d) + Overrun(calls, d)'
  <2>1. /\ HeldBy(calls, d) \in Nat /\ Overrun(calls, d) \in Nat
        /\ charged[d] \in Nat /\ MaxOf[c][d] \in Nat
    BY <1>1, TotalsAreNat DEF Amount
  <2>2. Excess(new, d) = IF charged[d] > MaxOf[c][d] THEN charged[d] - MaxOf[c][d] ELSE 0
    BY <1>1 DEF Excess
  <2>3. ~over => charged[d] <= MaxOf[c][d]
    BY <2>1 DEF over
  <2>4. Overrun(calls, d)' = Overrun(calls, d) + IF c \in calls /\ over THEN Excess(new, d) ELSE 0
    BY <1>8
  <2>5. CASE c \in calls
    <3>1. /\ HeldBy(calls, d) - MaxOf[c][d] \in Nat
          /\ HeldBy(calls, d)' = (HeldBy(calls, d) - MaxOf[c][d]) + charged[d]
      BY <1>4, <1>5, <2>5, OneCallMoves
    <3> QED BY <2>1, <2>2, <2>3, <2>4, <2>5, <3>1
  <2>6. CASE c \notin calls
    <3>1. HeldBy(calls, d)' = HeldBy(calls, d)
      BY <1>5, <2>6, OneCallMoves
    <3> QED BY <2>1, <2>4, <2>6, <3>1
  <2> QED BY <2>5, <2>6
<1> QED BY <1>2, <1>7, <1>9, FlaggedMovesKeepCaps

\* A reservation is granted only where its maxima fit beside all that is held:
\* in the Program and in its snapshot.
LEMMA GrantFits ==
  ASSUME BudgetTypeOK, IsFiniteSet(ledger), NEW c \in Call, Reserve(c),
         FitsSnapshot(c), FitsProgram(c)
  PROVE  /\ Slots(Call)' <= ProgramCaps.slots
         /\ HeldBy(Call, "input")' <= ProgramCaps.input
         /\ HeldBy(Call, "output")' <= ProgramCaps.output
         /\ Rmb(HeldBy(Call, "input"), HeldBy(Call, "output"))' <= ProgramCaps.rmb
         /\ Slots(InSnapshot(SnapshotOf[c]))' <= CapsOf[SnapshotOf[c]].calls
         /\ \A d \in Dim : HeldBy(InSnapshot(SnapshotOf[c]), d)' <= CapsOf[SnapshotOf[c]].total[d]
         /\ \A calls \in SUBSET Call : c \notin calls =>
              /\ Slots(calls)' = Slots(calls)
              /\ \A d \in Dim : HeldBy(calls, d)' = HeldBy(calls, d)
<1>1. /\ Status(c) = "absent" /\ Status(c)' = "reserved"
      /\ \A other \in Call \ {c} : reservations'[other] = reservations[other]
      /\ BudgetTypeOK'
  BY ReserveKeepsTypes DEF Reserve, BudgetTypeOK, Status, Reservation
<1>2. \A other \in Call \ {c} : Held(other)' = Held(other) /\ Status(other)' = Status(other)
  BY <1>1 DEF Held, Status
<1>3. Held(c) = Zero /\ Zero \in Amount /\ MaxOf[c] \in Amount
  BY <1>1, ZeroIsAmount, BudgetAssumption DEF Held, Terminal
<1>4. Held(c)' = MaxOf[c]
  BY <1>1 DEF Held, Terminal
<1>5. ASSUME NEW calls \in SUBSET Call, NEW d \in Dim
      PROVE  /\ HeldBy(calls, d)' = IF c \in calls THEN HeldBy(calls, d) + MaxOf[c][d]
                                                   ELSE HeldBy(calls, d)
             /\ Slots(calls)' = IF c \in calls THEN Slots(calls) + 1 ELSE Slots(calls)
             /\ HeldBy(calls, d) \in Nat /\ MaxOf[c][d] \in Nat
  <2>1. HeldBy(calls, d) \in Nat /\ MaxOf[c][d] \in Nat
    BY <1>3, TotalsAreNat DEF Amount
  <2>2. Held(c)[d] = 0
    BY <1>3 DEF Zero
  <2>3. HeldBy(calls, d)' = IF c \in calls THEN HeldBy(calls, d) + MaxOf[c][d] ELSE HeldBy(calls, d)
    BY <1>1, <1>2, <1>4, <2>1, <2>2, OneCallMoves
  <2>4. Slots(calls)' = IF c \in calls THEN Slots(calls) + 1 ELSE Slots(calls)
    BY <1>1, <1>2, SlotTaken
  <2> QED BY <2>1, <2>3, <2>4
<1>6. "input" \in Dim /\ "output" \in Dim /\ Call \in SUBSET Call
  BY DEF Dim
<1>7. /\ Slots(Call)' <= ProgramCaps.slots
      /\ HeldBy(Call, "input")' <= ProgramCaps.input
      /\ HeldBy(Call, "output")' <= ProgramCaps.output
      /\ Rmb(HeldBy(Call, "input"), HeldBy(Call, "output"))' <= ProgramCaps.rmb
  BY <1>5, <1>6 DEF FitsProgram, Rmb
<1>8. /\ InSnapshot(SnapshotOf[c]) \in SUBSET Call /\ c \in InSnapshot(SnapshotOf[c])
      /\ InSnapshot(SnapshotOf[c])' = InSnapshot(SnapshotOf[c])
  BY DEF InSnapshot
<1>9. /\ Slots(InSnapshot(SnapshotOf[c]))' <= CapsOf[SnapshotOf[c]].calls
      /\ \A d \in Dim : HeldBy(InSnapshot(SnapshotOf[c]), d)' <= CapsOf[SnapshotOf[c]].total[d]
  BY <1>5, <1>6, <1>8 DEF FitsSnapshot
<1> QED BY <1>5, <1>6, <1>7, <1>9

\* A reservation is granted only where it fits, and a refused one holds
\* nothing.
LEMMA ReserveKeepsCaps ==
  ASSUME BudgetInv, BudgetTypeOK', NEW c \in Call, Reserve(c)
  PROVE  CapsHold'
<1> USE DEF BudgetInv
<1>1. /\ Status(c) = "absent"
      /\ \A other \in Call \ {c} : reservations'[other] = reservations[other]
      /\ Status(c)' = IF FitsSnapshot(c) /\ FitsProgram(c) THEN "reserved" ELSE "refused"
      /\ UNCHANGED ledger
  BY DEF Reserve, BudgetTypeOK, Status, Reservation
<1>2. \A other \in Call \ {c} : Held(other)' = Held(other) /\ Status(other)' = Status(other)
  BY <1>1 DEF Held, Status
<1>3. Held(c) = Zero /\ Zero \in Amount /\ MaxOf[c] \in Amount
  BY <1>1, ZeroIsAmount, BudgetAssumption DEF Held, Terminal
<1>4. \A calls, d : Overrun(calls, d)' = Overrun(calls, d)
  BY <1>1, OverrunStays
<1>5. CASE ~(FitsSnapshot(c) /\ FitsProgram(c))
  <2>1. Held(c)' = Zero
    BY <1>1, <1>5 DEF Held, Terminal, Status
  <2>2. \A calls \in SUBSET Call : Slots(calls)' = Slots(calls)
    BY <1>1, <1>2, <1>5, NoSlotTaken
  <2>3. ASSUME NEW calls \in SUBSET Call, NEW d \in Dim
        PROVE  HeldBy(calls, d)' + Overrun(calls, d) <= HeldBy(calls, d) + Overrun(calls, d)'
    <3>1. HeldBy(calls, d) \in Nat /\ Overrun(calls, d) \in Nat
      BY TotalsAreNat
    <3>2. HeldBy(calls, d)' = HeldBy(calls, d)
      <4>1. Held(c)[d] = 0 /\ Held(c)'[d] = 0
        BY <1>3, <2>1 DEF Zero
      <4> QED BY <1>2, <3>1, <4>1, OneCallMoves
    <3> QED BY <1>4, <3>1, <3>2
  <2> QED BY <1>1, <2>2, <2>3, FlaggedMovesKeepCaps
<1>6. CASE FitsSnapshot(c) /\ FitsProgram(c)
  <2>1. /\ "input" \in Dim /\ "output" \in Dim /\ Call \in SUBSET Call
        /\ ProgramCaps.input \in Nat /\ ProgramCaps.output \in Nat /\ ProgramCaps.rmb \in Nat
        /\ ProgramCaps.inputPrice \in Nat /\ ProgramCaps.outputPrice \in Nat
    BY BudgetAssumption DEF ProgramCapsType, Dim
  <2>2. \A calls \in SUBSET Call, d \in Dim : Overrun(calls, d) \in Nat
    BY TotalsAreNat
  <2>3. \A d \in Dim : HeldBy(Call, d)' \in Nat
    BY <1>1, <2>1, TotalsAreNatNext
  <2>4. /\ Slots(Call)' <= ProgramCaps.slots
        /\ HeldBy(Call, "input")' <= ProgramCaps.input
        /\ HeldBy(Call, "output")' <= ProgramCaps.output
        /\ Rmb(HeldBy(Call, "input"), HeldBy(Call, "output"))' <= ProgramCaps.rmb
    BY <1>6, GrantFits
  <2>5. Rmb(Overrun(Call, "input"), Overrun(Call, "output")) \in Nat
    BY <2>1, <2>2 DEF Rmb
  <2>6. Rmb(HeldBy(Call, "input"), HeldBy(Call, "output"))' \in Nat
    BY <2>1, <2>3 DEF Rmb
  <2>7. /\ HeldBy(Call, "input")' <= ProgramCaps.input + Overrun(Call, "input")
        /\ HeldBy(Call, "output")' <= ProgramCaps.output + Overrun(Call, "output")
        /\ Rmb(HeldBy(Call, "input"), HeldBy(Call, "output"))'
             <= ProgramCaps.rmb + Rmb(Overrun(Call, "input"), Overrun(Call, "output"))
    BY <2>1, <2>2, <2>3, <2>4, <2>5, <2>6
  <2>8. ASSUME NEW s \in Snapshot
        PROVE  /\ Slots(InSnapshot(s))' <= CapsOf[s].calls
               /\ \A d \in Dim : HeldBy(InSnapshot(s), d)'
                                   <= CapsOf[s].total[d] + Overrun(InSnapshot(s), d)
    <3>1. /\ InSnapshot(s) \in SUBSET Call /\ (c \in InSnapshot(s) <=> s = SnapshotOf[c])
          /\ InSnapshot(s)' = InSnapshot(s)
          /\ \A d \in Dim : CapsOf[s].total[d] \in Nat
      BY BudgetAssumption DEF InSnapshot, Caps, Amount
    <3>2. CASE s = SnapshotOf[c]
      <4>1. /\ Slots(InSnapshot(s))' <= CapsOf[s].calls
            /\ \A d \in Dim : HeldBy(InSnapshot(s), d)' <= CapsOf[s].total[d]
        BY <1>6, <3>2, GrantFits
      <4>2. ASSUME NEW d \in Dim
            PROVE  HeldBy(InSnapshot(s), d)' <= CapsOf[s].total[d] + Overrun(InSnapshot(s), d)
        <5>1. HeldBy(InSnapshot(s), d)' \in Nat
          BY <1>1, <3>1, TotalsAreNatNext
        <5> QED BY <2>2, <3>1, <4>1, <5>1
      <4> QED BY <4>1, <4>2
    <3>3. CASE s # SnapshotOf[c]
      <4>1. /\ Slots(InSnapshot(s)) <= CapsOf[s].calls
            /\ \A d \in Dim : HeldBy(InSnapshot(s), d)
                                <= CapsOf[s].total[d] + Overrun(InSnapshot(s), d)
        BY DEF CapsHold
      <4>2. /\ Slots(InSnapshot(s))' = Slots(InSnapshot(s))
            /\ \A d \in Dim : HeldBy(InSnapshot(s), d)' = HeldBy(InSnapshot(s), d)
        BY <1>6, <3>1, <3>3, GrantFits
      <4> QED BY <4>1, <4>2
    <3> QED BY <3>2, <3>3
  <2> QED BY <1>4, <2>4, <2>7, <2>8 DEF CapsHold, Rmb, InSnapshot
<1> QED BY <1>5, <1>6

\* A new snapshot changes nothing that is held.
LEMMA BudgetStayKeepsCaps ==
  ASSUME CapsHold, UNCHANGED <<reservations, ledger>>
  PROVE  CapsHold'
<1>1. \A calls, d : /\ HeldBy(calls, d)' = HeldBy(calls, d)
                    /\ Slots(calls)' = Slots(calls)
                    /\ Overrun(calls, d)' = Overrun(calls, d)
  BY HeldByStays, OverrunStays
<1> QED BY <1>1 DEF CapsHold, Rmb, InSnapshot

\* At first nothing is held.
LEMMA BudgetInitCaps ==
  ASSUME BudgetInit
  PROVE  CapsHold
<1>1. BudgetTypeOK /\ IsFiniteSet(ledger)
  BY ZeroIsAmount, FS_EmptySet DEF BudgetInit, BudgetTypeOK, Reservation
<1>2. ASSUME NEW calls \in SUBSET Call, NEW d \in Dim
      PROVE  HeldBy(calls, d) = 0 /\ Slots(calls) = 0 /\ Overrun(calls, d) \in Nat
  <2> DEFINE f == [c \in Call |-> Held(c)[d]]
             z == [c \in Call |-> 0]
  <2>1. \A c \in Call : f[c] = 0
    BY DEF BudgetInit, Held, Status, Terminal, Zero
  <2>2. HeldBy(calls, d) = 0
    <3>1. IsFiniteSet(calls)
      BY BudgetAssumption, FS_Subset
    <3> HIDE DEF f
    <3>2. SumFunctionOnSet(f, calls) = 0
      BY <2>1, <3>1, SumOfZeros
    <3> QED BY <3>2 DEF HeldBy, f
  <2>3. Slots(calls) = 0
    <3>1. {c \in calls : Status(c) \notin {"absent", "refused"}} = {}
      BY DEF BudgetInit, Status
    <3> QED BY <3>1, FS_EmptySet DEF Slots
  <2> QED BY <1>1, <2>2, <2>3, TotalsAreNat
<1>3. /\ Call \in SUBSET Call /\ \A s \in Snapshot : InSnapshot(s) \in SUBSET Call
      /\ "input" \in Dim /\ "output" \in Dim
      /\ ProgramCaps \in ProgramCapsType
      /\ \A s \in Snapshot : CapsOf[s].calls \in Nat /\ \A d \in Dim : CapsOf[s].total[d] \in Nat
  BY BudgetAssumption DEF InSnapshot, Dim, Caps, Amount
<1>4. /\ HeldBy(Call, "input") = 0 /\ HeldBy(Call, "output") = 0 /\ Slots(Call) = 0
      /\ Overrun(Call, "input") \in Nat /\ Overrun(Call, "output") \in Nat
  BY <1>2, <1>3
<1>5. Rmb(0, 0) <= ProgramCaps.rmb + Rmb(Overrun(Call, "input"), Overrun(Call, "output"))
  BY <1>3, <1>4 DEF Rmb, ProgramCapsType
<1>6. ASSUME NEW s \in Snapshot
      PROVE  /\ Slots(InSnapshot(s)) <= CapsOf[s].calls
             /\ \A d \in Dim : HeldBy(InSnapshot(s), d)
                                 <= CapsOf[s].total[d] + Overrun(InSnapshot(s), d)
  BY <1>2, <1>3
<1> QED BY <1>3, <1>4, <1>5, <1>6 DEF CapsHold, ProgramCapsType

\* A command of the budget, with any well-formed receipt.
BudgetStep ==
  \/ \E s \in Snapshot : CreateSnapshot(s)
  \/ \E c \in Call : Reserve(c)
  \/ \E c \in Call, usage \in {Unknown} \cup {Reported(u) : u \in Amount} : Settle(c, usage)

\* The invariant holds before any command.
LEMMA BudgetInvInit == BudgetInit => BudgetInv
<1> SUFFICES ASSUME BudgetInit PROVE BudgetInv
  OBVIOUS
<1>1. BudgetTypeOK /\ LedgerBalances /\ IsFiniteSet(ledger)
  BY ZeroIsAmount, FS_EmptySet
     DEF BudgetInit, BudgetTypeOK, Reservation, LedgerBalances, Status, Terminal
<1> QED BY <1>1, BudgetInitCaps DEF BudgetInv

\* Every command keeps the invariant.
LEMMA BudgetInvKept ==
  ASSUME BudgetInv, BudgetStep \/ UNCHANGED budget
  PROVE  BudgetInv'
<1> USE DEF BudgetInv
<1>1. ASSUME NEW s \in Snapshot, CreateSnapshot(s) PROVE BudgetInv'
  <2>1. BudgetTypeOK' /\ CapsHold'
    BY <1>1, BudgetStayKeepsCaps, CreateSnapshotKeepsTypes DEF CreateSnapshot
  <2> QED BY <1>1, <2>1 DEF CreateSnapshot, LedgerBalances, Status
<1>2. ASSUME NEW c \in Call, Reserve(c) PROVE BudgetInv'
  <2>1. BudgetTypeOK' /\ LedgerBalances'
    BY <1>2, ReserveKeepsTypes, ReserveKeepsBalance
  <2> QED BY <1>2, <2>1, ReserveKeepsCaps DEF Reserve
<1>3. ASSUME NEW c \in Call, NEW usage \in {Unknown} \cup {Reported(u) : u \in Amount},
             Settle(c, usage)
      PROVE  BudgetInv'
  <2>1. BudgetTypeOK' /\ LedgerBalances'
    BY <1>3, SettleKeepsTypes, SettleKeepsBalance
  <2> QED BY <1>3, <2>1, SettleKeepsCaps
<1>4. CASE UNCHANGED budget
  <2>1. BudgetTypeOK' /\ LedgerBalances'
    BY <1>4 DEF budget, BudgetTypeOK, LedgerBalances, Status
  <2> QED BY <1>4, <2>1, BudgetStayKeepsCaps DEF budget
<1> QED BY <1>1, <1>2, <1>3, <1>4 DEF BudgetStep

\* The caps of the Program and of every snapshot hold, up to what the ledger
\* flags as overrun, for any number of calls and snapshots, any caps, prices
\* and maxima, and any order of reservations and settlements: a reservation is
\* granted only where its maxima fit beside all that is held, and a settlement
\* raises nothing it does not flag.
THEOREM CapsAlwaysHold == BudgetSpec => []CapsHold
<1>1. BudgetInv /\ [BudgetNext]_budget => BudgetInv'
  BY BudgetSteps, BudgetInvKept DEF BudgetStep
<1>2. BudgetInv => CapsHold
  BY DEF BudgetInv
<1> QED BY <1>1, <1>2, BudgetInvInit, PTL DEF BudgetSpec

----------------------------------------------------------------------------
(* What is held within the maxima *)

Lower(a, b) == IF a <= b THEN a ELSE b

\* What a call holds, counted up to its maxima.
Within(c, d) == Lower(Held(c)[d], MaxOf[c][d])
WithinBy(calls, d) == SumFunctionOnSet([c \in Call |-> Within(c, d)], calls)

\* Counted so, the caps hold with no allowance: only a call that exceeds its own
\* maxima can break one.
WithinCaps ==
  /\ WithinBy(Call, "input") <= ProgramCaps.input
  /\ WithinBy(Call, "output") <= ProgramCaps.output
  /\ Rmb(WithinBy(Call, "input"), WithinBy(Call, "output")) <= ProgramCaps.rmb
  /\ \A s \in Snapshot, d \in Dim : WithinBy(InSnapshot(s), d) <= CapsOf[s].total[d]

\* It is a natural, and no more than the call holds.
LEMMA WithinIsNat ==
  BudgetTypeOK => \A c \in Call, d \in Dim : Within(c, d) \in Nat /\ Within(c, d) <= Held(c)[d]
<1> SUFFICES ASSUME BudgetTypeOK, NEW c \in Call, NEW d \in Dim
             PROVE  Within(c, d) \in Nat /\ Within(c, d) <= Held(c)[d]
  OBVIOUS
<1>1. Held(c)[d] \in Nat /\ MaxOf[c][d] \in Nat
  BY HeldIsAmount, BudgetAssumption DEF Amount
<1> QED BY <1>1 DEF Within, Lower

\* So it is after a step.
LEMMA WithinIsNatNext ==
  (BudgetTypeOK => \A c \in Call, d \in Dim : Within(c, d) \in Nat /\ Within(c, d) <= Held(c)[d])'
BY WithinIsNat, PTL

\* Calls that count for no more amount to no more.
LEMMA WithinByFalls ==
  ASSUME BudgetTypeOK, BudgetTypeOK', NEW calls \in SUBSET Call, NEW d \in Dim,
         \A c \in calls : Within(c, d)' <= Within(c, d)
  PROVE  /\ WithinBy(calls, d) \in Nat /\ WithinBy(calls, d)' \in Nat
         /\ WithinBy(calls, d)' <= WithinBy(calls, d)
<1> DEFINE f == [c \in Call |-> Within(c, d)']
           g == [c \in Call |-> Within(c, d)]
<1>1. \A c \in calls : f[c] \in Nat /\ g[c] \in Nat /\ f[c] <= g[c]
  BY WithinIsNat, WithinIsNatNext
<1>2. WithinBy(calls, d) = SumFunctionOnSet(g, calls) /\ WithinBy(calls, d)' = SumFunctionOnSet(f, calls)
  BY DEF WithinBy
<1>3. IsFiniteSet(calls)
  BY BudgetAssumption, FS_Subset
<1> HIDE DEF f, g
<1> QED BY <1>1, <1>2, <1>3, SumIsMonotone, SumIsNat

\* Calls count for no more than they hold.
LEMMA WithinIsHeld ==
  BudgetTypeOK =>
    \A calls \in SUBSET Call, d \in Dim :
      WithinBy(calls, d) \in Nat /\ HeldBy(calls, d) \in Nat
        /\ WithinBy(calls, d) <= HeldBy(calls, d)
<1> SUFFICES ASSUME BudgetTypeOK, NEW calls \in SUBSET Call, NEW d \in Dim
             PROVE  WithinBy(calls, d) \in Nat /\ HeldBy(calls, d) \in Nat
                      /\ WithinBy(calls, d) <= HeldBy(calls, d)
  OBVIOUS
<1> DEFINE f == [c \in Call |-> Within(c, d)]
           g == [c \in Call |-> Held(c)[d]]
<1>1. \A c \in calls : f[c] \in Nat /\ g[c] \in Nat /\ f[c] <= g[c]
  BY WithinIsNat, HeldIsAmount DEF Amount
<1>2. WithinBy(calls, d) = SumFunctionOnSet(f, calls) /\ HeldBy(calls, d) = SumFunctionOnSet(g, calls)
  BY DEF WithinBy, HeldBy
<1>3. IsFiniteSet(calls)
  BY BudgetAssumption, FS_Subset
<1> HIDE DEF f, g
<1> QED BY <1>1, <1>2, <1>3, SumIsMonotone, SumIsNat

\* So it is after a step.
LEMMA WithinIsHeldNext ==
  (BudgetTypeOK =>
     \A calls \in SUBSET Call, d \in Dim :
       WithinBy(calls, d) \in Nat /\ HeldBy(calls, d) \in Nat
         /\ WithinBy(calls, d) <= HeldBy(calls, d))'
BY WithinIsHeld, PTL

\* Less input and output cost no more.
LEMMA RmbIsMonotone ==
  ASSUME NEW h1 \in Nat, NEW h2 \in Nat, NEW k1 \in Nat, NEW k2 \in Nat, k1 <= h1, k2 <= h2,
         Rmb(h1, h2) <= ProgramCaps.rmb
  PROVE  Rmb(k1, k2) <= ProgramCaps.rmb
<1>1. Rmb(0, 0) = 0 /\ ProgramCaps.rmb \in Nat
  BY BudgetAssumption DEF Rmb, ProgramCapsType
<1>2. Rmb(h1, h2) \in Nat /\ Rmb(k1, k2) \in Nat
  BY BudgetAssumption DEF Rmb, ProgramCapsType
<1>3. Rmb(h1, h2) <= ProgramCaps.rmb + Rmb(0, 0)
  BY <1>1, <1>2
<1>4. Rmb(k1, k2) <= ProgramCaps.rmb + Rmb(0, 0)
  <2>1. 0 \in Nat /\ k1 + 0 <= h1 + 0 /\ k2 + 0 <= h2 + 0
    OBVIOUS
  <2> QED BY <1>3, <2>1, RmbKeepsBound
<1> QED BY <1>1, <1>2, <1>4

\* A step that makes no call count for more keeps them.
LEMMA FallsKeepWithin ==
  ASSUME BudgetTypeOK, BudgetTypeOK', WithinCaps,
         \A c \in Call, d \in Dim : Within(c, d)' <= Within(c, d)
  PROVE  WithinCaps'
<1>1. \A calls \in SUBSET Call, d \in Dim :
        /\ WithinBy(calls, d) \in Nat /\ WithinBy(calls, d)' \in Nat
        /\ WithinBy(calls, d)' <= WithinBy(calls, d)
  BY WithinByFalls
<1>2. /\ "input" \in Dim /\ "output" \in Dim /\ Call \in SUBSET Call
      /\ \A s \in Snapshot : InSnapshot(s) \in SUBSET Call /\ InSnapshot(s)' = InSnapshot(s)
      /\ ProgramCaps.input \in Nat /\ ProgramCaps.output \in Nat
      /\ \A s \in Snapshot, d \in Dim : CapsOf[s].total[d] \in Nat
  BY BudgetAssumption DEF Dim, InSnapshot, ProgramCapsType, Caps, Amount
<1>3. Rmb(WithinBy(Call, "input")', WithinBy(Call, "output")') <= ProgramCaps.rmb
  BY <1>1, <1>2, RmbIsMonotone DEF WithinCaps
<1>4. /\ WithinBy(Call, "input")' <= ProgramCaps.input
      /\ WithinBy(Call, "output")' <= ProgramCaps.output
  BY <1>1, <1>2 DEF WithinCaps
<1>5. ASSUME NEW s \in Snapshot, NEW d \in Dim
      PROVE  WithinBy(InSnapshot(s), d)' <= CapsOf[s].total[d]
  <2>1. WithinBy(InSnapshot(s), d) <= CapsOf[s].total[d]
    BY DEF WithinCaps
  <2>2. WithinBy(InSnapshot(s), d)' <= WithinBy(InSnapshot(s), d)
    BY <1>1, <1>2
  <2> QED BY <1>1, <1>2, <2>1, <2>2
<1> QED BY <1>3, <1>4, <1>5 DEF WithinCaps, Rmb, InSnapshot

\* A grant keeps them, since it fits beside all that is held.
LEMMA GrantKeepsWithin ==
  ASSUME BudgetTypeOK, BudgetTypeOK', IsFiniteSet(ledger), WithinCaps, NEW c \in Call, Reserve(c),
         FitsSnapshot(c), FitsProgram(c)
  PROVE  WithinCaps'
<1>1. \A calls \in SUBSET Call, d \in Dim :
        /\ WithinBy(calls, d)' \in Nat /\ HeldBy(calls, d)' \in Nat
        /\ WithinBy(calls, d)' <= HeldBy(calls, d)'
  BY WithinIsHeldNext
<1>2. /\ "input" \in Dim /\ "output" \in Dim /\ Call \in SUBSET Call
      /\ \A s \in Snapshot : InSnapshot(s) \in SUBSET Call /\ InSnapshot(s)' = InSnapshot(s)
      /\ ProgramCaps.input \in Nat /\ ProgramCaps.output \in Nat
      /\ \A s \in Snapshot, d \in Dim : CapsOf[s].total[d] \in Nat
  BY BudgetAssumption DEF Dim, InSnapshot, ProgramCapsType, Caps, Amount
<1>3. /\ HeldBy(Call, "input")' <= ProgramCaps.input
      /\ HeldBy(Call, "output")' <= ProgramCaps.output
      /\ Rmb(HeldBy(Call, "input")', HeldBy(Call, "output")') <= ProgramCaps.rmb
      /\ \A d \in Dim : HeldBy(InSnapshot(SnapshotOf[c]), d)' <= CapsOf[SnapshotOf[c]].total[d]
  BY GrantFits DEF Rmb
<1>4. Rmb(WithinBy(Call, "input")', WithinBy(Call, "output")') <= ProgramCaps.rmb
  BY <1>1, <1>2, <1>3, RmbIsMonotone
<1>5. ASSUME NEW s \in Snapshot, NEW d \in Dim
      PROVE  WithinBy(InSnapshot(s), d)' <= CapsOf[s].total[d]
  <2>1. CASE s = SnapshotOf[c]
    <3>1. HeldBy(InSnapshot(s), d)' <= CapsOf[s].total[d]
      BY <1>3, <2>1
    <3> QED BY <1>1, <1>2, <3>1
  <2>2. CASE s # SnapshotOf[c]
    <3>1. \A k \in InSnapshot(s) : Within(k, d)' = Within(k, d)
      BY <2>2 DEF InSnapshot, Within, Held, Status, Reserve, BudgetTypeOK
    <3>2. \A k \in InSnapshot(s) : Within(k, d)' <= Within(k, d)
      BY <1>2, <3>1, WithinIsNat
    <3>3. /\ WithinBy(InSnapshot(s), d) \in Nat
          /\ WithinBy(InSnapshot(s), d)' <= WithinBy(InSnapshot(s), d)
      BY <1>2, <3>2, WithinByFalls
    <3>4. WithinBy(InSnapshot(s), d) <= CapsOf[s].total[d]
      BY DEF WithinCaps
    <3> QED BY <1>1, <1>2, <3>3, <3>4
  <2> QED BY <2>1, <2>2
<1>6. /\ WithinBy(Call, "input")' <= ProgramCaps.input
      /\ WithinBy(Call, "output")' <= ProgramCaps.output
  BY <1>1, <1>2, <1>3
<1> QED BY <1>4, <1>5, <1>6 DEF WithinCaps, Rmb, InSnapshot

\* At first no call counts for anything.
LEMMA WithinInit == BudgetInit => WithinCaps
<1> SUFFICES ASSUME BudgetInit PROVE WithinCaps
  OBVIOUS
<1>1. BudgetTypeOK
  BY BudgetInvInit DEF BudgetInv
<1>2. ASSUME NEW calls \in SUBSET Call, NEW d \in Dim
      PROVE  WithinBy(calls, d) = 0
  <2> DEFINE f == [c \in Call |-> Within(c, d)]
  <2>1. \A c \in Call : Held(c)[d] = 0
    BY DEF BudgetInit, Held, Status, Terminal, Zero
  <2>2. \A c \in Call : f[c] = 0
    BY <1>1, <2>1, WithinIsNat
  <2>3. IsFiniteSet(calls)
    BY BudgetAssumption, FS_Subset
  <2>4. WithinBy(calls, d) = SumFunctionOnSet(f, calls)
    BY DEF WithinBy
  <2> HIDE DEF f
  <2> QED BY <2>2, <2>3, <2>4, SumOfZeros
<1>3. /\ "input" \in Dim /\ "output" \in Dim /\ Call \in SUBSET Call
      /\ \A s \in Snapshot : InSnapshot(s) \in SUBSET Call
      /\ ProgramCaps \in ProgramCapsType
      /\ \A s \in Snapshot, d \in Dim : CapsOf[s].total[d] \in Nat
  BY BudgetAssumption DEF Dim, InSnapshot, Caps, Amount
<1>4. Rmb(0, 0) = 0
  BY <1>3 DEF Rmb, ProgramCapsType
<1> QED BY <1>2, <1>3, <1>4 DEF WithinCaps, ProgramCapsType

\* Every command keeps them: a settlement cannot make a call count for more than
\* the maxima it already held.
LEMMA WithinKept ==
  ASSUME BudgetInv, WithinCaps, BudgetStep \/ UNCHANGED budget
  PROVE  WithinCaps'
<1>0. BudgetTypeOK /\ BudgetTypeOK' /\ IsFiniteSet(ledger)
  BY BudgetInvKept DEF BudgetInv
<1>1. CASE (\E s \in Snapshot : CreateSnapshot(s)) \/ UNCHANGED budget
  <2>1. \A k \in Call, d \in Dim : Within(k, d)' = Within(k, d)
    BY <1>1 DEF CreateSnapshot, budget, Within, Held, Status
  <2>2. \A k \in Call, d \in Dim : Within(k, d)' <= Within(k, d)
    BY <1>0, <2>1, WithinIsNat
  <2> QED BY <1>0, <2>2, FallsKeepWithin
<1>2. ASSUME NEW c \in Call, Reserve(c) PROVE WithinCaps'
  <2>1. CASE FitsSnapshot(c) /\ FitsProgram(c)
    BY <1>0, <1>2, <2>1, GrantKeepsWithin
  <2>2. CASE ~(FitsSnapshot(c) /\ FitsProgram(c))
    <3>1. \A k \in Call : Held(k)' = Held(k)
      BY <1>0, <1>2, <2>2 DEF Reserve, Held, Status, Terminal, BudgetTypeOK, Reservation
    <3>2. \A k \in Call, d \in Dim : Within(k, d)' = Within(k, d)
      BY <3>1 DEF Within
    <3>3. \A k \in Call, d \in Dim : Within(k, d)' <= Within(k, d)
      BY <1>0, <3>2, WithinIsNat
    <3> QED BY <1>0, <3>3, FallsKeepWithin
  <2> QED BY <2>1, <2>2
<1>3. ASSUME NEW c \in Call, NEW usage \in {Unknown} \cup {Reported(u) : u \in Amount},
             Settle(c, usage)
      PROVE  WithinCaps'
  <2>1. /\ Held(c) = MaxOf[c]
        /\ \A k \in Call \ {c} : Held(k)' = Held(k)
    BY <1>0, <1>3 DEF Settle, Held, Status, Terminal, BudgetTypeOK
  <2>2. ASSUME NEW k \in Call, NEW d \in Dim
        PROVE  Within(k, d)' <= Within(k, d)
    <3>1. /\ Held(k)[d] \in Nat /\ Held(k)'[d] \in Nat /\ MaxOf[k][d] \in Nat
      BY <1>0, HeldIsAmount, HeldIsAmountNext, BudgetAssumption DEF Amount
    <3>2. Held(k)[d] = MaxOf[k][d] \/ Held(k)'[d] = Held(k)[d]
      BY <2>1
    <3>3. Within(k, d) = Lower(Held(k)[d], MaxOf[k][d]) /\ Within(k, d)' = Lower(Held(k)'[d], MaxOf[k][d])
      BY DEF Within, Lower
    <3> QED BY <3>1, <3>2, <3>3 DEF Lower
  <2> QED BY <1>0, <2>2, FallsKeepWithin
<1> QED BY <1>1, <1>2, <1>3 DEF BudgetStep

\* In every reachable state the caps of the Program and of each snapshot hold
\* exactly, when every call is counted up to the maxima it reserved: no order of
\* reservations and settlements lets granted maxima add up past a cap.
THEOREM CapsHoldWithinMaxima == BudgetSpec => []WithinCaps
<1>1. BudgetInv /\ WithinCaps /\ [BudgetNext]_budget => (BudgetInv /\ WithinCaps)'
  BY BudgetSteps, BudgetInvKept, WithinKept DEF BudgetStep
<1> QED BY <1>1, BudgetInvInit, WithinInit, PTL DEF BudgetSpec

=============================================================================
