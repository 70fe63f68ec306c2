---------------------- MODULE ReturnReconciliationProofs ----------------------
(***************************************************************************)
(* Theorems about ReturnReconciliation: what requests reserve and what     *)
(* refunds allocate, for every finite set of requests and of refunds and   *)
(* any number of processes.                                                *)
(*                                                                         *)
(* The model's sums are functions over the subsets of a finite set; what   *)
(* is needed of them is shown first, by a smallest counterexample.  Then   *)
(* the invariant, each step in full, and one lemma per part of the         *)
(* invariant with a case for every action.                                 *)
(***************************************************************************)
EXTENDS ReturnReconciliation, FiniteSetTheorems, TLAPS

-----------------------------------------------------------------------------
(* Sums over finite sets of integers *)

\* The equation MapThenSumSet solves: the sums over all subsets of S, by
\* taking one element out of each.
IsSum(iter, g, S) ==
    iter = [s \in SUBSET S |-> IF s = {} THEN 0
              ELSE g[CHOOSE x \in s : TRUE] + iter[s \ {CHOOSE x \in s : TRUE}]]

Sums(g, S) == CHOOSE iter : IsSum(iter, g, S)

\* Induction over the subsets of a finite set: of the bad ones, one is minimal.
LEMMA MinimalSubset ==
    ASSUME NEW S, IsFiniteSet(S), NEW Bad \in SUBSET (SUBSET S), Bad # {}
    PROVE  \E T \in Bad : IsFiniteSet(T) /\ \A U \in SUBSET T : U # T => U \notin Bad
  <1>1. IsWellFoundedOn(StrictSubsetOrdering(S), SUBSET S)
    BY FS_StrictSubsetOrderingWellFounded, FS_FiniteSubsetsOfFinite
  <1>2. PICK T \in Bad : \A U \in Bad : <<U, T>> \notin StrictSubsetOrdering(S)
    BY <1>1, WFMin
  <1>3. IsFiniteSet(T)
    BY FS_Subset
  <1>4. ASSUME NEW U \in SUBSET T, U # T, U \in Bad PROVE FALSE
    BY <1>2, <1>4 DEF StrictSubsetOrdering
  <1> QED
    BY <1>3, <1>4

\* A sum depends on the set and on the values there alone.
LEMMA SumsAgree ==
    ASSUME NEW S, IsFiniteSet(S), NEW A, NEW B, S \subseteq A, S \subseteq B,
           NEW f, NEW h, NEW u, NEW v, IsSum(u, f, A), IsSum(v, h, B),
           \A x \in S : f[x] = h[x]
    PROVE  u[S] = v[S]
  <1> DEFINE Bad == {T \in SUBSET S : u[T] # v[T]}
  <1>1. SUFFICES ASSUME Bad # {} PROVE FALSE
    OBVIOUS
  <1>2. PICK T \in Bad : \A U \in SUBSET T : U # T => U \notin Bad
    <2>1. Bad \in SUBSET (SUBSET S)
      OBVIOUS
    <2> HIDE DEF Bad
    <2> QED
      BY <1>1, <2>1, MinimalSubset
  <1> DEFINE c == CHOOSE x \in T : TRUE
  <1>3. T # {}
    BY DEF IsSum
  <1>4. c \in T /\ T \ {c} # T /\ T \ {c} \in SUBSET T
    BY <1>3
  <1>5. u[T \ {c}] = v[T \ {c}]
    BY <1>2, <1>4
  <1>6. T \in SUBSET A /\ T \in SUBSET B
    OBVIOUS
  <1>7. u[T] = f[c] + u[T \ {c}]
    BY <1>3, <1>6 DEF IsSum
  <1>8. v[T] = h[c] + v[T \ {c}]
    BY <1>3, <1>6 DEF IsSum
  <1> QED
    BY <1>4, <1>5, <1>7, <1>8

\* MapThenSumSet has a solution over a finite set.
LEMMA SumsExist ==
    ASSUME NEW S, IsFiniteSet(S), NEW g
    PROVE  IsSum(Sums(g, S), g, S)
  <1> DEFINE Bad == {T \in SUBSET S : ~IsSum(Sums(g, T), g, T)}
  <1>1. SUFFICES ASSUME Bad # {} PROVE FALSE
    OBVIOUS
  <1>2. PICK T \in Bad : IsFiniteSet(T) /\ \A U \in SUBSET T : U # T => U \notin Bad
    <2>1. Bad \in SUBSET (SUBSET S)
      OBVIOUS
    <2> HIDE DEF Bad
    <2> QED
      BY <1>1, <2>1, MinimalSubset
  <1> DEFINE c(s) == CHOOSE x \in s : TRUE
             part == [s \in SUBSET T |-> Sums(g, s)[s]]
             iter == [s \in SUBSET T |-> IF s = {} THEN 0 ELSE g[c(s)] + part[s \ {c(s)}]]
  <1>3. \A U \in SUBSET T : U # T => IsSum(Sums(g, U), g, U)
    BY <1>2
  <1>4. ASSUME NEW s \in SUBSET T, s # T, NEW r \in SUBSET s
        PROVE  Sums(g, s)[r] = part[r]
    <2>1. r # T /\ r \in SUBSET T /\ IsFiniteSet(r)
      BY <1>2, <1>4, FS_Subset
    <2>2. IsSum(Sums(g, s), g, s) /\ IsSum(Sums(g, r), g, r)
      BY <1>3, <1>4, <2>1
    <2> HIDE DEF IsSum, Sums
    <2> QED
      BY <2>1, <2>2, SumsAgree
  <1>5. ASSUME NEW s \in SUBSET T, s # T PROVE part[s] = iter[s]
    <2> DEFINE w == Sums(g, s)
    <2>1. IsSum(w, g, s)
      BY <1>3, <1>5
    <2> HIDE DEF w
    <2>2. w[s] = IF s = {} THEN 0 ELSE g[c(s)] + w[s \ {c(s)}]
      BY <2>1 DEF IsSum
    <2>3. w[s] = part[s] /\ w[s \ {c(s)}] = part[s \ {c(s)}]
      BY <1>4, <1>5 DEF w
    <2> QED
      BY <2>2, <2>3
  <1>6. iter = [s \in SUBSET T |-> IF s = {} THEN 0 ELSE g[c(s)] + iter[s \ {c(s)}]]
    <2>1. ASSUME NEW s \in SUBSET T, s # {} PROVE part[s \ {c(s)}] = iter[s \ {c(s)}]
      <3>1. c(s) \in s
        BY <2>1
      <3>2. s \ {c(s)} \in SUBSET T /\ s \ {c(s)} # T
        BY <3>1
      <3> QED
        BY <1>5, <3>2
    <2>2. iter = [s \in SUBSET T |-> IF s = {} THEN 0 ELSE g[c(s)] + part[s \ {c(s)}]]
      OBVIOUS
    <2> HIDE DEF part, iter, c
    <2> QED
      BY <2>1, <2>2
  <1>7. IsSum(iter, g, T)
    BY <1>6 DEF IsSum
  <1>8. IsSum(Sums(g, T), g, T)
    <2> HIDE DEF iter
    <2> QED BY <1>7 DEF Sums
  <1> QED
    BY <1>8

\* The model's sum is the solution's value at the whole set.
LEMMA SumIsSums == ASSUME NEW g, NEW S PROVE Sum(g, S) = Sums(g, S)[S]
  BY DEF Sum, Sums, IsSum, MapThenSumSet, MapThenFoldSet

\* Nothing sums to zero.
LEMMA SumEmpty == ASSUME NEW g PROVE Sum(g, {}) = 0
  <1>1. IsSum(Sums(g, {}), g, {})
    BY SumsExist, FS_EmptySet
  <1> QED
    BY <1>1, SumIsSums DEF IsSum

\* A sum depends on nothing but the values over its set.
LEMMA SumAgrees ==
    ASSUME NEW S, IsFiniteSet(S), NEW f, NEW h, \A x \in S : f[x] = h[x]
    PROVE  Sum(f, S) = Sum(h, S)
  BY SumsExist, SumsAgree, SumIsSums

\* A sum is one of its terms and the sum of the rest.
LEMMA SumStep ==
    ASSUME NEW S, IsFiniteSet(S), S # {}, NEW g
    PROVE  \E x \in S : Sum(g, S) = g[x] + Sum(g, S \ {x})
  <1> DEFINE c == CHOOSE x \in S : TRUE
  <1>1. c \in S
    OBVIOUS
  <1>2. IsFiniteSet(S \ {c})
    BY FS_Subset
  <1>3. IsSum(Sums(g, S), g, S) /\ IsSum(Sums(g, S \ {c}), g, S \ {c})
    BY <1>2, SumsExist
  <1>4. Sums(g, S)[S] = g[c] + Sums(g, S)[S \ {c}]
    BY <1>3 DEF IsSum
  <1>5. Sums(g, S)[S \ {c}] = Sums(g, S \ {c})[S \ {c}]
    BY <1>2, <1>3, SumsAgree
  <1> QED
    BY <1>1, <1>4, <1>5, SumIsSums

\* Integers sum to an integer.
LEMMA SumIsInt ==
    ASSUME NEW S, IsFiniteSet(S), NEW g, \A x \in S : g[x] \in Int
    PROVE  Sum(g, S) \in Int
  <1> DEFINE Bad == {T \in SUBSET S : Sum(g, T) \notin Int}
  <1>1. SUFFICES ASSUME Bad # {} PROVE FALSE
    OBVIOUS
  <1>2. PICK T \in Bad : IsFiniteSet(T) /\ \A U \in SUBSET T : U # T => U \notin Bad
    <2>1. Bad \in SUBSET (SUBSET S)
      OBVIOUS
    <2> HIDE DEF Bad
    <2> QED
      BY <1>1, <2>1, MinimalSubset
  <1>3. T # {}
    BY SumEmpty
  <1>4. PICK x \in T : Sum(g, T) = g[x] + Sum(g, T \ {x})
    BY <1>2, <1>3, SumStep
  <1>5. Sum(g, T \ {x}) \in Int
    BY <1>2
  <1> QED
    BY <1>4, <1>5

\* Any element can be taken out of a sum.
LEMMA SumWithout ==
    ASSUME NEW S, IsFiniteSet(S), NEW g, \A x \in S : g[x] \in Int, NEW a \in S
    PROVE  Sum(g, S) = g[a] + Sum(g, S \ {a})
  <1> DEFINE Bad == {T \in SUBSET S : \E y \in T : Sum(g, T) # g[y] + Sum(g, T \ {y})}
  <1>1. SUFFICES ASSUME Bad # {} PROVE FALSE
    OBVIOUS
  <1>2. PICK T \in Bad : IsFiniteSet(T) /\ \A U \in SUBSET T : U # T => U \notin Bad
    <2>1. Bad \in SUBSET (SUBSET S)
      OBVIOUS
    <2> HIDE DEF Bad
    <2> QED
      BY <1>1, <2>1, MinimalSubset
  <1>3. PICK y \in T : Sum(g, T) # g[y] + Sum(g, T \ {y})
    OBVIOUS
  <1>4. PICK x \in T : Sum(g, T) = g[x] + Sum(g, T \ {x})
    BY <1>2, SumStep
  <1>5. x # y
    BY <1>3, <1>4
  <1>6. Sum(g, T \ {x}) = g[y] + Sum(g, (T \ {x}) \ {y})
    BY <1>2, <1>5
  <1>7. (T \ {x}) \ {y} = (T \ {y}) \ {x}
    OBVIOUS
  <1>8. Sum(g, T \ {y}) = g[x] + Sum(g, (T \ {x}) \ {y})
    <2>1. Sum(g, T \ {y}) = g[x] + Sum(g, (T \ {y}) \ {x})
      BY <1>2, <1>5
    <2> QED
      BY <1>7, <2>1, Zenon
  <1>9. Sum(g, (T \ {x}) \ {y}) \in Int
    BY <1>2, FS_Subset, SumIsInt
  <1>10. g[x] \in Int /\ g[y] \in Int
    OBVIOUS
  <1> HIDE DEF Bad
  <1> QED
    BY <1>3, <1>4, <1>6, <1>8, <1>9, <1>10

\* Smaller values, smaller sum.
LEMMA SumMonotonic ==
    ASSUME NEW S, IsFiniteSet(S), NEW f, NEW h,
           \A x \in S : f[x] \in Int /\ h[x] \in Int /\ f[x] <= h[x]
    PROVE  Sum(f, S) <= Sum(h, S)
  <1> DEFINE Bad == {T \in SUBSET S : ~(Sum(f, T) <= Sum(h, T))}
  <1>1. SUFFICES ASSUME Bad # {} PROVE FALSE
    OBVIOUS
  <1>2. PICK T \in Bad : IsFiniteSet(T) /\ \A U \in SUBSET T : U # T => U \notin Bad
    <2>1. Bad \in SUBSET (SUBSET S)
      OBVIOUS
    <2> HIDE DEF Bad
    <2> QED
      BY <1>1, <2>1, MinimalSubset
  <1>3. PICK x \in T : TRUE
    BY SumEmpty
  <1>4. Sum(f, T) = f[x] + Sum(f, T \ {x}) /\ Sum(h, T) = h[x] + Sum(h, T \ {x})
    BY <1>2, SumWithout
  <1>5. Sum(f, T \ {x}) <= Sum(h, T \ {x})
    BY <1>2
  <1>6. Sum(f, T \ {x}) \in Int /\ Sum(h, T \ {x}) \in Int
    BY <1>2, FS_Subset, SumIsInt
  <1> QED
    BY <1>4, <1>5, <1>6

\* Elements that count nothing can be left out.
LEMMA SumOfPart ==
    ASSUME NEW S, IsFiniteSet(S), NEW R \in SUBSET S, NEW f,
           \A x \in S : f[x] \in Int, \A x \in S \ R : f[x] = 0
    PROVE  Sum(f, S) = Sum(f, R)
  <1> DEFINE Bad == {T \in SUBSET S : Sum(f, T) # Sum(f, T \cap R)}
  <1>1. SUFFICES ASSUME Bad # {} PROVE FALSE
    <2>1. S \cap R = R
      OBVIOUS
    <2> QED
      BY <2>1
  <1>2. PICK T \in Bad : IsFiniteSet(T) /\ \A U \in SUBSET T : U # T => U \notin Bad
    <2>1. Bad \in SUBSET (SUBSET S)
      OBVIOUS
    <2> HIDE DEF Bad
    <2> QED
      BY <1>1, <2>1, MinimalSubset
  <1>3. PICK x \in T : x \notin R
    <2>1. CASE T \subseteq R
      BY <2>1, T \cap R = T
    <2> QED
      BY <2>1
  <1>4. Sum(f, T) = f[x] + Sum(f, T \ {x})
    BY <1>2, SumWithout
  <1>5. Sum(f, T \ {x}) = Sum(f, (T \ {x}) \cap R)
    BY <1>2
  <1>6. Sum(f, (T \ {x}) \cap R) = Sum(f, T \cap R)
    <2>1. (T \ {x}) \cap R = T \cap R
      BY <1>3
    <2> QED
      BY <2>1, Zenon
  <1>7. Sum(f, T \ {x}) \in Int /\ f[x] = 0
    BY <1>2, <1>3, FS_Subset, SumIsInt
  <1>8. Sum(f, T) # Sum(f, T \cap R)
    OBVIOUS
  <1> QED
    BY <1>4, <1>5, <1>6, <1>7, <1>8

\* A part of naturals sums to no more than the whole.
LEMMA SumOfSubset ==
    ASSUME NEW S, IsFiniteSet(S), NEW R \in SUBSET S, NEW f, \A x \in S : f[x] \in Nat
    PROVE  Sum(f, R) <= Sum(f, S)
  <1> DEFINE h == [x \in S |-> IF x \in R THEN f[x] ELSE 0]
  <1>1. IsFiniteSet(R)
    BY FS_Subset
  <1>2. \A x \in S : h[x] \in Int /\ f[x] \in Int /\ h[x] <= f[x]
    OBVIOUS
  <1>3. \A x \in R : h[x] = f[x]
    OBVIOUS
  <1>4. \A x \in S \ R : h[x] = 0
    OBVIOUS
  <1> HIDE DEF h
  <1>5. Sum(h, S) = Sum(h, R)
    BY <1>2, <1>4, SumOfPart
  <1>6. Sum(h, R) = Sum(f, R)
    BY <1>1, <1>3, SumAgrees
  <1>7. Sum(h, S) <= Sum(f, S)
    BY <1>2, SumMonotonic
  <1> QED
    BY <1>5, <1>6, <1>7

\* Naturals sum to a natural.
LEMMA SumIsNat ==
  ASSUME NEW S, IsFiniteSet(S), NEW R \in SUBSET S, NEW f, \A x \in S : f[x] \in Nat
  PROVE  /\ IsFiniteSet(R)
         /\ Sum(f, R) \in Nat
<1>1. IsFiniteSet(R) /\ IsFiniteSet({})
  BY FS_Subset, FS_EmptySet
<1>2. Sum(f, R) \in Int
  BY <1>1, SumIsInt
<1>3. Sum(f, {}) <= Sum(f, R)
  BY <1>1, SumOfSubset
<1>4. Sum(f, {}) = 0
  BY SumEmpty
<1>. QED
  BY <1>1, <1>2, <1>3, <1>4

\* One value more, and the rest as before.
LEMMA SumWithOne ==
  ASSUME NEW S, IsFiniteSet(S), NEW a \in S, NEW f, NEW h,
         \A x \in S : f[x] \in Int /\ h[x] \in Int,
         \A x \in S : x # a => h[x] = f[x]
  PROVE  Sum(h, S) = Sum(f, S) - f[a] + h[a]
<1>1. Sum(f, S) = f[a] + Sum(f, S \ {a}) /\ Sum(h, S) = h[a] + Sum(h, S \ {a})
  BY SumWithout
<1>2. IsFiniteSet(S \ {a})
  BY FS_Subset
<1>3. Sum(h, S \ {a}) = Sum(f, S \ {a})
  BY <1>2, SumAgrees
<1>4. Sum(f, S \ {a}) \in Int
  BY <1>2, SumIsInt
<1>. QED
  BY <1>1, <1>3, <1>4

-----------------------------------------------------------------------------
(* The shares of a refund *)

\* No share is more than the units the line has open, or than the refund.
LEMMA ShareFits ==
  ASSUME NEW units \in Units, NEW r \in Requests, NEW n \in Nat
  PROVE  /\ Share(units, r, n) \in Nat
         /\ Share(units, r, n) <= units[r]
         /\ Share(units, r, n) <= n
<1>1. \A q \in Requests : units[q] \in Nat
  BY PurchasedIsNat DEF Units
<1>2. Sum(units, {q \in Requests : q < r}) \in Nat
  BY <1>1, SumIsNat, OrderIsFinite
<1>. QED
  BY <1>1, <1>2 DEF Share

\* A finite set of numbers has a greatest one.
LEMMA Greatest ==
  ASSUME NEW D \in SUBSET Requests, D # {}
  PROVE  \E m \in D : \A x \in D : x <= m
<1>. DEFINE above(y) == {x \in D : y < x}
            Bad == {above(y) : y \in D}
<1>1. IsFiniteSet(D)
  BY FS_Subset, OrderIsFinite
<1>2. PICK T \in Bad : \A U \in SUBSET T : U # T => U \notin Bad
  <2>1. Bad \in SUBSET (SUBSET D) /\ Bad # {}
    OBVIOUS
  <2>. HIDE DEF Bad
  <2>. QED
    BY <1>1, <2>1, MinimalSubset
<1>3. PICK m \in D : T = above(m)
  OBVIOUS
<1>4. ASSUME NEW x \in D, ~(x <= m) PROVE FALSE
  <2>1. x \in Nat /\ m \in Nat /\ m < x
    BY <1>4, RequestsAreNumbers
  <2>2. above(x) \in SUBSET above(m)
    <3>1. \A z \in D : z \in Nat
      BY RequestsAreNumbers
    <3>2. \A z \in D : x < z => m < z
      BY <2>1, <3>1
    <3>. QED
      BY <3>2
  <2>3. x \in above(m) /\ x \notin above(x)
    BY <2>1
  <2>. QED
    BY <1>2, <1>3, <2>2, <2>3
<1>. QED
  BY <1>4

\* Shared out in the order of the requests, a refund's units go to the open
\* units of the lines, until either are used up.
LEMMA SharesOfFirst ==
  ASSUME NEW units \in Units, NEW n \in Nat, NEW D \in SUBSET Requests,
         \A x \in D, y \in Requests : y < x => y \in D,
         NEW share, \A r \in Requests : share[r] = Share(units, r, n)
  PROVE  Sum(share, D) = IF Sum(units, D) <= n THEN Sum(units, D) ELSE n
<1>. DEFINE first(T) == \A x \in T, y \in Requests : y < x => y \in T
            right(T) == Sum(share, T) = IF Sum(units, T) <= n THEN Sum(units, T) ELSE n
            Bad == {T \in SUBSET Requests : first(T) /\ ~right(T)}
<1>1. SUFFICES ASSUME Bad # {} PROVE FALSE
  OBVIOUS
<1>2. PICK T \in Bad : IsFiniteSet(T) /\ \A U \in SUBSET T : U # T => U \notin Bad
  <2>1. Bad \in SUBSET (SUBSET Requests)
    OBVIOUS
  <2>. HIDE DEF Bad
  <2>. QED
    BY <1>1, <2>1, MinimalSubset, OrderIsFinite
<1>3. T \in SUBSET Requests /\ first(T) /\ ~right(T)
  OBVIOUS
<1>4. T # {}
  <2>1. Sum(share, {}) = 0 /\ Sum(units, {}) = 0
    BY SumEmpty
  <2>2. CASE T = {}
    <3>1. Sum(share, T) = 0
      BY <2>1, <2>2, Zenon
    <3>2. Sum(units, T) = 0
      BY <2>1, <2>2, Zenon
    <3>. QED
      BY <1>3, <3>1, <3>2
  <2>. QED
    BY <2>2
<1>5. PICK m \in T : \A x \in T : x <= m
  BY <1>3, <1>4, Greatest
<1>. DEFINE rest == T \ {m}
<1>6. rest = {q \in Requests : q < m}
  <2>1. \A q \in Requests : q \in Nat
    BY RequestsAreNumbers
  <2>. QED
    BY <1>3, <1>5, <2>1
<1>7. first(rest) /\ rest \in SUBSET Requests /\ rest # T /\ rest \in SUBSET T
  <2>1. \A q \in Requests : q \in Nat
    BY RequestsAreNumbers
  <2>. QED
    BY <1>3, <1>6, <2>1
<1>8. right(rest)
  <2>. HIDE DEF right, first, rest
  <2>. QED
    BY <1>2, <1>7
<1>9. \A q \in Requests : units[q] \in Nat /\ share[q] \in Nat
  BY ShareFits, PurchasedIsNat DEF Units
<1>. HIDE DEF Bad, rest, first
<1>10. /\ Sum(share, T) = share[m] + Sum(share, rest)
       /\ Sum(units, T) = units[m] + Sum(units, rest)
  BY <1>2, <1>3, <1>5, <1>9, SumWithout DEF rest
<1>11. Sum(units, rest) \in Nat /\ Sum(share, rest) \in Nat
  BY <1>7, <1>9, SumIsNat, OrderIsFinite
<1>12. Sum(units, {q \in Requests : q < m}) = Sum(units, rest)
  BY <1>6, Zenon
<1>13. share[m] = LET left == IF n > Sum(units, rest) THEN n - Sum(units, rest) ELSE 0
                  IN  IF units[m] < left THEN units[m] ELSE left
  BY <1>3, <1>12 DEF Share
<1>14. m \in Requests
  BY <1>3
<1>. QED
  BY <1>3, <1>8, <1>9, <1>10, <1>11, <1>13, <1>14

\* So the shares are no more than the refund.
LEMMA SharesFit ==
  ASSUME NEW units \in Units, NEW n \in Nat, NEW share, \A r \in Requests : share[r] = Share(units, r, n)
  PROVE  Sum(share, Requests) <= n
<1>1. Sum(share, Requests) = IF Sum(units, Requests) <= n THEN Sum(units, Requests) ELSE n
  BY SharesOfFirst
<1>2. \A q \in Requests : units[q] \in Nat
  BY PurchasedIsNat DEF Units
<1>3. Sum(units, Requests) \in Nat
  BY <1>2, SumIsNat, OrderIsFinite
<1>. QED
  BY <1>1, <1>3

-----------------------------------------------------------------------------
(* The inductive invariant *)

\* A process is at a request of the order; a group without a line was read as
\* new; who handles a refund knows its units, and counts open units of lines.
AtWork ==
    \A p \in Procs :
      /\ proc[p].stage # "pick" => proc[p].at \in Requests
      /\ proc[p].stage = "group" /\ ~HasLine(proc[p].at) => proc[p].seen = NewGroup
      /\ proc[p].job = "refund" =>
            /\ proc[p].refund \in Refunds
            /\ quantity[proc[p].refund] > 0
            /\ \A r \in Requests : proc[p].units[r] > 0 => HasLine(r)

\* A delivery goes to the requests that have a share, and has recorded that
\* share at those it is done with.
SharesAreKnown ==
    \A p \in Procs : proc[p].job = "refund" =>
      LET share(r) == Share(proc[p].units, r, quantity[proc[p].refund])
      IN  /\ \A r \in proc[p].todo : share(r) > 0
          /\ \A r \in proc[p].done : share(r) > 0 /\ allocated[r][proc[p].refund] = share(r)

\* A request is cancelled, or about to be, only while its group is.
CancelledAgree ==
    "reopened" \notin faults =>
      /\ \A r \in Requests : request[r].outcome = "CANCELLED" => group[r].outcome = "CANCELLED"
      /\ \A p \in Procs :
            proc[p].stage \in {"group", "request"} /\ proc[p].seen.outcome = "CANCELLED"
              => group[proc[p].at].outcome = "CANCELLED"

IInv ==
    /\ TypeOK
    /\ AtWork
    /\ SharesAreKnown
    /\ CancelledAgree
    /\ ReservationsWithinPurchase
    /\ AllocationsAreCovered

-----------------------------------------------------------------------------
(* Types *)

RequestRow == [v2 : BOOLEAN, reserved : 0..Purchased, outcome : Outcomes]
GroupRow == [outcome : Outcomes, progress : Progress, sent : BOOLEAN]
ProcRow == [job : {"idle", "desk", "refund", "cancel"},
            refund : Refunds \union {None}, units : Units, base : 0..Purchased,
            todo : SUBSET Requests, done : SUBSET Requests,
            at : Requests \union {None}, stage : {"pick", "read", "group", "request"},
            seen : GroupRow]
Typed ==
    /\ quantity \in [Refunds -> 0..Purchased]
    /\ request \in [Requests -> RequestRow]
    /\ group \in [Requests -> GroupRow]
    /\ allocated \in [Requests -> [Refunds -> 0..Purchased]]
    /\ proc \in [Procs -> ProcRow]
Counted ==
    /\ cancelled \in 0..Purchased
    /\ decisions \in 0..MaxDecisions
    /\ faults \subseteq {"reopened", "again", "overlap"}

\* A request without a line has no group of its own and no refund.
Lineless == \A r \in Requests : ~HasLine(r) => group[r] = NewGroup
AllocatedToLines ==
    \A r \in Requests, f \in Refunds : allocated[r][f] > 0 => HasLine(r) /\ allocated[r][f] <= quantity[f]

\* The type invariant in its parts.
LEMMA Parts == TypeOK <=> Typed /\ Counted /\ Lineless /\ AllocatedToLines
  BY DEF TypeOK, Typed, Counted, Lineless, AllocatedToLines, RequestRow, GroupRow, ProcRow

\* The same after a step.
LEMMA PartsAfter == TypeOK' <=> Typed' /\ Counted' /\ Lineless' /\ AllocatedToLines'
  BY DEF TypeOK, Typed, Counted, Lineless, AllocatedToLines, RequestRow, GroupRow, ProcRow

\* Rows as they are made, and a new group's progress, which is derived.
LEMMA Blanks ==
  /\ NoRequest \in RequestRow /\ NewGroup \in GroupRow
  /\ NoUnits \in Units /\ Idle \in ProcRow
  /\ DerivedProgress(NewGroup) = NewGroup.progress
<1>1. NoUnits \in Units
  BY PurchasedIsNat DEF NoUnits, Units
<1>2. NewGroup \in GroupRow
  BY DEF NewGroup, GroupRow, Outcomes, Progress
<1>. QED
  BY <1>1, <1>2, PurchasedIsNat DEF NoRequest, RequestRow, NewGroup, Idle, ProcRow, Outcomes, DerivedProgress

\* What lines have open is within what was bought.
LEMMA OpenUnitsFit ==
  ASSUME Typed, NEW r \in Requests
  PROVE  /\ Sum(allocated[r], Refunds) \in Nat
         /\ OpenUnits(r) \in 0..Purchased
         /\ OpenUnits(r) > 0 => request[r].reserved >= Sum(allocated[r], Refunds) + OpenUnits(r)
<1>1. \A f \in Refunds : allocated[r][f] \in Nat
  BY PurchasedIsNat DEF Typed
<1>2. Sum(allocated[r], Refunds) \in Nat
  BY <1>1, SumIsNat, OrderIsFinite
<1>3. request[r].reserved \in 0..Purchased
  BY DEF Typed, RequestRow
<1>4. Purchased \in Nat
  BY PurchasedIsNat
<1>. QED
  BY <1>2, <1>3, <1>4 DEF OpenUnits

\* What was refunded of the line, over all refunds.
LEMMA RefundedIsNat ==
  ASSUME Typed
  PROVE  Refunded \in Nat
<1>1. \A f \in Refunds : quantity[f] \in Nat
  BY PurchasedIsNat DEF Typed
<1>. QED
  BY <1>1, SumIsNat, OrderIsFinite DEF Refunded

-----------------------------------------------------------------------------
(* The steps in full *)

OnlyProc(p) == \A q \in Procs : q # p => proc'[q] = proc[q]
OnlyRequest(r) == \A q \in Requests : q # r => request'[q] = request[q]
OnlyGroup(r) == \A q \in Requests : q # r => group'[q] = group[q]
SameTask(p) ==
    /\ proc'[p].job = proc[p].job
    /\ proc'[p].refund = proc[p].refund
    /\ proc'[p].units = proc[p].units
    /\ proc'[p].done = proc[p].done
\* A process turns to a request, to recompute it.
Turns(p, r) == proc'[p].at = r /\ proc'[p].stage = "read" /\ OnlyProc(p)
FaultsStay == faults \subseteq faults'
SameLines == \A r \in Requests : request'[r].reserved = request[r].reserved
\* Nothing but a process and what it has read of the order changes.
Reads == UNCHANGED <<quantity, request, group, cancelled, allocated, faults>>

\* A web request turns to the request it is about.
LEMMA DeskTurns ==
  ASSUME Typed, NEW p \in Procs, NEW r \in Requests,
         proc' = [proc EXCEPT ![p].job = "desk", ![p].at = r, ![p].stage = "read"]
  PROVE  Turns(p, r) /\ proc'[p].job = "desk" /\ proc' \in [Procs -> ProcRow]
<1>1. proc[p] \in ProcRow
  BY DEF Typed
<1>2. [proc[p] EXCEPT !.job = "desk", !.at = r, !.stage = "read"] \in ProcRow
  BY <1>1 DEF ProcRow
<1>3. proc' = [proc EXCEPT ![p] = [proc[p] EXCEPT !.job = "desk", !.at = r, !.stage = "read"]]
  BY DEF Typed
<1>4. proc' \in [Procs -> ProcRow]
  BY <1>2, <1>3 DEF Typed
<1>5. Turns(p, r) /\ proc'[p].job = "desk"
  BY <1>1, <1>3 DEF Typed, ProcRow, Turns, OnlyProc
<1>. QED
  BY <1>4, <1>5

\* Reading a group changes nothing but the process.
LEMMA DoReadGroup ==
  ASSUME Typed, NEW p \in Procs, proc[p].at \in Requests, ReadGroup(p)
  PROVE  /\ Reads /\ OnlyProc(p) /\ SameTask(p) /\ UNCHANGED decisions /\ Typed'
         /\ proc'[p].todo = proc[p].todo /\ proc'[p].at = proc[p].at
         /\ proc'[p].stage = "group" /\ proc'[p].seen = group[proc[p].at]
<1>1. Reads /\ UNCHANGED decisions
  BY DEF ReadGroup, Reads
<1>2. proc' \in [Procs -> ProcRow]
  <2>1. group[proc[p].at] \in GroupRow
    BY DEF Typed
  <2>2. [proc[p] EXCEPT !.stage = "group", !.seen = group[proc[p].at]] \in ProcRow
    BY <2>1 DEF Typed, ProcRow
  <2>3. proc' = [proc EXCEPT ![p] = [proc[p] EXCEPT !.stage = "group", !.seen = group[proc[p].at]]]
    BY DEF ReadGroup, Typed
  <2>. QED
    BY <2>2, <2>3 DEF Typed
<1>. QED
  BY <1>1, <1>2 DEF ReadGroup, Reads, OnlyProc, SameTask, Typed, ProcRow

\* A correction writes the outcome that was read, or nothing.
LEMMA DoCorrectGroup ==
  ASSUME Typed, NEW p \in Procs, proc[p].at \in Requests, CorrectGroup(p)
  PROVE  /\ OnlyProc(p) /\ SameTask(p) /\ Typed'
         /\ UNCHANGED <<quantity, request, cancelled, allocated, decisions>>
         /\ faults' \in {faults, faults \union {"reopened"}}
         /\ proc[p].stage = "group" /\ proc'[p].stage = "request"
         /\ proc'[p].todo = proc[p].todo /\ proc'[p].at = proc[p].at /\ proc'[p].seen = proc[p].seen
         /\ \/ UNCHANGED group
            \/ /\ OnlyGroup(proc[p].at)
               /\ DerivedProgress(proc[p].seen) # proc[p].seen.progress
               /\ group'[proc[p].at].outcome = proc[p].seen.outcome
               /\ "reopened" \notin faults' =>
                     (group[proc[p].at].outcome = "CANCELLED" => proc[p].seen.outcome = "CANCELLED")
<1>1. /\ UNCHANGED <<quantity, request, cancelled, allocated, decisions>>
      /\ faults' \in {faults, faults \union {"reopened"}}
      /\ proc[p].stage = "group"
  BY DEF CorrectGroup
<1>2. /\ OnlyProc(p) /\ SameTask(p) /\ proc'[p].stage = "request" /\ proc' \in [Procs -> ProcRow]
      /\ proc'[p].todo = proc[p].todo /\ proc'[p].at = proc[p].at /\ proc'[p].seen = proc[p].seen
  BY DEF CorrectGroup, Typed, ProcRow, OnlyProc, SameTask
<1>3. proc[p].seen \in GroupRow
  BY DEF Typed, ProcRow
<1>4. DerivedProgress(proc[p].seen) \in Progress
  BY DEF DerivedProgress, Progress
<1>5. CASE UNCHANGED <<group, faults>>
  BY <1>1, <1>2, <1>5 DEF Typed
<1>6. CASE /\ DerivedProgress(proc[p].seen) # proc[p].seen.progress
           /\ group' = [group EXCEPT ![proc[p].at].progress = DerivedProgress(proc[p].seen),
                                     ![proc[p].at].outcome = proc[p].seen.outcome]
           /\ faults' = IF group[proc[p].at].outcome = "CANCELLED" /\ proc[p].seen.outcome # "CANCELLED"
                        THEN faults \union {"reopened"} ELSE faults
  <2>1. group' \in [Requests -> GroupRow] /\ OnlyGroup(proc[p].at)
        /\ group'[proc[p].at].outcome = proc[p].seen.outcome
    BY <1>3, <1>4, <1>6 DEF Typed, GroupRow, OnlyGroup
  <2>. QED
    BY <1>1, <1>2, <1>6, <2>1 DEF Typed
<1>. QED
  BY <1>5, <1>6 DEF CorrectGroup

\* The request gets the outcome of the group that was read.
LEMMA DoWriteRequest ==
  ASSUME Typed, NEW p \in Procs, proc[p].at \in Requests, WriteRequest(p)
  PROVE  /\ OnlyProc(p) /\ OnlyRequest(proc[p].at) /\ SameLines /\ Typed'
         /\ UNCHANGED <<quantity, group, cancelled, allocated, faults, decisions>>
         /\ proc[p].stage = "request" /\ proc'[p].stage = "pick"
         /\ \/ proc'[p] = Idle
            \/ SameTask(p) /\ proc'[p].todo = proc[p].todo
         /\ request'[proc[p].at].outcome = proc[p].seen.outcome
<1>1. UNCHANGED <<quantity, group, cancelled, allocated, faults, decisions>> /\ proc[p].stage = "request"
  BY DEF WriteRequest
<1>2. /\ OnlyProc(p) /\ proc'[p].stage = "pick" /\ proc' \in [Procs -> ProcRow]
      /\ \/ proc'[p] = Idle
         \/ SameTask(p) /\ proc'[p].todo = proc[p].todo
  <2>1. [proc[p] EXCEPT !.at = None, !.stage = "pick", !.seen = NewGroup] \in ProcRow
    BY Blanks DEF Typed, ProcRow
  <2>2. CASE proc' = [proc EXCEPT ![p] = Idle]
    BY <2>2, Blanks DEF Typed, OnlyProc, Idle
  <2>3. CASE proc' = [proc EXCEPT ![p] = [@ EXCEPT !.at = None, !.stage = "pick", !.seen = NewGroup]]
    BY <2>1, <2>3 DEF Typed, OnlyProc, SameTask, ProcRow
  <2>. QED
    BY <2>2, <2>3 DEF WriteRequest
<1>3. proc[p].seen.outcome \in Outcomes
  BY DEF Typed, ProcRow, GroupRow
<1>4. /\ request' \in [Requests -> RequestRow] /\ OnlyRequest(proc[p].at) /\ SameLines
      /\ request'[proc[p].at].outcome = proc[p].seen.outcome
  BY <1>3 DEF WriteRequest, Typed, RequestRow, OnlyRequest, SameLines
<1>. QED
  BY <1>1, <1>2, <1>4 DEF Typed

\* A reservation gives a request without a line its units.
LEMMA DoReserve ==
  ASSUME Typed, NEW p \in Procs, NEW r \in Requests, NEW n \in 1..Purchased, Reserve(p, r, n)
  PROVE  /\ Turns(p, r) /\ OnlyRequest(r) /\ proc'[p].job = "desk" /\ Typed'
         /\ UNCHANGED <<quantity, group, cancelled, allocated, faults, decisions>>
         /\ ~HasLine(r) /\ n <= Available(r)
         /\ request'[r].reserved = n /\ request'[r].outcome = "UNDECIDED"
<1>1. UNCHANGED <<quantity, group, cancelled, allocated, faults, decisions>> /\ ~HasLine(r) /\ n <= Available(r)
  BY DEF Reserve
<1>2. Turns(p, r) /\ proc'[p].job = "desk" /\ proc' \in [Procs -> ProcRow]
  BY DeskTurns DEF Reserve
<1>3. n \in 0..Purchased
  BY PurchasedIsNat
<1>4. /\ request' \in [Requests -> RequestRow] /\ OnlyRequest(r)
      /\ request'[r].reserved = n /\ request'[r].outcome = "UNDECIDED"
  BY <1>3 DEF Reserve, Typed, RequestRow, Outcomes, OnlyRequest
<1>. QED
  BY <1>1, <1>2, <1>4 DEF Typed

\* A reservation that fails leaves the lines.
LEMMA DoReserveFails ==
  ASSUME Typed, NEW r \in Requests, ReserveFails(r)
  PROVE  /\ SameLines /\ Typed'
         /\ \A q \in Requests : request'[q].outcome = request[q].outcome
         /\ UNCHANGED <<quantity, group, cancelled, allocated, proc, faults, decisions>>
  BY DEF ReserveFails, Typed, RequestRow, SameLines

\* A review writes an outcome to one group.
LEMMA DoReview ==
  ASSUME Typed, NEW p \in Procs, NEW r \in Requests, Review(p, r)
  PROVE  /\ Turns(p, r) /\ OnlyGroup(r) /\ proc'[p].job = "desk" /\ Typed'
         /\ UNCHANGED <<quantity, request, cancelled, allocated>> /\ decisions' = decisions + 1
         /\ HasLine(r) /\ decisions < MaxDecisions
         /\ faults' \in {faults, faults \union {"reopened"}}
         /\ "reopened" \notin faults' /\ group[r].outcome = "CANCELLED" => group'[r].outcome = "CANCELLED"
<1>1. /\ UNCHANGED <<quantity, request, cancelled, allocated>> /\ decisions' = decisions + 1
      /\ HasLine(r) /\ decisions < MaxDecisions
  BY DEF Review
<1>2. Turns(p, r) /\ proc'[p].job = "desk" /\ proc' \in [Procs -> ProcRow]
  BY DeskTurns DEF Review
<1>3. PICK o \in Outcomes :
         /\ group' = [group EXCEPT ![r].outcome = o]
         /\ faults' = IF group[r].outcome = "CANCELLED" /\ o # "CANCELLED" THEN faults \union {"reopened"} ELSE faults
  BY DEF Review
<1>4. group' \in [Requests -> GroupRow] /\ OnlyGroup(r) /\ group'[r].outcome = o
  BY <1>3 DEF Typed, GroupRow, OnlyGroup
<1>. QED
  BY <1>1, <1>2, <1>3, <1>4 DEF Typed

\* Instructions leave the outcome of their group.
LEMMA DoSendInstructions ==
  ASSUME Typed, NEW p \in Procs, NEW r \in Requests, SendInstructions(p, r)
  PROVE  /\ Turns(p, r) /\ OnlyGroup(r) /\ proc'[p].job = "desk" /\ Typed'
         /\ UNCHANGED <<quantity, request, cancelled, allocated, faults>> /\ decisions' = decisions + 1
         /\ HasLine(r) /\ decisions < MaxDecisions
         /\ group'[r].outcome = group[r].outcome
<1>1. /\ UNCHANGED <<quantity, request, cancelled, allocated, faults>> /\ decisions' = decisions + 1
      /\ HasLine(r) /\ decisions < MaxDecisions
  BY DEF SendInstructions
<1>2. Turns(p, r) /\ proc'[p].job = "desk" /\ proc' \in [Procs -> ProcRow]
  BY DeskTurns DEF SendInstructions
<1>3. group' \in [Requests -> GroupRow] /\ OnlyGroup(r) /\ group'[r].outcome = group[r].outcome
  BY DEF SendInstructions, Typed, GroupRow, OnlyGroup
<1>. QED
  BY <1>1, <1>2, <1>3 DEF Typed

\* A refund gives back units once.
LEMMA DoRefund ==
  ASSUME Typed, NEW f \in Refunds, Refund(f)
  PROVE  /\ UNCHANGED <<request, group, cancelled, allocated, proc, faults, decisions>> /\ Typed'
         /\ quantity[f] = 0 /\ quantity'[f] > 0
         /\ \A g \in Refunds : g # f => quantity'[g] = quantity[g]
<1>1. PICK n \in 1..(Purchased - Refunded) : quantity' = [quantity EXCEPT ![f] = n]
  BY DEF Refund
<1>2. n \in 0..Purchased /\ n > 0
  BY RefundedIsNat, PurchasedIsNat
<1>. QED
  BY <1>1, <1>2 DEF Refund, Typed

\* A delivery reads the open units, and goes to requests with a share.
LEMMA DoBeginReconcile ==
  ASSUME Typed, NEW p \in Procs, NEW f \in Refunds, BeginReconcile(p, f)
  PROVE  /\ Reads /\ OnlyProc(p) /\ UNCHANGED decisions /\ Typed'
         /\ proc'[p].job = "refund" /\ proc'[p].refund = f /\ proc'[p].stage = "pick"
         /\ quantity[f] > 0 /\ proc'[p].done = {}
         /\ \A r \in Requests : proc'[p].units[r] = OpenUnits(r)
         /\ proc'[p].todo \subseteq {r \in Requests : Share(proc'[p].units, r, quantity[f]) > 0}
<1>. DEFINE units == [r \in Requests |-> OpenUnits(r)]
            todo == {r \in InWorkflow \ Recorded(f) : Share(units, r, quantity[f]) > 0}
            row == [Idle EXCEPT !.job = "refund", !.refund = f, !.units = units, !.todo = todo]
<1>1. Reads /\ UNCHANGED decisions /\ quantity[f] > 0 /\ proc' = [proc EXCEPT ![p] = row]
  BY DEF BeginReconcile, Reads
<1>2. units \in Units
  BY OpenUnitsFit DEF Units
<1>3. todo \subseteq {r \in Requests : Share(units, r, quantity[f]) > 0}
  BY DEF InWorkflow
<1>4. todo \in SUBSET Requests
  BY DEF InWorkflow
<1>5. \A r \in Requests : units[r] = OpenUnits(r)
  OBVIOUS
<1>. HIDE DEF units, todo
<1>6. /\ row \in ProcRow
      /\ row.job = "refund" /\ row.refund = f /\ row.stage = "pick" /\ row.done = {}
      /\ row.units = units /\ row.todo = todo
  BY <1>2, <1>4, Blanks DEF ProcRow, Idle
<1>. HIDE DEF row
<1>7. proc'[p] = row /\ OnlyProc(p) /\ proc' \in [Procs -> ProcRow]
  BY <1>1, <1>6 DEF Typed, OnlyProc
<1>8. Typed'
  BY <1>1, <1>7 DEF Typed, Reads
<1>. QED
  BY <1>1, <1>3, <1>5, <1>6, <1>7, <1>8

\* An upsert records the share of a request that has no event.
LEMMA DoRecordRefund ==
  ASSUME Typed, NEW p \in Procs, NEW r \in Requests, proc[p].refund \in Refunds, RecordRefund(p, r)
  PROVE  /\ Turns(p, r) /\ Typed' /\ r \in proc[p].todo
         /\ UNCHANGED <<quantity, request, group, cancelled, decisions>>
         /\ proc[p].job = "refund" /\ proc'[p].job = "refund"
         /\ proc'[p].refund = proc[p].refund /\ proc'[p].units = proc[p].units
         /\ proc'[p].todo \subseteq proc[p].todo
         /\ FaultsStay /\ faults' \subseteq faults \union {"again", "overlap"}
         /\ \/ allocated[r][proc[p].refund] # 0 /\ UNCHANGED allocated /\ proc'[p].done = proc[p].done
            \/ /\ allocated[r][proc[p].refund] = 0
               /\ proc'[p].done = proc[p].done \union {r}
               /\ allocated'[r][proc[p].refund] = Share(proc[p].units, r, quantity[proc[p].refund])
               /\ \A q \in Requests, f \in Refunds :
                     q # r \/ f # proc[p].refund => allocated'[q][f] = allocated[q][f]
               /\ "again" \notin faults' => Recorded(proc[p].refund) \subseteq proc[p].done
               /\ "overlap" \notin faults' => OpenUnits(r) = proc[p].units[r]
<1>. DEFINE f == proc[p].refund
            new == allocated[r][f] = 0
            share == Share(proc[p].units, r, quantity[f])
<1>1. /\ UNCHANGED <<quantity, request, group, cancelled, decisions>>
      /\ proc[p].job = "refund" /\ r \in proc[p].todo
      /\ FaultsStay /\ faults' \subseteq faults \union {"again", "overlap"}
      /\ new /\ "again" \notin faults' => Recorded(f) \subseteq proc[p].done
      /\ new /\ "overlap" \notin faults' => OpenUnits(r) = proc[p].units[r]
  BY DEF RecordRefund, FaultsStay
<1>2. /\ Turns(p, r) /\ proc' \in [Procs -> ProcRow] /\ proc'[p].job = "refund"
      /\ proc'[p].refund = proc[p].refund /\ proc'[p].units = proc[p].units
      /\ proc'[p].todo \subseteq proc[p].todo
      /\ proc'[p].done = IF new THEN proc[p].done \union {r} ELSE proc[p].done
  BY <1>1 DEF RecordRefund, Typed, ProcRow, Turns, OnlyProc
<1>3. share \in 0..Purchased
  <2>1. proc[p].units \in Units /\ quantity[f] \in Nat
    BY PurchasedIsNat DEF Typed, ProcRow
  <2>2. proc[p].units[r] \in 0..Purchased
    BY <2>1 DEF Units
  <2>. QED
    BY <2>1, <2>2, ShareFits, PurchasedIsNat
<1>4. CASE ~new
  <2>1. UNCHANGED allocated
    BY <1>4 DEF RecordRefund
  <2>2. Typed'
    BY <1>1, <1>2, <2>1 DEF Typed
  <2>. QED
    BY <1>1, <1>2, <1>4, <2>1, <2>2
<1>5. CASE new
  <2>1. allocated' = [allocated EXCEPT ![r][f] = share]
    BY <1>5 DEF RecordRefund
  <2>. HIDE DEF share
  <2>2. /\ allocated' \in [Requests -> [Refunds -> 0..Purchased]]
        /\ allocated'[r][f] = share
        /\ \A q \in Requests, g \in Refunds : q # r \/ g # f => allocated'[q][g] = allocated[q][g]
    BY <1>3, <2>1 DEF Typed
  <2>3. Typed'
    BY <1>1, <1>2, <2>2 DEF Typed
  <2>. QED
    BY <1>1, <1>2, <1>5, <2>2, <2>3 DEF share
<1>. QED
  BY <1>4, <1>5

\* A cancellation reads the lines and the position.
LEMMA DoBeginCancellation ==
  ASSUME Typed, Counted, NEW p \in Procs, BeginCancellation(p)
  PROVE  /\ Reads /\ OnlyProc(p) /\ decisions' = decisions + 1 /\ decisions < MaxDecisions /\ Typed'
         /\ proc'[p].job = "cancel" /\ proc'[p].stage = "pick"
<1>. DEFINE units == [r \in Requests |-> request[r].reserved]
            row == [Idle EXCEPT !.job = "cancel", !.todo = InWorkflow, !.base = cancelled, !.units = units]
<1>1. Reads /\ decisions' = decisions + 1 /\ decisions < MaxDecisions /\ proc' = [proc EXCEPT ![p] = row]
  BY DEF BeginCancellation, Reads
<1>2. units \in Units /\ InWorkflow \in SUBSET Requests
  BY DEF Typed, Units, RequestRow, InWorkflow
<1>. HIDE DEF units
<1>3. row \in ProcRow /\ row.job = "cancel" /\ row.stage = "pick"
  BY <1>2, Blanks DEF ProcRow, Idle, Counted
<1>. HIDE DEF row
<1>. QED
  BY <1>1, <1>3 DEF Typed, OnlyProc, Reads

\* A cancellation writes no outcome but CANCELLED, and only to a line.
LEMMA DoCancelRequest ==
  ASSUME Typed, Counted, NEW p \in Procs, NEW r \in Requests, CancelRequest(p, r)
  PROVE  /\ Turns(p, r) /\ OnlyGroup(r) /\ Typed' /\ cancelled' \in 0..Purchased
         /\ UNCHANGED <<quantity, request, allocated, faults, decisions>>
         /\ proc'[p].job = "cancel"
         /\ ~HasLine(r) => group'[r] = group[r]
         /\ group'[r].outcome \in {group[r].outcome, "CANCELLED"}
<1>1. UNCHANGED <<quantity, request, allocated, faults, decisions>>
  BY DEF CancelRequest
<1>2. Turns(p, r) /\ proc'[p].job = "cancel" /\ proc' \in [Procs -> ProcRow]
  BY DEF CancelRequest, Typed, ProcRow, Turns, OnlyProc
<1>3. proc[p].units[r] \in 0..Purchased /\ proc[p].base \in 0..Purchased
  BY DEF Typed, ProcRow, Units
<1>4. cancelled' \in 0..Purchased
  BY <1>3 DEF CancelRequest, Counted
<1>5. group' \in {group, [group EXCEPT ![r].outcome = "CANCELLED", ![r].progress = "COMPLETED"]}
      /\ (~HasLine(r) => group' = group)
  BY DEF CancelRequest
<1>6. /\ group' \in [Requests -> GroupRow] /\ OnlyGroup(r) /\ (~HasLine(r) => group'[r] = group[r])
      /\ group'[r].outcome \in {group[r].outcome, "CANCELLED"}
  BY <1>5 DEF Typed, GroupRow, OnlyGroup, Outcomes, Progress
<1>. QED
  BY <1>1, <1>2, <1>4, <1>6 DEF Typed

\* A process that dies leaves the rows.
LEMMA DoDie ==
  ASSUME Typed, NEW p \in Procs, Die(p)
  PROVE  Reads /\ OnlyProc(p) /\ UNCHANGED decisions /\ proc'[p] = Idle /\ Typed'
  BY Blanks DEF Die, Reads, OnlyProc, Typed

-----------------------------------------------------------------------------
(* Every step keeps the invariant *)

\* The variables keep their types.
LEMMA CountsStay ==
  ASSUME TypeOK, AtWork, Next
  PROVE  Typed' /\ Counted'
<1>1. Typed /\ Counted
  BY Parts
<1>2. \A p \in Procs : proc[p].stage # "pick" => proc[p].at \in Requests
  BY DEF AtWork
<1>3. \A p \in Procs : proc[p].job = "refund" => proc[p].refund \in Refunds
  BY DEF AtWork
<1>4. ASSUME NEW p \in Procs, ReadGroup(p) PROVE Typed' /\ Counted'
  <2>1. proc[p].at \in Requests
    BY <1>4, <1>2, <1>3 DEF ReadGroup
  <2>. QED
    BY <1>4, <1>1, <2>1, DoReadGroup DEF Counted, Reads
<1>5. ASSUME NEW p \in Procs, CorrectGroup(p) PROVE Typed' /\ Counted'
  <2>1. proc[p].at \in Requests
    BY <1>5, <1>2, <1>3 DEF CorrectGroup
  <2>. QED
    BY <1>5, <1>1, <2>1, DoCorrectGroup DEF Counted, Reads
<1>6. ASSUME NEW p \in Procs, WriteRequest(p) PROVE Typed' /\ Counted'
  <2>1. proc[p].at \in Requests
    BY <1>6, <1>2, <1>3 DEF WriteRequest
  <2>. QED
    BY <1>6, <1>1, <2>1, DoWriteRequest DEF Counted, Reads
<1>7. ASSUME NEW p \in Procs, BeginCancellation(p) PROVE Typed' /\ Counted'
  <2>1. Typed' /\ decisions' = decisions + 1 /\ decisions < MaxDecisions
    BY <1>7, <1>1, DoBeginCancellation
  <2>2. decisions' \in 0..MaxDecisions
    BY <1>1, <2>1, DecisionBoundIsNat DEF Counted
  <2>. QED
    BY <1>7, <1>1, <2>1, <2>2, DoBeginCancellation DEF Counted, Reads
<1>8. ASSUME NEW p \in Procs, Die(p) PROVE Typed' /\ Counted'
  BY <1>8, <1>1, DoDie DEF Counted, Reads
<1>9. ASSUME NEW p \in Procs, NEW f \in Refunds, BeginReconcile(p, f) PROVE Typed' /\ Counted'
  BY <1>9, <1>1, DoBeginReconcile DEF Counted, Reads
<1>10. ASSUME NEW p \in Procs, NEW r \in Requests, NEW n \in 1..Purchased, Reserve(p, r, n) PROVE Typed' /\
   Counted'
  BY <1>10, <1>1, DoReserve DEF Counted, Reads
<1>11. ASSUME NEW p \in Procs, NEW r \in Requests, Review(p, r) PROVE Typed' /\ Counted'
  <2>1. Typed' /\ decisions' = decisions + 1 /\ decisions < MaxDecisions
    BY <1>11, <1>1, DoReview
  <2>2. decisions' \in 0..MaxDecisions
    BY <1>1, <2>1, DecisionBoundIsNat DEF Counted
  <2>. QED
    BY <1>11, <1>1, <2>1, <2>2, DoReview DEF Counted
<1>12. ASSUME NEW p \in Procs, NEW r \in Requests, SendInstructions(p, r) PROVE Typed' /\ Counted'
  <2>1. Typed' /\ decisions' = decisions + 1 /\ decisions < MaxDecisions
    BY <1>12, <1>1, DoSendInstructions
  <2>2. decisions' \in 0..MaxDecisions
    BY <1>1, <2>1, DecisionBoundIsNat DEF Counted
  <2>. QED
    BY <1>12, <1>1, <2>1, <2>2, DoSendInstructions DEF Counted
<1>13. ASSUME NEW p \in Procs, NEW r \in Requests, RecordRefund(p, r) PROVE Typed' /\ Counted'
  <2>1. proc[p].refund \in Refunds
    BY <1>13, <1>2, <1>3 DEF RecordRefund
  <2>. QED
    BY <1>13, <1>1, <2>1, DoRecordRefund DEF Counted, Reads, FaultsStay
<1>14. ASSUME NEW p \in Procs, NEW r \in Requests, CancelRequest(p, r) PROVE Typed' /\ Counted'
  BY <1>14, <1>1, DoCancelRequest DEF Counted, Reads
<1>15. ASSUME NEW r \in Requests, ReserveFails(r) PROVE Typed' /\ Counted'
  BY <1>15, <1>1, DoReserveFails DEF Counted, Reads
<1>16. ASSUME NEW f \in Refunds, Refund(f) PROVE Typed' /\ Counted'
  BY <1>16, <1>1, DoRefund DEF Counted, Reads
<1>. QED
  BY <1>4, <1>5, <1>6, <1>7, <1>8, <1>9, <1>10, <1>11, <1>12, <1>13, <1>14, <1>15, <1>16 DEF Next, ProcStep

\* A group without a line is never decided.
LEMMA LinelessStays ==
  ASSUME TypeOK, AtWork, Next
  PROVE  Lineless'
<1>1. Typed /\ Counted
  BY Parts
<1>2. \A p \in Procs : proc[p].stage # "pick" => proc[p].at \in Requests
  BY DEF AtWork
<1>3. \A p \in Procs : proc[p].job = "refund" => proc[p].refund \in Refunds
  BY DEF AtWork
<1>4. Lineless /\ \A p \in Procs : proc[p].stage = "group" /\ ~HasLine(proc[p].at) => proc[p].seen = NewGroup
  BY Parts DEF AtWork
<1>5. ASSUME NEW p \in Procs, ReadGroup(p) PROVE Lineless'
  <2>1. proc[p].at \in Requests
    BY <1>5, <1>2, <1>3 DEF ReadGroup
  <2>. QED
    BY <1>5, <1>1, <2>1, DoReadGroup, <1>4 DEF Lineless, HasLine, Reads
<1>6. ASSUME NEW p \in Procs, CorrectGroup(p) PROVE Lineless'
  <2>1. proc[p].at \in Requests
    BY <1>6, <1>2, <1>3 DEF CorrectGroup
  <2>. QED
    BY <1>6, <1>1, <2>1, DoCorrectGroup, Blanks, <1>4 DEF Lineless, HasLine, OnlyGroup
<1>7. ASSUME NEW p \in Procs, WriteRequest(p) PROVE Lineless'
  <2>1. proc[p].at \in Requests
    BY <1>7, <1>2, <1>3 DEF WriteRequest
  <2>. QED
    BY <1>7, <1>1, <2>1, DoWriteRequest, <1>4 DEF Lineless, HasLine, OnlyRequest, SameLines
<1>8. ASSUME NEW p \in Procs, BeginCancellation(p) PROVE Lineless'
  BY <1>8, <1>1, DoBeginCancellation, <1>4 DEF Lineless, HasLine, Reads
<1>9. ASSUME NEW p \in Procs, Die(p) PROVE Lineless'
  BY <1>9, <1>1, DoDie, <1>4 DEF Lineless, HasLine, Reads
<1>10. ASSUME NEW p \in Procs, NEW f \in Refunds, BeginReconcile(p, f) PROVE Lineless'
  BY <1>10, <1>1, DoBeginReconcile, <1>4 DEF Lineless, HasLine, Reads
<1>11. ASSUME NEW p \in Procs, NEW r \in Requests, NEW n \in 1..Purchased, Reserve(p, r, n) PROVE Lineless'
  BY <1>11, <1>1, DoReserve, <1>4 DEF Lineless, HasLine, OnlyRequest
<1>12. ASSUME NEW p \in Procs, NEW r \in Requests, Review(p, r) PROVE Lineless'
  BY <1>12, <1>1, DoReview, <1>4 DEF Lineless, HasLine, OnlyGroup
<1>13. ASSUME NEW p \in Procs, NEW r \in Requests, SendInstructions(p, r) PROVE Lineless'
  BY <1>13, <1>1, DoSendInstructions, <1>4 DEF Lineless, HasLine, OnlyGroup
<1>14. ASSUME NEW p \in Procs, NEW r \in Requests, RecordRefund(p, r) PROVE Lineless'
  <2>1. proc[p].refund \in Refunds
    BY <1>14, <1>2, <1>3 DEF RecordRefund
  <2>. QED
    BY <1>14, <1>1, <2>1, DoRecordRefund, <1>4 DEF Lineless, HasLine
<1>15. ASSUME NEW p \in Procs, NEW r \in Requests, CancelRequest(p, r) PROVE Lineless'
  BY <1>15, <1>1, DoCancelRequest, <1>4 DEF Lineless, HasLine, OnlyGroup
<1>16. ASSUME NEW r \in Requests, ReserveFails(r) PROVE Lineless'
  BY <1>16, <1>1, DoReserveFails, <1>4 DEF Lineless, HasLine, SameLines
<1>17. ASSUME NEW f \in Refunds, Refund(f) PROVE Lineless'
  BY <1>17, <1>1, DoRefund, <1>4 DEF Lineless, HasLine
<1>. QED
  BY <1>5, <1>6, <1>7, <1>8, <1>9, <1>10, <1>11, <1>12, <1>13, <1>14, <1>15, <1>16, <1>17 DEF Next, ProcStep

\* Only lines with open units get a share.
LEMMA AllocatedStay ==
  ASSUME TypeOK, AtWork, SharesAreKnown, Next
  PROVE  AllocatedToLines'
<1>1. Typed /\ Counted
  BY Parts
<1>2. \A p \in Procs : proc[p].stage # "pick" => proc[p].at \in Requests
  BY DEF AtWork
<1>3. \A p \in Procs : proc[p].job = "refund" => proc[p].refund \in Refunds
  BY DEF AtWork
<1>4. AllocatedToLines
  BY Parts
<1>5. ASSUME NEW p \in Procs, ReadGroup(p) PROVE AllocatedToLines'
  <2>1. proc[p].at \in Requests
    BY <1>5, <1>2, <1>3 DEF ReadGroup
  <2>. QED
    BY <1>5, <1>1, <2>1, DoReadGroup, <1>4 DEF AllocatedToLines, HasLine, Reads
<1>6. ASSUME NEW p \in Procs, CorrectGroup(p) PROVE AllocatedToLines'
  <2>1. proc[p].at \in Requests
    BY <1>6, <1>2, <1>3 DEF CorrectGroup
  <2>. QED
    BY <1>6, <1>1, <2>1, DoCorrectGroup, <1>4 DEF AllocatedToLines, HasLine
<1>7. ASSUME NEW p \in Procs, WriteRequest(p) PROVE AllocatedToLines'
  <2>1. proc[p].at \in Requests
    BY <1>7, <1>2, <1>3 DEF WriteRequest
  <2>. QED
    BY <1>7, <1>1, <2>1, DoWriteRequest, <1>4 DEF AllocatedToLines, HasLine, OnlyRequest, SameLines
<1>8. ASSUME NEW p \in Procs, BeginCancellation(p) PROVE AllocatedToLines'
  BY <1>8, <1>1, DoBeginCancellation, <1>4 DEF AllocatedToLines, HasLine, Reads
<1>9. ASSUME NEW p \in Procs, Die(p) PROVE AllocatedToLines'
  BY <1>9, <1>1, DoDie, <1>4 DEF AllocatedToLines, HasLine, Reads
<1>10. ASSUME NEW p \in Procs, NEW f \in Refunds, BeginReconcile(p, f) PROVE AllocatedToLines'
  BY <1>10, <1>1, DoBeginReconcile, <1>4 DEF AllocatedToLines, HasLine, Reads
<1>11. ASSUME NEW p \in Procs, NEW r \in Requests, NEW n \in 1..Purchased, Reserve(p, r, n) PROVE
   AllocatedToLines'
  BY <1>11, <1>1, DoReserve, <1>4 DEF AllocatedToLines, HasLine, OnlyRequest
<1>12. ASSUME NEW p \in Procs, NEW r \in Requests, Review(p, r) PROVE AllocatedToLines'
  BY <1>12, <1>1, DoReview, <1>4 DEF AllocatedToLines, HasLine
<1>13. ASSUME NEW p \in Procs, NEW r \in Requests, SendInstructions(p, r) PROVE AllocatedToLines'
  BY <1>13, <1>1, DoSendInstructions, <1>4 DEF AllocatedToLines, HasLine
<1>14. ASSUME NEW p \in Procs, NEW r \in Requests, RecordRefund(p, r) PROVE AllocatedToLines'
  <2>1. proc[p].refund \in Refunds /\ r \in proc[p].todo /\ proc[p].job = "refund"
    BY <1>14, <1>3 DEF RecordRefund
  <2>2. Share(proc[p].units, r, quantity[proc[p].refund]) > 0
    BY <2>1 DEF SharesAreKnown
  <2>3. /\ proc[p].units \in Units /\ quantity[proc[p].refund] \in Nat
        /\ proc[p].units[r] \in Nat
    BY <1>1, <2>1, PurchasedIsNat DEF Typed, ProcRow, Units
  <2>4. proc[p].units[r] > 0 /\ Share(proc[p].units, r, quantity[proc[p].refund]) <= quantity[proc[p].refund]
    BY <2>2, <2>3, ShareFits
  <2>5. HasLine(r)
    BY <2>1, <2>4 DEF AtWork
  <2>. QED
    BY <1>14, <1>1, <1>4, <2>1, <2>4, <2>5, DoRecordRefund DEF AllocatedToLines, HasLine
<1>15. ASSUME NEW p \in Procs, NEW r \in Requests, CancelRequest(p, r) PROVE AllocatedToLines'
  BY <1>15, <1>1, DoCancelRequest, <1>4 DEF AllocatedToLines, HasLine
<1>16. ASSUME NEW r \in Requests, ReserveFails(r) PROVE AllocatedToLines'
  BY <1>16, <1>1, DoReserveFails, <1>4 DEF AllocatedToLines, HasLine, SameLines
<1>17. ASSUME NEW f \in Refunds, Refund(f) PROVE AllocatedToLines'
  <2>1. \A r \in Requests, g \in Refunds : allocated[r][g] \in Nat /\ quantity[g] \in Nat
    BY <1>1, PurchasedIsNat DEF Typed
  <2>2. \A r \in Requests : ~(allocated[r][f] > 0)
    BY <1>17, <1>1, <1>4, <2>1, DoRefund DEF AllocatedToLines
  <2>. QED
    BY <1>17, <1>1, <1>4, <2>2, DoRefund DEF AllocatedToLines, HasLine
<1>. QED
  BY <1>5, <1>6, <1>7, <1>8, <1>9, <1>10, <1>11, <1>12, <1>13, <1>14, <1>15, <1>16, <1>17 DEF Next, ProcStep

\* A process stays at a request of the order, with what it has read.
LEMMA WorkStays ==
  ASSUME TypeOK, AtWork, Next
  PROVE  AtWork'
<1>1. Typed /\ Counted
  BY Parts
<1>2. \A p \in Procs : proc[p].stage # "pick" => proc[p].at \in Requests
  BY DEF AtWork
<1>3. \A p \in Procs : proc[p].job = "refund" => proc[p].refund \in Refunds
  BY DEF AtWork
<1>4. Lineless
  BY Parts
<1>5. ASSUME NEW p \in Procs, ReadGroup(p) PROVE AtWork'
  <2>1. proc[p].at \in Requests
    BY <1>5, <1>2, <1>3 DEF ReadGroup
  <2>. QED
    BY <1>5, <1>1, <2>1, DoReadGroup, <1>4 DEF AtWork, HasLine, Lineless, Reads, OnlyProc, SameTask
<1>6. ASSUME NEW p \in Procs, CorrectGroup(p) PROVE AtWork'
  <2>1. proc[p].at \in Requests
    BY <1>6, <1>2, <1>3 DEF CorrectGroup
  <2>. QED
    BY <1>6, <1>1, <2>1, DoCorrectGroup, <1>4 DEF AtWork, HasLine, OnlyProc, SameTask, OnlyGroup
<1>7. ASSUME NEW p \in Procs, WriteRequest(p) PROVE AtWork'
  <2>1. proc[p].at \in Requests
    BY <1>7, <1>2, <1>3 DEF WriteRequest
  <2>. QED
    BY <1>7, <1>1, <2>1, DoWriteRequest, <1>4 DEF AtWork, HasLine, Idle, OnlyProc, OnlyRequest, SameLines,
       SameTask
<1>8. ASSUME NEW p \in Procs, BeginCancellation(p) PROVE AtWork'
  BY <1>8, <1>1, DoBeginCancellation, <1>4 DEF AtWork, HasLine, Reads, OnlyProc
<1>9. ASSUME NEW p \in Procs, Die(p) PROVE AtWork'
  BY <1>9, <1>1, DoDie, <1>4 DEF AtWork, HasLine, Idle, Reads, OnlyProc
<1>10. ASSUME NEW p \in Procs, NEW f \in Refunds, BeginReconcile(p, f) PROVE AtWork'
  BY <1>10, <1>1, DoBeginReconcile, OpenUnitsFit, <1>4 DEF AtWork, HasLine, Typed, RequestRow, Reads, OnlyProc
<1>11. ASSUME NEW p \in Procs, NEW r \in Requests, NEW n \in 1..Purchased, Reserve(p, r, n) PROVE AtWork'
  BY <1>11, <1>1, DoReserve, <1>4 DEF AtWork, HasLine, Turns, OnlyProc, OnlyRequest
<1>12. ASSUME NEW p \in Procs, NEW r \in Requests, Review(p, r) PROVE AtWork'
  BY <1>12, <1>1, DoReview, <1>4 DEF AtWork, HasLine, Turns, OnlyProc, OnlyGroup
<1>13. ASSUME NEW p \in Procs, NEW r \in Requests, SendInstructions(p, r) PROVE AtWork'
  BY <1>13, <1>1, DoSendInstructions, <1>4 DEF AtWork, HasLine, Turns, OnlyProc, OnlyGroup
<1>14. ASSUME NEW p \in Procs, NEW r \in Requests, RecordRefund(p, r) PROVE AtWork'
  <2>1. proc[p].refund \in Refunds
    BY <1>14, <1>2, <1>3 DEF RecordRefund
  <2>. QED
    BY <1>14, <1>1, <2>1, DoRecordRefund, <1>4 DEF AtWork, HasLine, Turns, OnlyProc, FaultsStay
<1>15. ASSUME NEW p \in Procs, NEW r \in Requests, CancelRequest(p, r) PROVE AtWork'
  BY <1>15, <1>1, DoCancelRequest, <1>4 DEF AtWork, HasLine, Turns, OnlyProc, OnlyGroup
<1>16. ASSUME NEW r \in Requests, ReserveFails(r) PROVE AtWork'
  BY <1>16, <1>1, DoReserveFails, <1>4 DEF AtWork, HasLine, SameLines
<1>17. ASSUME NEW f \in Refunds, Refund(f) PROVE AtWork'
  BY <1>17, <1>1, DoRefund, <1>4 DEF AtWork, HasLine
<1>. QED
  BY <1>5, <1>6, <1>7, <1>8, <1>9, <1>10, <1>11, <1>12, <1>13, <1>14, <1>15, <1>16, <1>17 DEF Next, ProcStep

\* A share that is recorded is not recorded again.
LEMMA SharesStay ==
  ASSUME TypeOK, AtWork, SharesAreKnown, Next
  PROVE  SharesAreKnown'
<1>1. Typed /\ Counted
  BY Parts
<1>2. \A p \in Procs : proc[p].stage # "pick" => proc[p].at \in Requests
  BY DEF AtWork
<1>3. \A p \in Procs : proc[p].job = "refund" => proc[p].refund \in Refunds
  BY DEF AtWork
<1>4. ASSUME NEW p \in Procs, ReadGroup(p) PROVE SharesAreKnown'
  <2>1. proc[p].at \in Requests
    BY <1>4, <1>2, <1>3 DEF ReadGroup
  <2>. QED
    BY <1>4, <1>1, <2>1, DoReadGroup DEF SharesAreKnown, AtWork, Reads, OnlyProc, SameTask
<1>5. ASSUME NEW p \in Procs, CorrectGroup(p) PROVE SharesAreKnown'
  <2>1. proc[p].at \in Requests
    BY <1>5, <1>2, <1>3 DEF CorrectGroup
  <2>. QED
    BY <1>5, <1>1, <2>1, DoCorrectGroup DEF SharesAreKnown, AtWork, OnlyProc, SameTask, OnlyGroup
<1>6. ASSUME NEW p \in Procs, WriteRequest(p) PROVE SharesAreKnown'
  <2>1. proc[p].at \in Requests
    BY <1>6, <1>2, <1>3 DEF WriteRequest
  <2>. QED
    BY <1>6, <1>1, <2>1, DoWriteRequest DEF SharesAreKnown, AtWork, Idle, OnlyProc, OnlyRequest, SameLines,
       SameTask
<1>7. ASSUME NEW p \in Procs, BeginCancellation(p) PROVE SharesAreKnown'
  BY <1>7, <1>1, DoBeginCancellation DEF SharesAreKnown, AtWork, Reads, OnlyProc
<1>8. ASSUME NEW p \in Procs, Die(p) PROVE SharesAreKnown'
  BY <1>8, <1>1, DoDie DEF SharesAreKnown, AtWork, Idle, Reads, OnlyProc
<1>9. ASSUME NEW p \in Procs, NEW f \in Refunds, BeginReconcile(p, f) PROVE SharesAreKnown'
  BY <1>9, <1>1, DoBeginReconcile DEF SharesAreKnown, AtWork, Reads, OnlyProc
<1>10. ASSUME NEW p \in Procs, NEW r \in Requests, NEW n \in 1..Purchased, Reserve(p, r, n) PROVE
   SharesAreKnown'
  BY <1>10, <1>1, DoReserve DEF SharesAreKnown, AtWork, Turns, OnlyProc, OnlyRequest
<1>11. ASSUME NEW p \in Procs, NEW r \in Requests, Review(p, r) PROVE SharesAreKnown'
  BY <1>11, <1>1, DoReview DEF SharesAreKnown, AtWork, Turns, OnlyProc, OnlyGroup
<1>12. ASSUME NEW p \in Procs, NEW r \in Requests, SendInstructions(p, r) PROVE SharesAreKnown'
  BY <1>12, <1>1, DoSendInstructions DEF SharesAreKnown, AtWork, Turns, OnlyProc, OnlyGroup
<1>13. ASSUME NEW p \in Procs, NEW r \in Requests, RecordRefund(p, r) PROVE SharesAreKnown'
  <2>1. proc[p].refund \in Refunds /\ r \in proc[p].todo /\ proc[p].job = "refund"
    BY <1>13, <1>3 DEF RecordRefund
  <2>2. Share(proc[p].units, r, quantity[proc[p].refund]) > 0
    BY <2>1 DEF SharesAreKnown
  <2>3. \A q \in Procs : proc[q].done \subseteq Requests
    BY <1>1 DEF Typed, ProcRow
  <2>4. ASSUME NEW q \in Procs, q # p, proc'[q].job = "refund"
        PROVE  /\ \A x \in proc'[q].todo : Share(proc'[q].units, x, quantity'[proc'[q].refund]) > 0
               /\ \A x \in proc'[q].done :
                     /\ Share(proc'[q].units, x, quantity'[proc'[q].refund]) > 0
                     /\ allocated'[x][proc'[q].refund] = Share(proc'[q].units, x, quantity'[proc'[q].refund])
    <3>1. proc'[q] = proc[q] /\ quantity' = quantity /\ proc[q].refund \in Refunds
      BY <1>13, <1>1, <1>3, <2>1, <2>4, DoRecordRefund DEF Turns, OnlyProc
    <3>2. ASSUME NEW x \in proc[q].done PROVE allocated'[x][proc[q].refund] = allocated[x][proc[q].refund]
      <4>1. x \in Requests /\ allocated[x][proc[q].refund] # 0
        BY <2>3, <2>4, <3>1 DEF SharesAreKnown
      <4>. QED
        BY <1>13, <1>1, <2>1, <3>1, <4>1, DoRecordRefund
    <3>. QED
      BY <2>4, <3>1, <3>2 DEF SharesAreKnown
  <2>5. /\ \A x \in proc'[p].todo : Share(proc'[p].units, x, quantity'[proc'[p].refund]) > 0
        /\ \A x \in proc'[p].done :
              /\ Share(proc'[p].units, x, quantity'[proc'[p].refund]) > 0
              /\ allocated'[x][proc'[p].refund] = Share(proc'[p].units, x, quantity'[proc'[p].refund])
    <3>1. /\ proc'[p].units = proc[p].units /\ quantity' = quantity /\ proc'[p].refund = proc[p].refund
          /\ proc'[p].todo \subseteq proc[p].todo
      BY <1>13, <1>1, <2>1, DoRecordRefund
    <3>2. ASSUME NEW x \in proc'[p].done
          PROVE  /\ Share(proc[p].units, x, quantity[proc[p].refund]) > 0
                 /\ allocated'[x][proc[p].refund] = Share(proc[p].units, x, quantity[proc[p].refund])
      <4>1. CASE allocated'[x][proc[p].refund] = allocated[x][proc[p].refund] /\ x \in proc[p].done
        BY <2>1, <4>1 DEF SharesAreKnown
      <4>2. CASE x = r /\ allocated'[r][proc[p].refund] = Share(proc[p].units, r, quantity[proc[p].refund])
        BY <2>2, <4>2
      <4>. QED
        BY <1>13, <1>1, <2>1, <2>3, <3>2, <4>1, <4>2, DoRecordRefund
    <3>. QED
      BY <2>1, <3>1, <3>2 DEF SharesAreKnown
  <2>. QED
    BY <2>4, <2>5 DEF SharesAreKnown
<1>14. ASSUME NEW p \in Procs, NEW r \in Requests, CancelRequest(p, r) PROVE SharesAreKnown'
  BY <1>14, <1>1, DoCancelRequest DEF SharesAreKnown, AtWork, Turns, OnlyProc, OnlyGroup
<1>15. ASSUME NEW r \in Requests, ReserveFails(r) PROVE SharesAreKnown'
  BY <1>15, <1>1, DoReserveFails DEF SharesAreKnown, AtWork, SameLines
<1>16. ASSUME NEW f \in Refunds, Refund(f) PROVE SharesAreKnown'
  BY <1>16, <1>1, DoRefund DEF SharesAreKnown, AtWork
<1>. QED
  BY <1>4, <1>5, <1>6, <1>7, <1>8, <1>9, <1>10, <1>11, <1>12, <1>13, <1>14, <1>15, <1>16 DEF Next, ProcStep

\* A request is cancelled after its group.
LEMMA CancelledStay ==
  ASSUME TypeOK, AtWork, CancelledAgree, Next
  PROVE  CancelledAgree'
<1>1. Typed /\ Counted
  BY Parts
<1>2. \A p \in Procs : proc[p].stage # "pick" => proc[p].at \in Requests
  BY DEF AtWork
<1>3. \A p \in Procs : proc[p].job = "refund" => proc[p].refund \in Refunds
  BY DEF AtWork
<1>4. ASSUME NEW p \in Procs, ReadGroup(p) PROVE CancelledAgree'
  <2>1. proc[p].at \in Requests
    BY <1>4, <1>2, <1>3 DEF ReadGroup
  <2>. QED
    BY <1>4, <1>1, <2>1, DoReadGroup DEF CancelledAgree, Reads, OnlyProc
<1>5. ASSUME NEW p \in Procs, CorrectGroup(p) PROVE CancelledAgree'
  <2>1. proc[p].at \in Requests
    BY <1>5, <1>2, <1>3 DEF CorrectGroup
  <2>. QED
    BY <1>5, <1>1, <2>1, DoCorrectGroup, <1>2 DEF CancelledAgree, OnlyProc, OnlyGroup
<1>6. ASSUME NEW p \in Procs, WriteRequest(p) PROVE CancelledAgree'
  <2>1. proc[p].at \in Requests
    BY <1>6, <1>2, <1>3 DEF WriteRequest
  <2>. QED
    BY <1>6, <1>1, <2>1, DoWriteRequest DEF CancelledAgree, OnlyProc, OnlyRequest
<1>7. ASSUME NEW p \in Procs, BeginCancellation(p) PROVE CancelledAgree'
  BY <1>7, <1>1, DoBeginCancellation DEF CancelledAgree, Reads, OnlyProc
<1>8. ASSUME NEW p \in Procs, Die(p) PROVE CancelledAgree'
  BY <1>8, <1>1, DoDie DEF CancelledAgree, Idle, Reads, OnlyProc
<1>9. ASSUME NEW p \in Procs, NEW f \in Refunds, BeginReconcile(p, f) PROVE CancelledAgree'
  BY <1>9, <1>1, DoBeginReconcile DEF CancelledAgree, Reads, OnlyProc
<1>10. ASSUME NEW p \in Procs, NEW r \in Requests, NEW n \in 1..Purchased, Reserve(p, r, n) PROVE
   CancelledAgree'
  BY <1>10, <1>1, DoReserve DEF CancelledAgree, Turns, OnlyProc, OnlyRequest
<1>11. ASSUME NEW p \in Procs, NEW r \in Requests, Review(p, r) PROVE CancelledAgree'
  BY <1>11, <1>1, DoReview, <1>2 DEF CancelledAgree, Turns, OnlyProc, OnlyGroup
<1>12. ASSUME NEW p \in Procs, NEW r \in Requests, SendInstructions(p, r) PROVE CancelledAgree'
  BY <1>12, <1>1, DoSendInstructions, <1>2 DEF CancelledAgree, Turns, OnlyProc, OnlyGroup
<1>13. ASSUME NEW p \in Procs, NEW r \in Requests, RecordRefund(p, r) PROVE CancelledAgree'
  <2>1. proc[p].refund \in Refunds
    BY <1>13, <1>2, <1>3 DEF RecordRefund
  <2>. QED
    BY <1>13, <1>1, <2>1, DoRecordRefund DEF CancelledAgree, Turns, OnlyProc, FaultsStay
<1>14. ASSUME NEW p \in Procs, NEW r \in Requests, CancelRequest(p, r) PROVE CancelledAgree'
  BY <1>14, <1>1, DoCancelRequest, <1>2 DEF CancelledAgree, Turns, OnlyProc, OnlyGroup
<1>15. ASSUME NEW r \in Requests, ReserveFails(r) PROVE CancelledAgree'
  BY <1>15, <1>1, DoReserveFails DEF CancelledAgree
<1>16. ASSUME NEW f \in Refunds, Refund(f) PROVE CancelledAgree'
  BY <1>16, <1>1, DoRefund DEF CancelledAgree
<1>. QED
  BY <1>4, <1>5, <1>6, <1>7, <1>8, <1>9, <1>10, <1>11, <1>12, <1>13, <1>14, <1>15, <1>16 DEF Next, ProcStep

-----------------------------------------------------------------------------
(* The sums of the two properties as sums of functions *)

Held == [r \in Requests |-> request[r].reserved]
Live == {r \in Requests : group[r].outcome # "CANCELLED"}
HeldWithin == "reopened" \notin faults => Sum(Held, Live) <= Purchased

Given(f) == [r \in Requests |-> allocated[r][f]]
RefundsCover == "again" \notin faults => \A f \in Refunds : Sum(Given(f), Requests) <= quantity[f]
LinesCover == "overlap" \notin faults => \A r \in Requests : Sum(allocated[r], Refunds) <= request[r].reserved

\* The sum of the reservations property.
LEMMA HeldSums ==
  ASSUME NEW S \in SUBSET Requests
  PROVE  MapThenSumSet(LAMBDA q : request[q].reserved, S) = Sum(Held, S)
  BY DEF MapThenSumSet, MapThenFoldSet, Sum, Held

\* The reservations property as a sum over live groups.
LEMMA ReservationsAreHeld == ReservationsWithinPurchase <=> HeldWithin
<1>1. Live \in SUBSET Requests
  BY DEF Live
<1>. QED
  BY <1>1, HeldSums DEF ReservationsWithinPurchase, HeldWithin, Live

\* The same after a step.
LEMMA ReservationsAreHeldAfter == ReservationsWithinPurchase' <=> HeldWithin'
  BY ReservationsAreHeld, PTL

\* The sum of the allocations property.
LEMMA GivenSums ==
  ASSUME NEW f \in Refunds
  PROVE  MapThenSumSet(LAMBDA q : allocated[q][f], Requests) = Sum(Given(f), Requests)
  BY DEF MapThenSumSet, MapThenFoldSet, Sum, Given

\* The allocations property, refund by refund and line by line.
LEMMA AllocationsAreGiven == AllocationsAreCovered <=> RefundsCover /\ LinesCover
  BY GivenSums DEF AllocationsAreCovered, RefundsCover, LinesCover

\* The same after a step.
LEMMA AllocationsAreGivenAfter == AllocationsAreCovered' <=> RefundsCover' /\ LinesCover'
  BY AllocationsAreGiven, PTL

-----------------------------------------------------------------------------
(* No step reserves a unit twice *)

\* What requests hold are naturals.
LEMMA HeldIsNat ==
  ASSUME Typed, NEW S \in SUBSET Requests
  PROVE  /\ \A r \in Requests : Held[r] = request[r].reserved /\ Held[r] \in Nat
         /\ IsFiniteSet(S) /\ Sum(Held, S) \in Nat
<1>1. \A r \in Requests : Held[r] = request[r].reserved /\ Held[r] \in Nat
  BY PurchasedIsNat DEF Typed, RequestRow, Held
<1>. QED
  BY <1>1, SumIsNat, OrderIsFinite

\* While the lines stay, a group that is cancelled holds less.
LEMMA FewerHold ==
  ASSUME Typed, SameLines, HeldWithin,
         "reopened" \notin faults' => "reopened" \notin faults /\ Live' \subseteq Live
  PROVE  HeldWithin'
<1>. SUFFICES ASSUME "reopened" \notin faults' PROVE Sum(Held', Live') <= Purchased
  BY DEF HeldWithin
<1>1. Live \in SUBSET Requests /\ Live' \in SUBSET Requests /\ Live' \in SUBSET Live
  BY DEF Live
<1>2. \A r \in Live : Held[r] \in Nat
  BY <1>1, HeldIsNat
<1>3. IsFiniteSet(Live) /\ Sum(Held, Live) \in Nat /\ Sum(Held, Live') \in Nat
  BY <1>1, HeldIsNat
<1>4. Sum(Held, Live') <= Sum(Held, Live)
  BY <1>1, <1>2, <1>3, SumOfSubset
<1>5. Held' = Held
  BY DEF Held, SameLines
<1>. QED
  BY <1>3, <1>4, <1>5, PurchasedIsNat DEF HeldWithin

\* A line is reserved within what the requests that are not cancelled leave.
LEMMA ReserveFits ==
  ASSUME Typed, Counted, Lineless, CancelledAgree,
         NEW p \in Procs, NEW r \in Requests, NEW n \in 1..Purchased, Reserve(p, r, n)
  PROVE  HeldWithin'
<1>. DEFINE others == Live \ {r}
<1>1. /\ OnlyRequest(r) /\ UNCHANGED <<group, faults>> /\ Typed'
      /\ ~HasLine(r) /\ n <= Available(r) /\ request'[r].reserved = n
  BY DoReserve
<1>2. SUFFICES ASSUME "reopened" \notin faults PROVE Sum(Held', Live) <= Purchased
  BY <1>1 DEF HeldWithin, Live
<1>3. Live \in SUBSET Requests /\ r \in Live
  BY <1>1 DEF Live, Lineless, NewGroup
<1>4. others \in SUBSET Requests /\ others \in SUBSET StillReserved(r) /\ StillReserved(r) \in SUBSET Requests
  BY <1>2 DEF CancelledAgree, StillReserved, Live
<1>5. /\ \A q \in Requests : Held[q] \in Nat
      /\ IsFiniteSet(Live) /\ IsFiniteSet(others) /\ IsFiniteSet(StillReserved(r))
      /\ Sum(Held, others) \in Nat /\ Sum(Held, StillReserved(r)) \in Nat
  BY <1>3, <1>4, HeldIsNat
<1>6. Sum(Held, others) <= Sum(Held, StillReserved(r))
  BY <1>4, <1>5, SumOfSubset
<1>7. \A q \in Requests : Held'[q] \in Nat /\ (q # r => Held'[q] = Held[q])
  BY <1>1, PurchasedIsNat DEF Typed, RequestRow, Held, OnlyRequest
<1>8. Held'[r] = n
  BY <1>1 DEF Held
<1>. HIDE DEF others
<1>9. Sum(Held', Live) = n + Sum(Held', Live \ {r})
  BY <1>3, <1>5, <1>7, <1>8, SumWithout
<1>10. Sum(Held', others) = Sum(Held, others)
  BY <1>4, <1>5, <1>7, SumAgrees DEF others
<1>11. n + Sum(Held, StillReserved(r)) <= Purchased
  <2>1. Refunded \in Nat /\ cancelled \in Nat /\ n > 0
    BY RefundedIsNat, PurchasedIsNat DEF Counted
  <2>2. Available(r) = LET left == Purchased - Refunded - cancelled - Sum(Held, StillReserved(r))
                       IN IF left > 0 THEN left ELSE 0
    BY <1>4, HeldSums DEF Available
  <2>. QED
    BY <1>1, <1>5, <2>1, <2>2, PurchasedIsNat
<1>. QED
  BY <1>5, <1>6, <1>9, <1>10, <1>11, PurchasedIsNat DEF others

-----------------------------------------------------------------------------
(* Only the record of a refund allocates *)

\* What refunds allocate are naturals.
LEMMA GivenIsNat ==
  ASSUME Typed
  PROVE  \A f \in Refunds, r \in Requests : Given(f)[r] = allocated[r][f] /\ allocated[r][f] \in Nat
  BY PurchasedIsNat DEF Typed, Given

\* A delivery that recorded all there is of the refund shares it out once.
LEMMA RecordedWithinRefund ==
  ASSUME Typed, AtWork, SharesAreKnown, RefundsCover,
         NEW p \in Procs, NEW r \in Requests, RecordRefund(p, r)
  PROVE  RefundsCover'
<1>1. PICK f \in Refunds : proc[p].refund = f /\ proc[p].job = "refund"
  BY DEF RecordRefund, AtWork
<1>. DEFINE share == [q \in Requests |-> Share(proc[p].units, q, quantity[f])]
<1>2. /\ UNCHANGED quantity /\ FaultsStay /\ Typed' /\ r \in proc[p].todo
      /\ \/ UNCHANGED allocated
         \/ /\ allocated[r][f] = 0 /\ allocated'[r][f] = share[r]
            /\ \A q \in Requests, g \in Refunds : q # r \/ g # f => allocated'[q][g] = allocated[q][g]
            /\ "again" \notin faults' => Recorded(f) \subseteq proc[p].done
  BY <1>1, DoRecordRefund
<1>3. SUFFICES ASSUME "again" \notin faults', NEW g \in Refunds
               PROVE  Sum(Given(g)', Requests) <= quantity[g]
  BY <1>2 DEF RefundsCover
<1>4. "again" \notin faults /\ Sum(Given(g), Requests) <= quantity[g]
  BY <1>2, <1>3 DEF RefundsCover, FaultsStay
<1>5. CASE \A q \in Requests : allocated'[q][g] = allocated[q][g]
  <2>1. Given(g)' = Given(g)
    BY <1>5 DEF Given
  <2>. QED
    BY <1>4, <2>1
<1>6. CASE /\ g = f /\ allocated'[r][f] = share[r]
           /\ \A q \in Requests : q # r => allocated'[q][f] = allocated[q][f]
           /\ Recorded(f) \subseteq proc[p].done
  <2>1. proc[p].units \in Units /\ quantity[f] \in Nat
    BY <1>1, PurchasedIsNat DEF Typed, ProcRow
  <2>2. \A q \in Requests : share[q] \in Nat /\ share[q] = Share(proc[p].units, q, quantity[f])
    BY <2>1, ShareFits
  <2>3. ASSUME NEW q \in Requests PROVE Given(f)'[q] \in Nat /\ Given(f)'[q] <= share[q]
    <3>1. Given(f)'[q] = allocated'[q][f] /\ Given(f)'[q] \in Nat /\ allocated[q][f] \in Nat
      BY <1>1, <1>2, PurchasedIsNat DEF Typed, Given
    <3>2. CASE q = r
      BY <1>6, <2>2, <3>1, <3>2
    <3>3. CASE q # r /\ q \in proc[p].done
      <4>1. allocated[q][f] = share[q]
        BY <1>1, <3>3, <2>2 DEF SharesAreKnown
      <4>. QED
        BY <1>6, <2>2, <3>1, <3>3, <4>1
    <3>4. CASE q # r /\ q \notin proc[p].done
      <4>1. ~(allocated[q][f] > 0)
        BY <1>6, <3>4 DEF Recorded
      <4>. QED
        BY <1>6, <2>2, <3>1, <3>4, <4>1
    <3>. QED
      BY <3>2, <3>3, <3>4
  <2>. HIDE DEF share
  <2>4. Sum(Given(f)', Requests) <= Sum(share, Requests)
    BY <2>2, <2>3, OrderIsFinite, SumMonotonic
  <2>5. Sum(share, Requests) <= quantity[f]
    BY <2>1, <2>2, SharesFit
  <2>6. Sum(Given(f)', Requests) \in Int /\ Sum(share, Requests) \in Int
    BY <2>2, <2>3, OrderIsFinite, SumIsInt
  <2>. QED
    BY <1>6, <2>1, <2>4, <2>5, <2>6
<1>. QED
  BY <1>1, <1>2, <1>3, <1>5, <1>6

\* A share of units that are still open is within the line.
LEMMA RecordedWithinLine ==
  ASSUME Typed, AtWork, SharesAreKnown, LinesCover,
         NEW p \in Procs, NEW r \in Requests, RecordRefund(p, r)
  PROVE  LinesCover'
<1>. DEFINE f == proc[p].refund
            share == Share(proc[p].units, r, quantity[f])
<1>1. proc[p].job = "refund" /\ f \in Refunds
  BY DEF RecordRefund, AtWork
<1>2. /\ UNCHANGED request /\ FaultsStay /\ Typed' /\ r \in proc[p].todo
      /\ \/ UNCHANGED allocated
         \/ /\ allocated[r][f] = 0 /\ allocated'[r][f] = share
            /\ \A q \in Requests, g \in Refunds : q # r \/ g # f => allocated'[q][g] = allocated[q][g]
            /\ "overlap" \notin faults' => OpenUnits(r) = proc[p].units[r]
  BY <1>1, DoRecordRefund
<1>3. share > 0
  BY <1>1, <1>2 DEF SharesAreKnown
<1>4. SUFFICES ASSUME "overlap" \notin faults', NEW q \in Requests
               PROVE  Sum(allocated'[q], Refunds) <= request[q].reserved
  BY <1>2 DEF LinesCover
<1>5. Sum(allocated[q], Refunds) <= request[q].reserved
  BY <1>2, <1>4 DEF LinesCover, FaultsStay
<1>6. CASE \A g \in Refunds : allocated'[q][g] = allocated[q][g]
  <2>1. Sum(allocated'[q], Refunds) = Sum(allocated[q], Refunds)
    BY <1>6, OrderIsFinite, SumAgrees
  <2>. QED
    BY <1>5, <2>1
<1>7. CASE /\ q = r /\ allocated[r][f] = 0 /\ allocated'[r][f] = share
           /\ \A g \in Refunds : g # f => allocated'[r][g] = allocated[r][g]
           /\ OpenUnits(r) = proc[p].units[r]
  <2>1. proc[p].units \in Units /\ quantity[f] \in Nat
    BY <1>1, PurchasedIsNat DEF Typed, ProcRow
  <2>2. share \in Nat /\ share <= OpenUnits(r)
    BY <1>7, <2>1, ShareFits
  <2>. HIDE DEF share
  <2>3. \A g \in Refunds : allocated[r][g] \in Int /\ allocated'[r][g] \in Int
    BY <1>2, PurchasedIsNat DEF Typed
  <2>4. Sum(allocated'[r], Refunds) = Sum(allocated[r], Refunds) - allocated[r][f] + allocated'[r][f]
    <3>1. /\ f \in Refunds /\ IsFiniteSet(Refunds)
          /\ \A g \in Refunds : g # f => allocated'[r][g] = allocated[r][g]
      BY <1>1, <1>7, OrderIsFinite
    <3>. DEFINE before == allocated[r]
                after == allocated'[r]
    <3>2. /\ \A g \in Refunds : before[g] \in Int /\ after[g] \in Int
          /\ \A g \in Refunds : g # f => after[g] = before[g]
      BY <2>3, <3>1
    <3>. HIDE DEF before, after, f
    <3>3. Sum(after, Refunds) = Sum(before, Refunds) - before[f] + after[f]
      BY <3>1, <3>2, SumWithOne
    <3>. QED
      BY <3>3 DEF before, after
  <2>5. /\ Sum(allocated[r], Refunds) \in Nat /\ OpenUnits(r) \in Nat
        /\ OpenUnits(r) > 0 => request[r].reserved >= Sum(allocated[r], Refunds) + OpenUnits(r)
    BY OpenUnitsFit, PurchasedIsNat
  <2>6. request[r].reserved \in Nat
    BY PurchasedIsNat DEF Typed, RequestRow
  <2>. QED
    BY <1>3, <1>7, <2>2, <2>4, <2>5, <2>6
<1>. QED
  BY <1>1, <1>2, <1>4, <1>6, <1>7

\* Other steps leave the allocations, and take nothing from a refund or a line.
LEMMA AllocationsStay ==
  ASSUME Typed, UNCHANGED allocated, FaultsStay,
         \A f \in Refunds : quantity'[f] = quantity[f] \/ quantity[f] <= quantity'[f],
         \A r \in Requests : \/ request'[r].reserved = request[r].reserved
                              \/ request[r].reserved <= request'[r].reserved,
         Typed', RefundsCover, LinesCover
  PROVE  RefundsCover' /\ LinesCover'
<1>1. \A f \in Refunds : quantity[f] \in Nat /\ quantity'[f] \in Nat
  BY PurchasedIsNat DEF Typed
<1>2. \A r \in Requests : request[r].reserved \in Nat /\ request'[r].reserved \in Nat
  BY PurchasedIsNat DEF Typed, RequestRow
<1>3. \A f \in Refunds : Given(f)' = Given(f) /\ Sum(Given(f), Requests) \in Int
  <2>. SUFFICES ASSUME NEW f \in Refunds PROVE Given(f)' = Given(f) /\ Sum(Given(f), Requests) \in Int
    OBVIOUS
  <2>1. Given(f)' = Given(f)
    BY DEF Given
  <2>2. \A r \in Requests : Given(f)[r] \in Int
    BY GivenIsNat
  <2>. QED
    BY <2>1, <2>2, OrderIsFinite, SumIsInt
<1>4. \A r \in Requests : Sum(allocated[r], Refunds) \in Int
  BY OpenUnitsFit
<1>5. RefundsCover'
  BY <1>1, <1>3 DEF RefundsCover, FaultsStay
<1>6. LinesCover'
  BY <1>2, <1>4 DEF LinesCover, FaultsStay
<1>. QED
  BY <1>5, <1>6

-----------------------------------------------------------------------------
(* Every step keeps the two properties *)

\* A unit is reserved once, until a cancelled group is opened again.
LEMMA ReservationsStay ==
  ASSUME TypeOK, AtWork, CancelledAgree, HeldWithin, Next
  PROVE  HeldWithin'
<1>1. Typed /\ Counted
  BY Parts
<1>2. \A p \in Procs : proc[p].stage # "pick" => proc[p].at \in Requests
  BY DEF AtWork
<1>3. \A p \in Procs : proc[p].job = "refund" => proc[p].refund \in Refunds
  BY DEF AtWork
<1>4. CancelledAgree /\ HeldWithin
  OBVIOUS
<1>5. ASSUME NEW p \in Procs, ReadGroup(p) PROVE HeldWithin'
  <2>1. proc[p].at \in Requests
    BY <1>5, <1>2, <1>3 DEF ReadGroup
  <2>2. SameLines /\ ("reopened" \notin faults' => "reopened" \notin faults /\ Live' \subseteq Live)
    BY <1>5, <1>1, <2>1, DoReadGroup DEF Live, SameLines, Reads
  <2>. QED
    BY <1>1, <1>4, <2>2, FewerHold
<1>6. ASSUME NEW p \in Procs, CorrectGroup(p) PROVE HeldWithin'
  <2>1. proc[p].at \in Requests
    BY <1>6, <1>2, <1>3 DEF CorrectGroup
  <2>2. SameLines /\ ("reopened" \notin faults' => "reopened" \notin faults /\ Live' \subseteq Live)
    BY <1>6, <1>1, <2>1, DoCorrectGroup DEF Live, SameLines, OnlyGroup
  <2>. QED
    BY <1>1, <1>4, <2>2, FewerHold
<1>7. ASSUME NEW p \in Procs, WriteRequest(p) PROVE HeldWithin'
  <2>1. proc[p].at \in Requests
    BY <1>7, <1>2, <1>3 DEF WriteRequest
  <2>2. SameLines /\ ("reopened" \notin faults' => "reopened" \notin faults /\ Live' \subseteq Live)
    BY <1>7, <1>1, <2>1, DoWriteRequest DEF Live, SameLines
  <2>. QED
    BY <1>1, <1>4, <2>2, FewerHold
<1>8. ASSUME NEW p \in Procs, BeginCancellation(p) PROVE HeldWithin'
  <2>2. SameLines /\ ("reopened" \notin faults' => "reopened" \notin faults /\ Live' \subseteq Live)
    BY <1>8, <1>1, DoBeginCancellation DEF Live, SameLines, Reads
  <2>. QED
    BY <1>1, <1>4, <2>2, FewerHold
<1>9. ASSUME NEW p \in Procs, Die(p) PROVE HeldWithin'
  <2>2. SameLines /\ ("reopened" \notin faults' => "reopened" \notin faults /\ Live' \subseteq Live)
    BY <1>9, <1>1, DoDie DEF Live, SameLines, Reads
  <2>. QED
    BY <1>1, <1>4, <2>2, FewerHold
<1>10. ASSUME NEW p \in Procs, NEW f \in Refunds, BeginReconcile(p, f) PROVE HeldWithin'
  <2>2. SameLines /\ ("reopened" \notin faults' => "reopened" \notin faults /\ Live' \subseteq Live)
    BY <1>10, <1>1, DoBeginReconcile DEF Live, SameLines, Reads
  <2>. QED
    BY <1>1, <1>4, <2>2, FewerHold
<1>11. ASSUME NEW p \in Procs, NEW r \in Requests, NEW n \in 1..Purchased, Reserve(p, r, n) PROVE HeldWithin'
  BY <1>11, <1>1, <1>4, Parts, ReserveFits
<1>12. ASSUME NEW p \in Procs, NEW r \in Requests, Review(p, r) PROVE HeldWithin'
  <2>2. SameLines /\ ("reopened" \notin faults' => "reopened" \notin faults /\ Live' \subseteq Live)
    BY <1>12, <1>1, DoReview DEF Live, SameLines, OnlyGroup
  <2>. QED
    BY <1>1, <1>4, <2>2, FewerHold
<1>13. ASSUME NEW p \in Procs, NEW r \in Requests, SendInstructions(p, r) PROVE HeldWithin'
  <2>2. SameLines /\ ("reopened" \notin faults' => "reopened" \notin faults /\ Live' \subseteq Live)
    BY <1>13, <1>1, DoSendInstructions DEF Live, SameLines, OnlyGroup
  <2>. QED
    BY <1>1, <1>4, <2>2, FewerHold
<1>14. ASSUME NEW p \in Procs, NEW r \in Requests, RecordRefund(p, r) PROVE HeldWithin'
  <2>1. proc[p].refund \in Refunds
    BY <1>14, <1>2, <1>3 DEF RecordRefund
  <2>2. SameLines /\ ("reopened" \notin faults' => "reopened" \notin faults /\ Live' \subseteq Live)
    BY <1>14, <1>1, <2>1, DoRecordRefund DEF Live, SameLines, FaultsStay
  <2>. QED
    BY <1>1, <1>4, <2>2, FewerHold
<1>15. ASSUME NEW p \in Procs, NEW r \in Requests, CancelRequest(p, r) PROVE HeldWithin'
  <2>2. SameLines /\ ("reopened" \notin faults' => "reopened" \notin faults /\ Live' \subseteq Live)
    BY <1>15, <1>1, DoCancelRequest DEF Live, SameLines, OnlyGroup
  <2>. QED
    BY <1>1, <1>4, <2>2, FewerHold
<1>16. ASSUME NEW r \in Requests, ReserveFails(r) PROVE HeldWithin'
  <2>2. SameLines /\ ("reopened" \notin faults' => "reopened" \notin faults /\ Live' \subseteq Live)
    BY <1>16, <1>1, DoReserveFails DEF Live, SameLines
  <2>. QED
    BY <1>1, <1>4, <2>2, FewerHold
<1>17. ASSUME NEW f \in Refunds, Refund(f) PROVE HeldWithin'
  <2>2. SameLines /\ ("reopened" \notin faults' => "reopened" \notin faults /\ Live' \subseteq Live)
    BY <1>17, <1>1, DoRefund DEF Live, SameLines
  <2>. QED
    BY <1>1, <1>4, <2>2, FewerHold
<1>. QED
  BY <1>5, <1>6, <1>7, <1>8, <1>9, <1>10, <1>11, <1>12, <1>13, <1>14, <1>15, <1>16, <1>17 DEF Next, ProcStep

\* A refund is shared out once, and no line gets back more than it reserved.
LEMMA AllocationsKept ==
  ASSUME TypeOK, AtWork, SharesAreKnown, RefundsCover, LinesCover, Next
  PROVE  RefundsCover' /\ LinesCover'
<1>1. Typed /\ Counted
  BY Parts
<1>2. \A p \in Procs : proc[p].stage # "pick" => proc[p].at \in Requests
  BY DEF AtWork
<1>3. \A p \in Procs : proc[p].job = "refund" => proc[p].refund \in Refunds
  BY DEF AtWork
<1>4. AtWork /\ SharesAreKnown /\ RefundsCover /\ LinesCover
  OBVIOUS
<1>5. ASSUME NEW p \in Procs, ReadGroup(p) PROVE RefundsCover' /\ LinesCover'
  <2>1. proc[p].at \in Requests
    BY <1>5, <1>2, <1>3 DEF ReadGroup
  <2>2. /\ Typed' /\ FaultsStay /\ UNCHANGED <<allocated, quantity>>
        /\ \A q \in Requests : request'[q].reserved = request[q].reserved
    BY <1>5, <1>1, <2>1, DoReadGroup DEF FaultsStay, Reads
  <2>. QED
    BY <1>1, <1>4, <2>2, AllocationsStay
<1>6. ASSUME NEW p \in Procs, CorrectGroup(p) PROVE RefundsCover' /\ LinesCover'
  <2>1. proc[p].at \in Requests
    BY <1>6, <1>2, <1>3 DEF CorrectGroup
  <2>2. /\ Typed' /\ FaultsStay /\ UNCHANGED <<allocated, quantity>>
        /\ \A q \in Requests : request'[q].reserved = request[q].reserved
    BY <1>6, <1>1, <2>1, DoCorrectGroup DEF FaultsStay
  <2>. QED
    BY <1>1, <1>4, <2>2, AllocationsStay
<1>7. ASSUME NEW p \in Procs, WriteRequest(p) PROVE RefundsCover' /\ LinesCover'
  <2>1. proc[p].at \in Requests
    BY <1>7, <1>2, <1>3 DEF WriteRequest
  <2>2. /\ Typed' /\ FaultsStay /\ UNCHANGED <<allocated, quantity>>
        /\ \A q \in Requests : request'[q].reserved = request[q].reserved
    BY <1>7, <1>1, <2>1, DoWriteRequest DEF FaultsStay, SameLines
  <2>. QED
    BY <1>1, <1>4, <2>2, AllocationsStay
<1>8. ASSUME NEW p \in Procs, BeginCancellation(p) PROVE RefundsCover' /\ LinesCover'
  <2>2. /\ Typed' /\ FaultsStay /\ UNCHANGED <<allocated, quantity>>
        /\ \A q \in Requests : request'[q].reserved = request[q].reserved
    BY <1>8, <1>1, DoBeginCancellation DEF FaultsStay, Reads
  <2>. QED
    BY <1>1, <1>4, <2>2, AllocationsStay
<1>9. ASSUME NEW p \in Procs, Die(p) PROVE RefundsCover' /\ LinesCover'
  <2>2. /\ Typed' /\ FaultsStay /\ UNCHANGED <<allocated, quantity>>
        /\ \A q \in Requests : request'[q].reserved = request[q].reserved
    BY <1>9, <1>1, DoDie DEF FaultsStay, Reads
  <2>. QED
    BY <1>1, <1>4, <2>2, AllocationsStay
<1>10. ASSUME NEW p \in Procs, NEW f \in Refunds, BeginReconcile(p, f) PROVE RefundsCover' /\ LinesCover'
  <2>2. /\ Typed' /\ FaultsStay /\ UNCHANGED <<allocated, quantity>>
        /\ \A q \in Requests : request'[q].reserved = request[q].reserved
    BY <1>10, <1>1, DoBeginReconcile DEF FaultsStay, Reads
  <2>. QED
    BY <1>1, <1>4, <2>2, AllocationsStay
<1>11. ASSUME NEW p \in Procs, NEW r \in Requests, NEW n \in 1..Purchased, Reserve(p, r, n) PROVE RefundsCover'
   /\ LinesCover'
  <2>1. /\ Typed' /\ FaultsStay /\ UNCHANGED <<allocated, quantity>>
        /\ ~HasLine(r) /\ request'[r].reserved = n
        /\ \A q \in Requests : q # r => request'[q].reserved = request[q].reserved
    BY <1>11, <1>1, DoReserve DEF FaultsStay, OnlyRequest
  <2>2. request[r].reserved \in Nat
    BY <1>1, PurchasedIsNat DEF Typed, RequestRow
  <2>3. request[r].reserved <= request'[r].reserved
    BY <2>1, <2>2, PurchasedIsNat DEF HasLine
  <2>. QED
    BY <1>1, <1>4, <2>1, <2>3, AllocationsStay
<1>12. ASSUME NEW p \in Procs, NEW r \in Requests, Review(p, r) PROVE RefundsCover' /\ LinesCover'
  <2>2. /\ Typed' /\ FaultsStay /\ UNCHANGED <<allocated, quantity>>
        /\ \A q \in Requests : request'[q].reserved = request[q].reserved
    BY <1>12, <1>1, DoReview DEF FaultsStay
  <2>. QED
    BY <1>1, <1>4, <2>2, AllocationsStay
<1>13. ASSUME NEW p \in Procs, NEW r \in Requests, SendInstructions(p, r) PROVE RefundsCover' /\ LinesCover'
  <2>2. /\ Typed' /\ FaultsStay /\ UNCHANGED <<allocated, quantity>>
        /\ \A q \in Requests : request'[q].reserved = request[q].reserved
    BY <1>13, <1>1, DoSendInstructions DEF FaultsStay
  <2>. QED
    BY <1>1, <1>4, <2>2, AllocationsStay
<1>14. ASSUME NEW p \in Procs, NEW r \in Requests, RecordRefund(p, r) PROVE RefundsCover' /\ LinesCover'
  BY <1>14, <1>1, <1>4, RecordedWithinRefund, RecordedWithinLine
<1>15. ASSUME NEW p \in Procs, NEW r \in Requests, CancelRequest(p, r) PROVE RefundsCover' /\ LinesCover'
  <2>2. /\ Typed' /\ FaultsStay /\ UNCHANGED <<allocated, quantity>>
        /\ \A q \in Requests : request'[q].reserved = request[q].reserved
    BY <1>15, <1>1, DoCancelRequest DEF FaultsStay
  <2>. QED
    BY <1>1, <1>4, <2>2, AllocationsStay
<1>16. ASSUME NEW r \in Requests, ReserveFails(r) PROVE RefundsCover' /\ LinesCover'
  <2>2. /\ Typed' /\ FaultsStay /\ UNCHANGED <<allocated, quantity>>
        /\ \A q \in Requests : request'[q].reserved = request[q].reserved
    BY <1>16, <1>1, DoReserveFails DEF FaultsStay, SameLines
  <2>. QED
    BY <1>1, <1>4, <2>2, AllocationsStay
<1>17. ASSUME NEW f \in Refunds, Refund(f) PROVE RefundsCover' /\ LinesCover'
  <2>1. /\ Typed' /\ FaultsStay /\ UNCHANGED <<allocated, request>>
        /\ \A g \in Refunds : g # f => quantity'[g] = quantity[g]
        /\ quantity[f] <= quantity'[f]
    BY <1>17, <1>1, PurchasedIsNat, DoRefund DEF FaultsStay, Typed
  <2>. QED
    BY <1>1, <1>4, <2>1, AllocationsStay
<1>. QED
  BY <1>5, <1>6, <1>7, <1>8, <1>9, <1>10, <1>11, <1>12, <1>13, <1>14, <1>15, <1>16, <1>17 DEF Next, ProcStep

-----------------------------------------------------------------------------
(* The theorems *)

\* The initial states satisfy the invariant.
LEMMA InvInit ==
  ASSUME Init
  PROVE  IInv
<1>1. Typed
  BY Blanks, PurchasedIsNat DEF Init, Typed
<1>2. Counted
  BY PurchasedIsNat, DecisionBoundIsNat DEF Init, Counted
<1>3. Lineless /\ AllocatedToLines
  BY DEF Init, Lineless, AllocatedToLines, HasLine, NoRequest
<1>4. AtWork /\ SharesAreKnown
  BY DEF Init, AtWork, SharesAreKnown, Idle
<1>5. CancelledAgree
  BY DEF Init, CancelledAgree, NoRequest, Idle
<1>6. HeldWithin
  <2>1. \A r \in Requests : Held[r] = 0
    BY DEF Init, Held, NoRequest
  <2>2. Live \in SUBSET Requests /\ IsFiniteSet(Live)
    BY OrderIsFinite, FS_Subset DEF Live
  <2>3. Sum(Held, Live) = 0
    BY <2>1, <2>2, SumOfPart, SumEmpty
  <2>. QED
    BY <2>3, PurchasedIsNat DEF HeldWithin
<1>7. RefundsCover
  <2>1. ASSUME NEW f \in Refunds PROVE Sum(Given(f), Requests) = 0
    <3>1. \A r \in Requests : Given(f)[r] = 0
      BY DEF Init, Given
    <3>. QED
      BY <3>1, OrderIsFinite, SumOfPart, SumEmpty
  <2>. QED
    BY <2>1 DEF Init, RefundsCover
<1>8. LinesCover
  <2>1. ASSUME NEW r \in Requests PROVE Sum(allocated[r], Refunds) = 0
    <3>1. \A f \in Refunds : allocated[r][f] = 0
      BY DEF Init
    <3>. QED
      BY <3>1, OrderIsFinite, SumOfPart, SumEmpty
  <2>. QED
    BY <2>1 DEF Init, LinesCover, NoRequest
<1>. QED
  BY <1>1, <1>2, <1>3, <1>4, <1>5, <1>6, <1>7, <1>8, Parts, ReservationsAreHeld, AllocationsAreGiven DEF IInv

\* Every step keeps the invariant.
LEMMA InvNext ==
  ASSUME IInv, [Next]_vars
  PROVE  IInv'
<1>1. CASE Next
  <2>1. TypeOK /\ AtWork /\ SharesAreKnown /\ CancelledAgree /\ HeldWithin /\ RefundsCover /\ LinesCover
    BY ReservationsAreHeld, AllocationsAreGiven DEF IInv
  <2>2. TypeOK'
    BY <1>1, <2>1, CountsStay, LinelessStays, AllocatedStay, PartsAfter
  <2>3. AtWork' /\ SharesAreKnown' /\ CancelledAgree'
    BY <1>1, <2>1, WorkStays, SharesStay, CancelledStay
  <2>4. ReservationsWithinPurchase' /\ AllocationsAreCovered'
    BY <1>1, <2>1, ReservationsStay, AllocationsKept, ReservationsAreHeldAfter, AllocationsAreGivenAfter
  <2>. QED
    BY <2>2, <2>3, <2>4 DEF IInv
<1>2. CASE UNCHANGED vars
  <2>1. UNCHANGED <<quantity, request, group, cancelled, allocated, proc, decisions, faults>>
    BY <1>2 DEF vars
  <2>2. Typed' /\ Counted' /\ Lineless' /\ AllocatedToLines'
    BY <2>1, Parts DEF IInv, Typed, Counted, Lineless, AllocatedToLines, HasLine
  <2>3. AtWork' /\ SharesAreKnown' /\ CancelledAgree'
    BY <2>1 DEF IInv, AtWork, HasLine, SharesAreKnown, CancelledAgree
  <2>4. HeldWithin'
    BY <2>1, ReservationsAreHeld DEF IInv, HeldWithin, Held, Live
  <2>5. RefundsCover' /\ LinesCover'
    BY <2>1, AllocationsAreGiven DEF IInv, RefundsCover, LinesCover, Given
  <2>. QED
    BY <2>2, <2>3, <2>4, <2>5, PartsAfter, ReservationsAreHeldAfter, AllocationsAreGivenAfter DEF IInv
<1>. QED
  BY <1>1, <1>2

\* However the deliveries, the reviews and the recomputations interleave, every
\* process knows what it works on, and the books stay as far in balance as the
\* faults that were met allow.
THEOREM Invariance == Spec => []IInv
  BY InvInit, InvNext, PTL DEF Spec

\* The variables keep their types: refunds are allocated to requests with a
\* line alone, a line that was never reserved has no decision, and the
\* cancelled units of the position are within what was bought.
THEOREM TypeCorrect == Spec => []TypeOK
<1>1. IInv => TypeOK
  BY DEF IInv
<1>. QED
  BY <1>1, Invariance, PTL

\* initializeV2Transaction: the requests of an order whose group is not
\* cancelled never reserve more units than were bought, for as long as no
\* cancelled group is opened again.
THEOREM UnitsAreReservedOnce == Spec => []ReservationsWithinPurchase
<1>1. IInv => ReservationsWithinPurchase
  BY DEF IInv
<1>. QED
  BY <1>1, Invariance, PTL

\* reconcileDirectReturnRefund: a refund's events allocate no more units than
\* the refund gave back, and a line gets back no more than it reserved, for as
\* long as no delivery worked from events, or from open units, that another
\* had changed.
THEOREM RefundsAreSharedOutOnce == Spec => []AllocationsAreCovered
<1>1. IInv => AllocationsAreCovered
  BY DEF IInv
<1>. QED
  BY <1>1, Invariance, PTL
===============================================================================
