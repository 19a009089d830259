--------------------------- MODULE DonationsProofs ---------------------------
(***************************************************************************)
(* Theorems about donations and the totals they move, for every number of  *)
(* requests, causes, amounts and transaction ids.                          *)
(***************************************************************************)
EXTENDS Donations, FiniteSetTheorems, SequenceTheorems, WellFoundedInduction, TLAPS

-----------------------------------------------------------------------------
(* Sums over finite sets.  The induction theorems of the library take the  *)
(* formula as an operator; a least counterexample does without.            *)

\* A set of natural numbers that is not empty has a least member.
LEMMA LeastNat ==
  ASSUME NEW T \in SUBSET Nat, T # {}
  PROVE  \E x \in T : \A y \in T : x <= y
<1>1. PICK x \in T : \A y \in T : ~ (<<y, x>> \in OpToRel(<, Nat))
  BY NatLessThanWellFounded, WFMin
<1>2. \A y \in T : ~ (y < x)
  BY <1>1 DEF OpToRel
<1>3. QED
  BY <1>2

\* The member of a set that a fold takes next.
Taken(s) == CHOOSE x \in s : TRUE

\* The fold of SumFunctionOnSet over the set S.
Sums(f, g, S) ==
  g = [s \in SUBSET S |->
         IF s = {} THEN 0 ELSE LET x == Taken(s) IN f[x] + g[s \ {x}]]

LEMMA SumUnfolds ==
  ASSUME NEW f, NEW S
  PROVE  SumFunctionOnSet(f, S) = (CHOOSE g : Sums(f, g, S))[S]
  BY DEF SumFunctionOnSet, FoldFunctionOnSet, MapThenFoldSet, Sums, Taken

\* Taking a member from a finite set makes it smaller by one.
LEMMA TakeOne ==
  ASSUME NEW s, IsFiniteSet(s), s # {}
  PROVE  /\ Taken(s) \in s
         /\ IsFiniteSet(s \ {Taken(s)})
         /\ Cardinality(s) \in Nat \ {0}
         /\ Cardinality(s \ {Taken(s)}) = Cardinality(s) - 1
<1>1. Taken(s) \in s
  BY DEF Taken
<1>2. /\ IsFiniteSet(s \ {Taken(s)})
      /\ Cardinality(s \ {Taken(s)}) = Cardinality(s) - 1
  BY <1>1, FS_RemoveElement
<1>3. Cardinality(s) \in Nat /\ Cardinality(s) # 0
  BY FS_CardinalityType, FS_EmptySet
<1>4. QED
  BY <1>1, <1>2, <1>3

\* The fold defines a function, with natural numbers as values.
LEMMA SumsExist ==
  ASSUME NEW S, IsFiniteSet(S), NEW f, \A x \in S : f[x] \in Nat
  PROVE  \E g \in [SUBSET S -> Nat] : Sums(f, g, S)
<1> DEFINE Small(n) == {s \in SUBSET S : Cardinality(s) <= n}
           Step(g, s) == IF s = {} THEN 0 ELSE f[Taken(s)] + g[s \ {Taken(s)}]
           Partial(g, n) == g \in [Small(n) -> Nat] /\ \A s \in Small(n) : g[s] = Step(g, s)
           Bad == {n \in Nat : ~ \E g : Partial(g, n)}
<1>1. \A s \in SUBSET S : IsFiniteSet(s) /\ Cardinality(s) \in Nat
  BY FS_Subset, FS_CardinalityType
<1>2. Bad = {}
  <2> SUFFICES ASSUME Bad # {} PROVE FALSE
    OBVIOUS
  <2>1. PICK n \in Bad : \A m \in Bad : n <= m
    BY LeastNat
  <2>2. CASE n = 0
    <3> DEFINE h == [s \in Small(0) |-> 0]
    <3>1. \A s \in Small(0) : s = {}
      BY <1>1, FS_EmptySet
    <3>2. Partial(h, 0)
      BY <3>1
    <3>3. QED
      BY <2>1, <2>2, <3>2
  <2>3. CASE n # 0
    <3>1. n \in Nat /\ n - 1 \in Nat /\ \E g : Partial(g, n - 1)
      <4>1. n \in Nat /\ n - 1 \in Nat
        BY <2>3
      <4> HIDE DEF Bad
      <4>2. n - 1 \notin Bad
        BY <2>1, <4>1
      <4>3. QED
        BY <4>1, <4>2 DEF Bad
    <3>2. PICK g : Partial(g, n - 1)
      BY <3>1
    <3> DEFINE h == [s \in Small(n) |-> IF s \in Small(n - 1) THEN g[s] ELSE Step(g, s)]
    <3>3. ASSUME NEW s \in Small(n), s # {}
          PROVE  Taken(s) \in S /\ s \ {Taken(s)} \in Small(n - 1)
      BY <1>1, <3>3, TakeOne, <3>1
    <3>4. {} \in Small(n - 1)
      BY <3>1, FS_EmptySet
    <3>5. h \in [Small(n) -> Nat]
      <4>1. ASSUME NEW s \in Small(n) PROVE h[s] \in Nat
        BY <3>2, <3>3, <3>4
      <4>2. QED
        BY <4>1
    <3>6. ASSUME NEW s \in Small(n)
          PROVE  h[s] = Step(h, s)
      <4>1. Small(n - 1) \subseteq Small(n)
        BY <1>1, <3>1
      <4>2. \A t \in Small(n - 1) : h[t] = g[t]
        BY <4>1
      <4>3. CASE s = {}
        BY <4>3, <3>4, <4>2, <3>2
      <4>4. CASE s # {}
        <5>1. s \ {Taken(s)} \in Small(n - 1)
          BY <4>4, <3>3
        <5> HIDE DEF Small, h
        <5>2. h[s \ {Taken(s)}] = g[s \ {Taken(s)}]
          BY <5>1, <4>2
        <5>3. Step(h, s) = Step(g, s)
          BY <5>2
        <5>4. h[s] = Step(g, s)
          BY <3>2 DEF h
        <5>5. QED
          BY <5>3, <5>4
      <4>5. QED
        BY <4>3, <4>4
    <3>7. Partial(h, n)
      BY <3>5, <3>6
    <3>8. QED
      BY <2>1, <3>7
  <2>4. QED
    BY <2>2, <2>3
<1>3. PICK g : Partial(g, Cardinality(S))
  BY <1>1, <1>2
<1>4. Small(Cardinality(S)) = SUBSET S
  BY FS_Subset
<1>5. QED
  BY <1>3, <1>4 DEF Sums

\* Two folds agree wherever both are defined, if they add the same numbers.
LEMMA SumsAgree ==
  ASSUME NEW S, IsFiniteSet(S), NEW T \in SUBSET S, NEW f, NEW h, NEW g, NEW k,
         \A x \in T : f[x] = h[x], Sums(f, g, S), Sums(h, k, T)
  PROVE  \A s \in SUBSET T : g[s] = k[s]
<1> DEFINE Differ == {s \in SUBSET T : g[s] # k[s]}
           Sizes == {Cardinality(s) : s \in Differ}
<1>1. \A s \in SUBSET T : IsFiniteSet(s) /\ Cardinality(s) \in Nat
  BY FS_Subset, FS_CardinalityType
<1> SUFFICES ASSUME Differ # {} PROVE FALSE
  OBVIOUS
<1>2. Sizes \in SUBSET Nat /\ Sizes # {}
  BY <1>1
<1>3. PICK n \in Sizes : \A m \in Sizes : n <= m
  BY <1>2, LeastNat
<1>4. PICK s \in Differ : Cardinality(s) = n
  BY <1>3
<1>5. CASE s = {}
  <2>1. g[s] = 0 /\ k[s] = 0
    BY <1>5 DEF Sums
  <2>2. QED
    BY <2>1
<1>6. CASE s # {}
  <2> DEFINE x == Taken(s)
  <2>1. x \in s /\ Cardinality(s \ {x}) = n - 1 /\ n \in Nat
    BY <1>1, <1>4, <1>6, TakeOne
  <2>2. s \ {x} \notin Differ
    BY <1>3, <2>1
  <2>3. g[s \ {x}] = k[s \ {x}]
    BY <2>2
  <2>4. g[s] = f[x] + g[s \ {x}]
    BY <1>6 DEF Sums
  <2>5. k[s] = h[x] + k[s \ {x}]
    BY <1>6 DEF Sums
  <2>6. QED
    BY <2>1, <2>3, <2>4, <2>5
<1>7. QED
  BY <1>5, <1>6

\* What a sum is: nothing over no members, and one member more than the sum of
\* the others.  It depends on the values at the members alone.
LEMMA SumBasics ==
  ASSUME NEW S, IsFiniteSet(S), NEW f, \A x \in S : f[x] \in Nat
  PROVE  /\ SumFunctionOnSet(f, S) \in Nat
         /\ S = {} => SumFunctionOnSet(f, S) = 0
         /\ S # {} => SumFunctionOnSet(f, S) =
                        f[Taken(S)] + SumFunctionOnSet(f, S \ {Taken(S)})
<1> DEFINE G == CHOOSE g : Sums(f, g, S)
<1>1. PICK e \in [SUBSET S -> Nat] : Sums(f, e, S)
  BY SumsExist
<1>2. Sums(f, G, S)
  BY <1>1
<1>3. \A s \in SUBSET S : G[s] = e[s]
  BY <1>1, <1>2, SumsAgree
<1>4. SumFunctionOnSet(f, S) = G[S]
  BY SumUnfolds
<1> HIDE DEF G
<1>5. SumFunctionOnSet(f, S) \in Nat
  BY <1>1, <1>3, <1>4
<1>6. ASSUME S = {} PROVE SumFunctionOnSet(f, S) = 0
  BY <1>2, <1>4, <1>6 DEF Sums
<1>7. ASSUME S # {}
      PROVE  SumFunctionOnSet(f, S) = f[Taken(S)] + SumFunctionOnSet(f, S \ {Taken(S)})
  <2> DEFINE R == S \ {Taken(S)}
             K == CHOOSE g : Sums(f, g, R)
  <2>1. R \in SUBSET S /\ IsFiniteSet(R) /\ \A x \in R : f[x] \in Nat
    BY <1>7, TakeOne
  <2>2. \E g \in [SUBSET R -> Nat] : Sums(f, g, R)
    BY <2>1, SumsExist
  <2>3. Sums(f, K, R)
    BY <2>2
  <2>4. SumFunctionOnSet(f, R) = K[R]
    BY SumUnfolds
  <2> HIDE DEF K, R
  <2>5. \A t \in SUBSET R : G[t] = K[t]
    BY <1>2, <2>1, <2>3, SumsAgree
  <2>6. G[S] = f[Taken(S)] + G[R]
    BY <1>2, <1>7 DEF Sums, R
  <2>7. QED
    BY <1>4, <2>4, <2>5, <2>6 DEF R
<1>8. QED
  BY <1>5, <1>6, <1>7

LEMMA SumExtensional ==
  ASSUME NEW S, IsFiniteSet(S), NEW f, NEW h,
         \A x \in S : f[x] \in Nat /\ h[x] = f[x]
  PROVE  SumFunctionOnSet(f, S) = SumFunctionOnSet(h, S)
<1> DEFINE G == CHOOSE g : Sums(f, g, S)
           K == CHOOSE g : Sums(h, g, S)
<1>1. Sums(f, G, S) /\ Sums(h, K, S)
  BY SumsExist
<1>2. SumFunctionOnSet(f, S) = G[S] /\ SumFunctionOnSet(h, S) = K[S]
  BY SumUnfolds
<1> HIDE DEF G, K
<1>3. \A t \in SUBSET S : G[t] = K[t]
  BY <1>1, SumsAgree
<1>4. QED
  BY <1>2, <1>3

\* Which member is taken out does not matter.
LEMMA SumRemove ==
  ASSUME NEW S, IsFiniteSet(S), NEW f, \A x \in S : f[x] \in Nat, NEW a \in S
  PROVE  SumFunctionOnSet(f, S) = f[a] + SumFunctionOnSet(f, S \ {a})
<1> DEFINE Sum(s) == SumFunctionOnSet(f, s)
           Odd == {s \in SUBSET S : \E x \in s : Sum(s) # f[x] + Sum(s \ {x})}
           Sizes == {Cardinality(s) : s \in Odd}
<1>1. \A s \in SUBSET S : /\ IsFiniteSet(s) /\ Cardinality(s) \in Nat
                          /\ Sum(s) \in Nat
                          /\ s # {} => Sum(s) = f[Taken(s)] + Sum(s \ {Taken(s)})
  BY FS_Subset, FS_CardinalityType, SumBasics
<1> HIDE DEF Sum
<1>2. Odd = {}
  <2> SUFFICES ASSUME Odd # {} PROVE FALSE
    OBVIOUS
  <2>1. Sizes \in SUBSET Nat /\ Sizes # {}
    <3>1. Odd \subseteq SUBSET S
      OBVIOUS
    <3> HIDE DEF Odd
    <3>2. QED
      BY <1>1, <3>1
  <2>2. PICK n \in Sizes : \A m \in Sizes : n <= m
    BY <2>1, LeastNat
  <2>3. PICK s \in Odd : Cardinality(s) = n
    BY <2>2
  <2>4. PICK x \in s : Sum(s) # f[x] + Sum(s \ {x})
    BY <2>3
  <2> DEFINE t == Taken(s)
  <2>5. /\ t \in s /\ n \in Nat \ {0}
        /\ Cardinality(s \ {t}) = n - 1
        /\ Cardinality(s \ {x}) = n - 1
    BY <1>1, <2>3, <2>4, TakeOne, FS_RemoveElement
  <2>6. s \ {t} \notin Odd /\ s \ {x} \notin Odd
    <3> HIDE DEF Odd, t
    <3>1. ASSUME NEW u \in Odd PROVE n <= Cardinality(u)
      BY <2>2
    <3>2. ~ (n <= n - 1)
      BY <2>5
    <3>3. QED
      BY <2>5, <3>1, <3>2
  <2>7. x # t
    BY <1>1, <2>3, <2>4
  <2>8. Sum(s \ {t}) = f[x] + Sum((s \ {t}) \ {x})
    BY <2>4, <2>6, <2>7
  <2>9. Sum(s \ {x}) = f[t] + Sum((s \ {x}) \ {t})
    BY <2>5, <2>6, <2>7
  <2>10. (s \ {t}) \ {x} = (s \ {x}) \ {t}
    OBVIOUS
  <2>11. Sum(s) = f[t] + Sum(s \ {t})
    BY <1>1, <2>4
  <2>12. f[x] \in Nat /\ f[t] \in Nat /\ Sum((s \ {x}) \ {t}) \in Nat
    BY <1>1, <2>5, <2>4
  <2> HIDE DEF t
  <2>13. QED
    BY <2>4, <2>8, <2>9, <2>10, <2>11, <2>12
<1>3. QED
  BY <1>2 DEF Sum

LEMMA SumAdd ==
  ASSUME NEW S, IsFiniteSet(S), NEW f, \A x \in S : f[x] \in Nat,
         NEW a, a \notin S, f[a] \in Nat
  PROVE  SumFunctionOnSet(f, S \cup {a}) = f[a] + SumFunctionOnSet(f, S)
<1>1. IsFiniteSet(S \cup {a}) /\ (S \cup {a}) \ {a} = S
  BY FS_AddElement
<1>2. QED
  BY <1>1, SumRemove

\* If every number of one sum is a number of another, and no number of the other
\* stands for two of them, the first sum is no greater.
LEMMA SumCover ==
  ASSUME NEW D, IsFiniteSet(D), NEW R, IsFiniteSet(R), NEW h, NEW f, NEW g,
         \A d \in D : h[d] \in Nat /\ \E r \in R : g[r] = d,
         \A r \in R : f[r] \in Nat /\ (g[r] \in D => f[r] = h[g[r]])
  PROVE  SumFunctionOnSet(h, D) <= SumFunctionOnSet(f, R)
<1> DEFINE SumH(S) == SumFunctionOnSet(h, S)
           SumF(S) == SumFunctionOnSet(f, S)
           Covers(Q, S) == \A d \in S : \E r \in Q : g[r] = d
           Bad == {S \in SUBSET D : \E Q \in SUBSET R : Covers(Q, S) /\ ~(SumH(S) <= SumF(Q))}
           Sizes == {Cardinality(S) : S \in Bad}
<1>1. \A S \in SUBSET D : /\ IsFiniteSet(S) /\ Cardinality(S) \in Nat
                          /\ SumH(S) \in Nat /\ (S = {} => SumH(S) = 0)
                          /\ \A d \in S : SumH(S) = h[d] + SumH(S \ {d})
  BY FS_Subset, FS_CardinalityType, SumBasics, SumRemove
<1>2. \A Q \in SUBSET R : /\ SumF(Q) \in Nat
                          /\ \A r \in Q : SumF(Q) = f[r] + SumF(Q \ {r})
  BY FS_Subset, SumBasics, SumRemove
<1> HIDE DEF SumH, SumF
<1>3. Bad = {}
  <2> SUFFICES ASSUME Bad # {} PROVE FALSE
    OBVIOUS
  <2>1. Sizes \in SUBSET Nat /\ Sizes # {}
    <3>1. Bad \subseteq SUBSET D
      OBVIOUS
    <3> HIDE DEF Bad
    <3>2. QED
      BY <1>1, <3>1
  <2>2. PICK n \in Sizes : \A m \in Sizes : n <= m
    BY <2>1, LeastNat
  <2>3. PICK S \in Bad : Cardinality(S) = n
    BY <2>2
  <2>4. PICK Q \in SUBSET R : Covers(Q, S) /\ ~(SumH(S) <= SumF(Q))
    BY <2>3
  <2>5. S # {}
    BY <1>1, <1>2, <2>3, <2>4
  <2>6. PICK d \in S : TRUE
    BY <2>5
  <2>7. PICK r \in Q : g[r] = d
    BY <2>4
  <2>8. f[r] = h[d] /\ f[r] \in Nat /\ h[d] \in Nat
    BY <2>3, <2>6, <2>7
  <2>9. S \ {d} \in SUBSET D /\ Q \ {r} \in SUBSET R /\ Covers(Q \ {r}, S \ {d})
    BY <2>3, <2>4, <2>7
  <2>10. ~(SumH(S \ {d}) <= SumF(Q \ {r}))
    <3>1. SumH(S) = h[d] + SumH(S \ {d}) /\ SumF(Q) = f[r] + SumF(Q \ {r})
      BY <1>1, <1>2, <2>3, <2>6, <2>7
    <3>2. SumH(S \ {d}) \in Nat /\ SumF(Q \ {r}) \in Nat
      BY <1>1, <1>2, <2>9
    <3>3. \A a, x, y \in Nat : ~(a + x <= a + y) => ~(x <= y)
      OBVIOUS
    <3>4. ~(f[r] + SumH(S \ {d}) <= f[r] + SumF(Q \ {r}))
      BY <2>4, <2>8, <3>1
    <3>5. QED
      BY <2>8, <3>2, <3>3, <3>4
  <2>11. S \ {d} \in Bad
    BY <2>9, <2>10
  <2>12. Cardinality(S \ {d}) = n - 1 /\ n \in Nat
    BY <1>1, <2>3, <2>6, FS_RemoveElement
  <2>13. QED
    <3> HIDE DEF Bad
    <3>1. n <= n - 1
      BY <2>2, <2>11, <2>12
    <3>2. QED
      BY <2>12, <3>1
<1>4. D \notin Bad
  BY <1>3
<1>5. QED
  BY <1>4 DEF SumH, SumF

-----------------------------------------------------------------------------
(* Requests *)

\* Request r goes on to statement p, with call c and answer a.
Moves(r, p, c, a) ==
  /\ pc' = [pc EXCEPT ![r] = p]
  /\ call' = [call EXCEPT ![r] = c]
  /\ answer' = [answer EXCEPT ![r] = a]

\* How the helpers move a request.
LEMMA Moving ==
  ASSUME TypeOK, NEW r \in Requests
  PROVE  /\ \A c, next : Proceed(r, c, next) => pc[r] = "idle" /\ Moves(r, next, c, "none")
         /\ \A c, a : AnswerNow(r, c, a) => pc[r] = "idle" /\ Moves(r, "done", c, a)
         /\ \A a : Finish(r, a) => Moves(r, "done", call[r], a)
<1>1. pc[r] # "done" => answer = [answer EXCEPT ![r] = "none"]
  BY DEF TypeOK, Fits
<1>2. call = [call EXCEPT ![r] = call[r]]
  BY DEF TypeOK
<1>3. QED
  BY <1>1, <1>2 DEF Proceed, AnswerNow, Finish, Moves

\* The call of a request fits where it is.
LEMMA OwnCall ==
  ASSUME TypeOK, NEW r \in Requests
  PROVE  /\ call[r] \in Calls \cup {NoCall} /\ pc[r] \in Statements
         /\ Fits(pc[r], call[r], answer[r])
  BY DEF TypeOK

\* A step of one request keeps the type invariant if the tables keep their types, no
\* donation is removed, and the request's call fits its new statement and answer.
LEMMA StepType ==
  ASSUME TypeOK, NEW r \in Requests, NEW p \in Statements, NEW c \in Calls,
         NEW a \in Answers, Moves(r, p, c, a),
         PortfolioTypeOK',
         donations' \in Seq(Donation), Ids \subseteq Ids',
         Fits(p, c, a)
  PROVE  TypeOK'
<1>1. pc' \in [Requests -> Statements] /\ call' \in [Requests -> Calls \cup {NoCall}]
        /\ answer' \in [Requests -> Answers]
  BY DEF TypeOK, Moves
<1>2. \A q, d, b : Fits(q, d, b) => Fits(q, d, b)'
  BY DEF Fits
<1>3. ASSUME NEW q \in Requests PROVE Fits(pc[q], call[q], answer[q])'
  <2>1. CASE q = r
    <3>1. pc'[q] = p /\ call'[q] = c /\ answer'[q] = a
      BY <2>1 DEF TypeOK, Moves
    <3>2. QED
      BY <1>2, <3>1 DEF Fits
  <2>2. CASE q # r
    <3>1. pc'[q] = pc[q] /\ call'[q] = call[q] /\ answer'[q] = answer[q]
      BY <2>2 DEF TypeOK, Moves
    <3>2. Fits(pc[q], call[q], answer[q])
      BY DEF TypeOK
    <3>3. QED
      BY <3>1, <3>2 DEF Fits
  <2>3. QED
    BY <2>1, <2>2
<1>4. QED
  BY <1>1, <1>3 DEF TypeOK

\* What a step leaves alone keeps its type.
LEMMA UnchangedTypes ==
  ASSUME TypeOK
  PROVE  /\ UNCHANGED portfolio => PortfolioTypeOK'
         /\ UNCHANGED donations => donations' \in Seq(Donation) /\ Ids \subseteq Ids'
  BY DEF TypeOK, PortfolioTypeOK, portfolio, Ids

LEMMA InitType == Init => TypeOK
<1> SUFFICES ASSUME Init PROVE TypeOK
  OBVIOUS
<1>1. PortfolioTypeOK
  BY TotalsAssumption, CausesAssumption DEF Init, PortfolioInit, PortfolioTypeOK, Totals
<1>2. donations \in Seq(Donation)
  BY EmptySeq DEF Init
<1>3. QED
  BY <1>1, <1>2 DEF Init, PortfolioInit, TypeOK, Fits, Statements, Answers

\* The table of donations, as a function.
LEMMA DonationsTable ==
  ASSUME TypeOK
  PROVE  /\ Len(donations) \in Nat /\ Ids = 1 .. Len(donations)
         /\ donations \in [Ids -> Donation]
  BY SeqDef, LenProperties DEF TypeOK, Ids

\* Rewriting rows leaves a table of as many donations.
LEMMA DonationsRewritten ==
  ASSUME TypeOK, donations' \in [Ids -> Donation]
  PROVE  donations' \in Seq(Donation) /\ Ids' = Ids
<1>1. donations' \in [1 .. Len(donations) -> Donation] /\ Len(donations) \in Nat
  BY DonationsTable
<1>2. donations' \in Seq(Donation) /\ DOMAIN donations' = 1 .. Len(donations)
  BY <1>1, SeqDef
<1>3. QED
  BY <1>2, DonationsTable DEF Ids

\* Giving keeps the type invariant.
LEMMA GiveType ==
  ASSUME TypeOK, NEW r \in Requests, NEW links \in Links, NEW amount \in Amounts,
         Give(r, links, amount)
  PROVE  TypeOK'
<1> DEFINE c == [kind |-> "give", links |-> links, amount |-> amount]
<1>1. c \in Gifts /\ c \in Calls
  BY DEF Gifts, Calls
<1>2. PICK a \in {"ERROR", "BAD_LINK", "created"} :
        /\ Moves(r, "done", c, a)
        /\ UNCHANGED donations \/ donations' = Append(donations, NewDonation(c))
  BY Moving DEF Give
<1>3. Fits("done", c, a)
  BY <1>1, <1>2 DEF Fits
<1>4. donations' \in Seq(Donation) /\ Ids \subseteq Ids'
  <2>1. NewDonation(c) \in Donation
    BY DEF NewDonation, Donation, Statuses
  <2>2. QED
    BY <1>2, <2>1, DonationsTable, AppendProperties DEF TypeOK, Ids
<1>5. "done" \in Statements /\ a \in Answers
  BY DEF Statements, Answers
<1>6. UNCHANGED portfolio
  BY DEF Give
<1>7. QED
  BY <1>1, <1>2, <1>3, <1>4, <1>5, <1>6, UnchangedTypes, StepType


\* A linked cause is there, with totals.
LEMMA LinkedTotals ==
  ASSUME TypeOK, LinksResolve, NEW d \in Ids, NEW c \in donations[d].links
  PROVE  c \in Causes /\ causes[c] \in Totals
  BY DEF LinksResolve, Live, TypeOK, PortfolioTypeOK

\* A credit that fits its column leaves totals.
LEMMA CreditedTotals ==
  ASSUME TypeOK, LinksResolve, NEW r \in Requests, call[r] \in Reviews,
         call[r].donation \in Ids, ~Overflows(r), NEW c \in Credited(r)
  PROVE  /\ c \in Causes /\ causes[c] \in Totals
         /\ donations[call[r].donation].amount \in Nat
         /\ [raised |-> causes[c].raised + donations[call[r].donation].amount,
             supporters |-> causes[c].supporters + 1] \in Totals
<1>1. c \in donations[call[r].donation].links
  BY DEF Credited
<1>2. c \in Causes /\ causes[c] \in Totals
  BY <1>1, LinkedTotals
<1>3. donations[call[r].donation].amount \in Nat
  BY DonationsTable, AmountsAssumption DEF Donation
<1>4. causes[c].raised \in Nat /\ causes[c].supporters \in Nat
  BY <1>2, TotalsAssumption DEF Totals
<1>5. ~(causes[c].raised + donations[call[r].donation].amount > MaxInt)
  BY DEF Overflows
<1>6. causes[c].raised + donations[call[r].donation].amount \in 0 .. MaxInt
  BY <1>3, <1>4, <1>5, TotalsAssumption
<1>7. QED
  BY <1>2, <1>3, <1>4, <1>6 DEF Totals

\* Review keeps the type invariant.
LEMMA ReviewType ==
  ASSUME TypeOK, LinksResolve, NEW r \in Requests
  PROVE  /\ \A d \in Ids, to \in Statuses : ReadForReview(r, d, to) => TypeOK'
         /\ CommitReview(r) => TypeOK'
         /\ ReviewOverflow(r) => TypeOK'
         /\ DeadlockVictim(r) => TypeOK'
<1>1. ASSUME NEW d \in Ids, NEW to \in Statuses, ReadForReview(r, d, to) PROVE TypeOK'
  <2> DEFINE c == [kind |-> "review", donation |-> d, to |-> to]
  <2>1. c \in Reviews /\ c \in Calls
    BY DonationsTable DEF Reviews, Calls
  <2>2. PICK p \in {"done", "write"}, a \in {"INVALID_TRANSITION", "none"} :
          Moves(r, p, c, a) /\ (p # "done" => a = "none")
    BY <1>1, Moving DEF ReadForReview
  <2>3. Fits(p, c, a)
    BY <2>1, <2>2 DEF Fits
  <2>4. p \in Statements /\ a \in Answers
    BY DEF Statements, Answers
  <2>5. UNCHANGED <<donations, portfolio>>
    BY <1>1 DEF ReadForReview
  <2>6. QED
    BY <2>1, <2>2, <2>3, <2>4, <2>5, UnchangedTypes, StepType
<1>2. ASSUME NEW a \in {"ERROR", "updated"}, Finish(r, a), pc[r] \in {"write", "delete"}
      PROVE  /\ Moves(r, "done", call[r], a) /\ Fits("done", call[r], a)
             /\ "done" \in Statements /\ a \in Answers /\ call[r] \in Calls
  <2>1. pc[r] = "write" => call[r] \in Reviews /\ call[r].donation \in Ids
    BY OwnCall DEF Fits
  <2>2. pc[r] = "delete" => call[r] \in Deletions
    BY OwnCall DEF Fits
  <2>3. Fits("done", call[r], a)
    BY <1>2, <2>1, <2>2 DEF Fits, Deletions
  <2>4. QED
    BY <1>2, <2>1, <2>2, <2>3, Moving DEF Statements, Answers, Calls
<1>3. ASSUME CommitReview(r) PROVE TypeOK'
  <2>1. call[r] \in Reviews /\ call[r].donation \in Ids /\ pc[r] = "write"
    BY <1>3, OwnCall DEF CommitReview, Fits
  <2>2. donations' \in [Ids -> Donation]
    <3>1. donations[call[r].donation] \in Donation /\ call[r].to \in Statuses
      BY <2>1, DonationsTable DEF Reviews
    <3>2. [donations[call[r].donation] EXCEPT !.status = call[r].to] \in Donation
      BY <3>1 DEF Donation
    <3>3. donations' = [donations EXCEPT ![call[r].donation] =
                          [donations[call[r].donation] EXCEPT !.status = call[r].to]]
      BY <1>3 DEF CommitReview
    <3>4. QED
      BY <3>2, <3>3, DonationsTable
  <2>3. causes' \in [Causes -> Totals \cup {NoCause}]
    BY <1>3, <2>1, CreditedTotals DEF CommitReview, TypeOK, PortfolioTypeOK
  <2>4. PortfolioTypeOK'
    BY <1>3, <2>3 DEF CommitReview, TypeOK, PortfolioTypeOK
  <2>5. Finish(r, "updated")
    BY <1>3 DEF CommitReview
  <2>6. QED
    BY <1>2, <2>1, <2>2, <2>4, <2>5, DonationsRewritten, StepType
<1>4. ASSUME ReviewOverflow(r) PROVE TypeOK'
  BY <1>2, <1>4, UnchangedTypes, StepType DEF ReviewOverflow
<1>5. ASSUME DeadlockVictim(r) PROVE TypeOK'
  <2>1. pc[r] \in {"write", "delete"} /\ Finish(r, "ERROR") /\ UNCHANGED <<donations, portfolio>>
    BY <1>5 DEF DeadlockVictim, Deadlocked
  <2>2. QED
    BY <1>2, <2>1, UnchangedTypes, StepType
<1>6. QED
  BY <1>1, <1>3, <1>4, <1>5

\* The least donation of a match.
LEMMA LeastMatch ==
  ASSUME TypeOK, NEW c, Matching(c) # {}
  PROVE  Min(Matching(c)) \in Matching(c)
<1>1. Matching(c) \subseteq Nat
  BY DonationsTable DEF Matching
<1>2. \E x \in Matching(c) : \A y \in Matching(c) : x <= y
  BY <1>1, LeastNat
<1>3. QED
  BY <1>2 DEF Min

\* The gateway's callback keeps the type invariant.
LEMMA GatewayType ==
  ASSUME TypeOK, NEW r \in Requests
  PROVE  /\ \A tx \in TxIds, amount \in Amounts, success \in BOOLEAN :
              FindTransaction(r, tx, amount, success) => TypeOK'
         /\ MatchDonation(r) => TypeOK'
         /\ ConfirmPayment(r) => TypeOK'
<1>1. ASSUME NEW tx \in TxIds, NEW amount \in Amounts, NEW success \in BOOLEAN,
             FindTransaction(r, tx, amount, success)
      PROVE  TypeOK'
  <2> DEFINE c == [kind |-> "webhook", tx |-> tx, amount |-> amount, success |-> success,
                   donation |-> 0]
  <2>1. c \in Callbacks /\ c \in Calls
    BY DEF Callbacks, Calls
  <2>2. PICK p \in {"done", "match"}, a \in {"already", "none"} :
          Moves(r, p, c, a) /\ (p # "done" => a = "none")
    BY <1>1, Moving DEF FindTransaction
  <2>3. Fits(p, c, a)
    BY <2>1, <2>2 DEF Fits
  <2>4. p \in Statements /\ a \in Answers
    BY DEF Statements, Answers
  <2>5. UNCHANGED <<donations, portfolio>>
    BY <1>1 DEF FindTransaction
  <2>6. QED
    BY <2>1, <2>2, <2>3, <2>4, <2>5, UnchangedTypes, StepType
<1>2. ASSUME NEW a \in {"NOT_FOUND", "updated", "CONFLICT"}, Finish(r, a),
             pc[r] \in {"match", "confirm"}
      PROVE  /\ Moves(r, "done", call[r], a) /\ Fits("done", call[r], a)
             /\ "done" \in Statements /\ a \in Answers /\ call[r] \in Calls
  <2>1. call[r] \in Callbacks
    BY <1>2, OwnCall DEF Fits
  <2>2. Fits("done", call[r], a)
    BY <1>2, <2>1 DEF Fits, Callbacks
  <2>3. QED
    BY <1>2, <2>1, <2>2, Moving DEF Statements, Answers, Calls
<1>3. ASSUME MatchDonation(r) PROVE TypeOK'
  <2>1. pc[r] = "match" /\ UNCHANGED <<donations, portfolio>> /\ call[r] \in Callbacks
          /\ answer[r] = "none"
    BY <1>3, OwnCall DEF MatchDonation, Fits
  <2>2. CASE Finish(r, "NOT_FOUND")
    BY <1>2, <2>1, <2>2, UnchangedTypes, StepType
  <2>3. CASE /\ Matching(call[r]) # {}
             /\ call' = [call EXCEPT ![r].donation = Min(Matching(call[r]))]
             /\ pc' = [pc EXCEPT ![r] = "confirm"]
             /\ UNCHANGED answer
    <3> DEFINE d == Min(Matching(call[r]))
               c == [call[r] EXCEPT !.donation = d]
    <3>1. d \in Ids
      BY <2>3, LeastMatch DEF Matching
    <3>2. c \in Callbacks /\ c.donation = d
      BY <2>1, <3>1, DonationsTable DEF Callbacks
    <3>3. Moves(r, "confirm", c, "none")
      BY <2>1, <2>3 DEF Moves, TypeOK
    <3> HIDE DEF c, d
    <3>4. Fits("confirm", c, "none")
      BY <3>1, <3>2 DEF Fits
    <3>5. c \in Calls /\ "confirm" \in Statements /\ "none" \in Answers
      BY <3>2 DEF Calls, Statements, Answers
    <3>6. QED
      BY <2>1, <3>3, <3>4, <3>5, UnchangedTypes, StepType
  <2>4. QED
    BY <1>3, <2>2, <2>3 DEF MatchDonation
<1>4. ASSUME ConfirmPayment(r) PROVE TypeOK'
  <2>1. pc[r] = "confirm" /\ UNCHANGED portfolio /\ call[r] \in Callbacks
          /\ call[r].donation \in Ids
    BY <1>4, OwnCall DEF ConfirmPayment, Fits
  <2>2. PICK a \in {"updated", "CONFLICT"} : Finish(r, a)
    BY <1>4 DEF ConfirmPayment
  <2>3. donations' \in Seq(Donation) /\ Ids \subseteq Ids'
    <3>1. CASE UNCHANGED donations
      BY <3>1, UnchangedTypes
    <3>2. CASE ~UNCHANGED donations
      <4> DEFINE d == call[r].donation
                 status == IF call[r].success THEN "COMPLETED" ELSE "FAILED"
      <4>1. donations' = [donations EXCEPT ![d].status = status, ![d].tx = call[r].tx]
        BY <1>4, <3>2 DEF ConfirmPayment
      <4>2. donations[d] \in Donation /\ status \in Statuses /\ call[r].tx \in TxIds
        BY <2>1, DonationsTable DEF Statuses, Callbacks
      <4> HIDE DEF status
      <4>3. donations' \in [Ids -> Donation]
        BY <2>1, <4>1, <4>2, DonationsTable DEF Donation
      <4>4. QED
        BY <4>3, DonationsRewritten
    <3>3. QED
      BY <3>1, <3>2
  <2>4. QED
    BY <1>2, <2>1, <2>2, <2>3, UnchangedTypes, StepType
<1>5. QED
  BY <1>1, <1>3, <1>4

\* The calls of the portfolio keep the type invariant.
LEMMA PortfolioType ==
  ASSUME TypeOK, NEW r \in Requests
  PROVE  /\ PortfolioCalls(r) => TypeOK'
         /\ DeleteCause(r) => TypeOK'
<1>1. ASSUME NEW c \in Calls, NEW p \in Statements, NEW a \in Answers, Moves(r, p, c, a),
             Fits(p, c, a), PortfolioTypeOK', UNCHANGED donations
      PROVE  TypeOK'
  BY <1>1, UnchangedTypes, StepType
<1>2. ASSUME NEW c \in Causes, NEW raised \in {0} \cup TypedIn, CreateCause(r, c, raised)
      PROVE  PortfolioTypeOK' /\ \E a \in {"created", "CONFLICT"} :
               Moves(r, "done", [kind |-> "create", cause |-> c, raised |-> raised], a)
  <2>1. NewTotals(raised) \in Totals
    BY TotalsAssumption DEF NewTotals, Totals
  <2>2. PortfolioTypeOK'
    BY <1>2, <2>1 DEF CreateCause, TypeOK, PortfolioTypeOK
  <2>3. QED
    BY <1>2, <2>2, Moving DEF CreateCause
<1>3. ASSUME NEW c, NEW next \in {"edit", "delete", "note"}, FindCause(r, c, next)
      PROVE  /\ PortfolioTypeOK'
             /\ Moves(r, next, c, "none") \/ Moves(r, "done", c, "NOT_FOUND")
  <2>1. UNCHANGED portfolio
    BY <1>3 DEF FindCause, portfolio
  <2>2. QED
    BY <1>3, <2>1, Moving, UnchangedTypes DEF FindCause
<1>4. ASSUME EditCause(r) \/ RemoveMissing(r) \/ AddNote(r)
      PROVE  /\ PortfolioTypeOK'
             /\ \E a \in {"updated", "NOT_FOUND", "created", "BAD_LINK"} :
                  /\ Finish(r, a)
                  /\ a = "created" => AddNote(r)
                  /\ a = "updated" => EditCause(r)
  <2>1. CASE EditCause(r)
    <3>1. call[r] \in Edits
      BY <2>1, OwnCall DEF EditCause, Fits
    <3>2. causes' \in [Causes -> Totals \cup {NoCause}]
      <4>1. CASE UNCHANGED causes
        BY <4>1 DEF TypeOK, PortfolioTypeOK
      <4>2. CASE ~UNCHANGED causes
        <5>1. /\ call[r].cause \in Live
              /\ causes' = [causes EXCEPT ![call[r].cause].raised = call[r].raised]
          BY <2>1, <4>2 DEF EditCause
        <5>2. causes[call[r].cause] \in Totals /\ call[r].raised \in 0 .. MaxInt
          BY <3>1, <5>1, TotalsAssumption DEF Live, Edits, TypeOK, PortfolioTypeOK
        <5>3. [causes[call[r].cause] EXCEPT !.raised = call[r].raised] \in Totals
          BY <5>2 DEF Totals
        <5>4. QED
          BY <5>1, <5>3 DEF TypeOK, PortfolioTypeOK
      <4>3. QED
        BY <4>1, <4>2
    <3>3. QED
      BY <2>1, <3>2 DEF EditCause, TypeOK, PortfolioTypeOK
  <2>2. CASE RemoveMissing(r)
    BY <2>2 DEF RemoveMissing, TypeOK, PortfolioTypeOK
  <2>3. CASE AddNote(r)
    <3>1. call[r].cause \in Causes
      BY <2>3, OwnCall DEF AddNote, Fits, Notes
    <3>2. QED
      BY <2>3, <3>1 DEF AddNote, TypeOK, PortfolioTypeOK
  <2>4. QED
    BY <1>4, <2>1, <2>2, <2>3
<1>5. {"done", "edit", "delete", "note"} \subseteq Statements
        /\ {"created", "CONFLICT", "none", "NOT_FOUND", "updated", "BAD_LINK"} \subseteq Answers
  BY DEF Statements, Answers
<1>6. ASSUME NEW c \in Causes, NEW raised \in {0} \cup TypedIn, CreateCause(r, c, raised),
             UNCHANGED donations
      PROVE  TypeOK'
  <2> DEFINE x == [kind |-> "create", cause |-> c, raised |-> raised]
  <2>1. PICK a \in {"created", "CONFLICT"} : Moves(r, "done", x, a)
    BY <1>2, <1>6
  <2>2. x \in Creations /\ x \in Calls
    BY DEF Creations, Calls
  <2> HIDE DEF x
  <2>3. Fits("done", x, a)
    BY <2>2 DEF Fits
  <2>4. QED
    BY <1>1, <1>2, <1>5, <1>6, <2>1, <2>2, <2>3
<1>7. ASSUME NEW c \in Edits \cup Deletions \cup Notes, NEW next \in {"edit", "delete", "note"},
             next = "edit" => c \in Edits, next = "delete" => c \in Deletions,
             next = "note" => c \in Notes, FindCause(r, c, next), UNCHANGED donations
      PROVE  TypeOK'
  <2>1. Fits(next, c, "none") /\ Fits("done", c, "NOT_FOUND") /\ c \in Calls
    BY <1>7 DEF Fits, Calls
  <2>2. QED
    BY <1>1, <1>3, <1>5, <1>7, <2>1
<1>8. ASSUME EditCause(r) \/ RemoveMissing(r) \/ AddNote(r), UNCHANGED donations PROVE TypeOK'
  <2>1. PICK a \in {"updated", "NOT_FOUND", "created", "BAD_LINK"} :
          /\ Finish(r, a)
          /\ a = "created" => AddNote(r)
          /\ a = "updated" => EditCause(r)
    BY <1>4, <1>8
  <2>2. call[r] \in Edits \cup Deletions \cup Notes
    BY <1>8, OwnCall DEF EditCause, RemoveMissing, AddNote, Fits
  <2>3. AddNote(r) => call[r] \in Notes
    BY OwnCall DEF AddNote, Fits
  <2>4. EditCause(r) => call[r] \in Edits
    BY OwnCall DEF EditCause, Fits
  <2>5. Fits("done", call[r], a) /\ Moves(r, "done", call[r], a) /\ call[r] \in Calls
    BY <2>1, <2>2, <2>3, <2>4, Moving DEF Fits, Edits, Calls
  <2>6. QED
    BY <1>1, <1>4, <1>5, <1>8, <2>1, <2>5
<1>9. ASSUME DeleteCause(r) PROVE TypeOK'
  <2>1. call[r] \in Deletions
    BY <1>9, OwnCall DEF DeleteCause, RemoveCause, Fits
  <2>2. PortfolioTypeOK' /\ Finish(r, "updated")
    BY <1>9 DEF DeleteCause, RemoveCause, TypeOK, PortfolioTypeOK
  <2>3. donations' \in [Ids -> Donation]
    <3>1. ASSUME NEW d \in Ids
          PROVE  [donations[d] EXCEPT !.links = @ \ {call[r].cause}] \in Donation
      <4>1. donations[d] \in Donation
        BY DonationsTable
      <4>2. donations[d].links \ {call[r].cause} \in Links
        BY <4>1 DEF Donation, Links
      <4>3. QED
        BY <4>1, <4>2 DEF Donation
    <3>2. QED
      BY <1>9, <3>1 DEF DeleteCause
  <2>4. Moves(r, "done", call[r], "updated") /\ Fits("done", call[r], "updated")
          /\ call[r] \in Calls
    BY <2>1, <2>2, Moving DEF Fits, Deletions, Calls
  <2>5. QED
    BY <1>5, <2>2, <2>3, <2>4, DonationsRewritten, StepType
<1>10. ASSUME PortfolioCalls(r) PROVE TypeOK'
  <2>1. ASSUME NEW c \in Causes, NEW raised \in TypedIn
        PROVE  /\ FindForEdit(r, c, raised) /\ UNCHANGED donations => TypeOK'
    BY <1>7 DEF FindForEdit, Edits
  <2>2. ASSUME NEW c \in Causes
        PROVE  /\ FindForDelete(r, c) /\ UNCHANGED donations => TypeOK'
               /\ FindForNote(r, c) /\ UNCHANGED donations => TypeOK'
    BY <1>7 DEF FindForDelete, FindForNote, Deletions, Notes
  <2>3. QED
    BY <1>6, <1>8, <1>10, <2>1, <2>2 DEF PortfolioCalls
<1>11. QED
  BY <1>9, <1>10

-----------------------------------------------------------------------------
(* The type invariant and the links *)

LEMMA NextType == TypeOK /\ LinksResolve /\ [Next]_vars => TypeOK'
<1> SUFFICES ASSUME TypeOK, LinksResolve, [Next]_vars PROVE TypeOK'
  OBVIOUS
<1>1. CASE UNCHANGED vars
  BY <1>1 DEF vars, TypeOK, PortfolioTypeOK, Fits, Ids
<1>2. CASE Next
  BY <1>1, <1>2, GiveType, ReviewType, GatewayType, PortfolioType DEF Next, Spent
<1>3. QED
  BY <1>1, <1>2

\* A step of request r.
Step(r) ==
  \/ \E links \in Links, amount \in Amounts : Give(r, links, amount)
  \/ \E d \in Ids, to \in Statuses : ReadForReview(r, d, to)
  \/ CommitReview(r) \/ ReviewOverflow(r) \/ DeadlockVictim(r)
  \/ \E tx \in TxIds, amount \in Amounts, success \in BOOLEAN :
       FindTransaction(r, tx, amount, success)
  \/ MatchDonation(r) \/ ConfirmPayment(r)
  \/ PortfolioCalls(r) \/ DeleteCause(r)

LEMMA NextIsStep ==
  ASSUME [Next]_vars
  PROVE  UNCHANGED vars \/ \E r \in Requests : Step(r)
  BY DEF Next, Spent, Step

\* The request that takes a step is not answered yet, and no other changes.
LEMMA OneMoves ==
  ASSUME TypeOK, NEW r \in Requests, Step(r)
  PROVE  /\ pc[r] # "done"
         /\ \A q \in Requests \ {r} :
              pc'[q] = pc[q] /\ call'[q] = call[q] /\ answer'[q] = answer[q]
<1> DEFINE Alone ==
      /\ pc[r] # "done"
      /\ \A q \in Requests \ {r} :
           pc'[q] = pc[q] /\ call'[q] = call[q] /\ answer'[q] = answer[q]
<1>1. /\ \A c, next : Proceed(r, c, next) => Alone
      /\ \A c, a : AnswerNow(r, c, a) => Alone
      /\ \A a : pc[r] # "done" /\ Finish(r, a) => Alone
  BY DEF TypeOK, Proceed, AnswerNow, Finish
<1>2. /\ \A links, amount : Give(r, links, amount) => Alone
      /\ \A d, to : ReadForReview(r, d, to) => Alone
      /\ CommitReview(r) \/ ReviewOverflow(r) \/ DeadlockVictim(r) => Alone
  BY <1>1 DEF Give, ReadForReview, CommitReview, ReviewOverflow, DeadlockVictim, Deadlocked
<1>3. /\ \A tx, amount, success : FindTransaction(r, tx, amount, success) => Alone
      /\ ConfirmPayment(r) => Alone
  BY <1>1 DEF FindTransaction, ConfirmPayment
<1>4. MatchDonation(r) => Alone
  BY <1>1 DEF MatchDonation, TypeOK
<1>5. \A c, next : FindCause(r, c, next) => Alone
  BY <1>1 DEF FindCause
<1>6. /\ \A c, raised : CreateCause(r, c, raised) => Alone
      /\ \A c, raised : FindForEdit(r, c, raised) => Alone
      /\ \A c : FindForDelete(r, c) \/ FindForNote(r, c) => Alone
  BY <1>1, <1>5 DEF CreateCause, FindForEdit, FindForDelete, FindForNote
<1>7. EditCause(r) \/ RemoveMissing(r) \/ AddNote(r) \/ DeleteCause(r) => Alone
  BY <1>1 DEF EditCause, RemoveMissing, AddNote, DeleteCause, RemoveCause
<1>8. PortfolioCalls(r) => Alone
  <2> HIDE DEF Alone
  <2>1. QED
    BY <1>6, <1>7 DEF PortfolioCalls
<1> HIDE DEF Alone
<1>9. Alone
  BY <1>2, <1>3, <1>4, <1>7, <1>8 DEF Step
<1>10. QED
  BY <1>9 DEF Alone

\* A request that has been answered keeps its answer and its call.
LEMMA AnsweredStays ==
  ASSUME TypeOK, NEW r \in Requests, Step(r), NEW q \in Requests, answer[q] # "none"
  PROVE  q # r /\ call'[q] = call[q] /\ answer'[q] = answer[q]
<1>1. pc[q] = "done"
  BY DEF TypeOK, Fits
<1>2. QED
  BY <1>1, OneMoves

\* What a step does to a donation: its amount stays, only the deletion of its cause
\* takes a link, and only a review and the gateway change its status.
LEMMA RowStep ==
  ASSUME TypeOK, NEW r \in Requests, Step(r), NEW d \in Ids
  PROVE  /\ d \in Ids'
         /\ donations'[d].amount = donations[d].amount
         /\ \/ donations'[d].links = donations[d].links
            \/ /\ DeleteCause(r)
               /\ donations'[d].links = donations[d].links \ {call[r].cause}
         /\ \/ donations'[d].status = donations[d].status /\ donations'[d].tx = donations[d].tx
            \/ /\ CommitReview(r) /\ call[r].donation = d
               /\ donations'[d].status = call[r].to /\ donations'[d].tx = donations[d].tx
            \/ /\ ConfirmPayment(r) /\ call[r].donation = d
               /\ donations'[d].status \in FinalStates /\ donations'[d].tx \in TxIds
<1>1. donations[d] \in Donation
  BY DonationsTable
<1>2. CASE UNCHANGED donations
  BY <1>2 DEF Ids
<1>3. CASE \E links \in Links, amount \in Amounts : Give(r, links, amount)
  <2>1. PICK links \in Links, amount \in Amounts : Give(r, links, amount)
    BY <1>3
  <2> DEFINE c == [kind |-> "give", links |-> links, amount |-> amount]
  <2>2. NewDonation(c) \in Donation
    BY DEF NewDonation, Donation, Statuses
  <2>3. UNCHANGED donations \/ donations' = Append(donations, NewDonation(c))
    BY <2>1 DEF Give
  <2>4. d \in Ids' /\ donations'[d] = donations[d]
    BY <2>2, <2>3, DonationsTable, AppendProperties DEF TypeOK, Ids
  <2>5. QED
    BY <2>4
<1>4. CASE CommitReview(r)
  BY <1>1, <1>4 DEF CommitReview, Ids, Donation
<1>5. CASE ConfirmPayment(r) /\ ~UNCHANGED donations
  <2>1. call[r] \in Callbacks
    BY <1>5, OwnCall DEF ConfirmPayment, Fits
  <2>2. call[r].tx \in TxIds
    BY <2>1 DEF Callbacks
  <2>3. QED
    BY <1>1, <1>5, <2>2 DEF ConfirmPayment, Ids, Donation, FinalStates
<1>6. CASE DeleteCause(r)
  BY <1>1, <1>6 DEF DeleteCause, Ids, Donation
<1>7. QED
  BY <1>2, <1>3, <1>4, <1>5, <1>6 DEF Step, ReadForReview, ReviewOverflow, DeadlockVictim,
     FindTransaction, MatchDonation, PortfolioCalls

\* A donation that a step adds awaits its review, and its causes are there.
LEMMA AddedRow ==
  ASSUME TypeOK, NEW r \in Requests, Step(r), NEW d \in Ids', d \notin Ids
  PROVE  /\ donations'[d].links \subseteq Live /\ UNCHANGED portfolio
         /\ donations'[d].status = "PENDING_REVIEW" /\ donations'[d].tx = NoTx
<1>1. \E links \in Links, amount \in Amounts : Give(r, links, amount)
  BY DEF Step, Ids, ReadForReview, CommitReview, ReviewOverflow, DeadlockVictim,
     FindTransaction, MatchDonation, ConfirmPayment, PortfolioCalls, DeleteCause
<1>2. PICK links \in Links, amount \in Amounts : Give(r, links, amount)
  BY <1>1
<1> DEFINE c == [kind |-> "give", links |-> links, amount |-> amount]
<1>3. donations' = Append(donations, NewDonation(c)) /\ links \subseteq Live
        /\ UNCHANGED portfolio
  BY <1>2 DEF Give, Ids
<1>4. NewDonation(c) \in Donation
  BY DEF NewDonation, Donation, Statuses
<1>5. donations'[d] = NewDonation(c)
  BY <1>3, <1>4, DonationsTable, AppendProperties DEF TypeOK, Ids
<1>6. /\ NewDonation(c).links = links /\ NewDonation(c).status = "PENDING_REVIEW"
      /\ NewDonation(c).tx = NoTx
  BY DEF NewDonation
<1>7. QED
  BY <1>3, <1>5, <1>6

\* The creation of cause c by request r, with a typed-in total.
Created(r, c, raised) ==
  /\ c \in Causes \ used /\ raised \in {0} \cup TypedIn
  /\ call'[r] = [kind |-> "create", cause |-> c, raised |-> raised]
  /\ answer[r] = "none" /\ answer'[r] = "created"
  /\ causes' = [causes EXCEPT ![c] = NewTotals(raised)]
  /\ used' = used \cup {c}
  /\ UNCHANGED <<donations, notes>>

\* What a step does to the causes.
LEMMA CausesStep ==
  ASSUME TypeOK, NEW r \in Requests, Step(r)
  PROVE  \/ UNCHANGED <<causes, used>> /\ ~CommitReview(r)
         \/ CommitReview(r)
         \/ \E c, raised : Created(r, c, raised)
         \/ /\ call[r] \in Edits /\ call[r].cause \in Live
            /\ causes' = [causes EXCEPT ![call[r].cause].raised = call[r].raised]
            /\ call'[r] = call[r] /\ answer'[r] = "updated"
            /\ UNCHANGED <<used, notes, donations>>
         \/ DeleteCause(r)
<1>1. ASSUME NEW c \in Causes, NEW raised \in {0} \cup TypedIn, CreateCause(r, c, raised),
             UNCHANGED donations
      PROVE  UNCHANGED <<causes, used>> \/ Created(r, c, raised)
  BY <1>1, OwnCall DEF CreateCause, AnswerNow, Created, TypeOK, Fits
<1>2. ASSUME EditCause(r), ~UNCHANGED causes
      PROVE  /\ call[r] \in Edits /\ call[r].cause \in Live
             /\ causes' = [causes EXCEPT ![call[r].cause].raised = call[r].raised]
             /\ call'[r] = call[r] /\ answer'[r] = "updated"
             /\ UNCHANGED <<used, notes>>
  BY <1>2, OwnCall DEF EditCause, Finish, TypeOK, Fits
<1>3. ASSUME PortfolioCalls(r), ~UNCHANGED <<causes, used>>
      PROVE  \/ EditCause(r)
             \/ \E c \in Causes, raised \in {0} \cup TypedIn : CreateCause(r, c, raised)
  BY <1>3 DEF PortfolioCalls, FindForEdit, FindForDelete, FindForNote, FindCause,
     RemoveMissing, AddNote
<1>4. CASE PortfolioCalls(r) /\ ~UNCHANGED <<causes, used>>
  <2>1. CASE EditCause(r)
    BY <1>2, <1>4, <2>1 DEF PortfolioCalls, EditCause
  <2>2. CASE \E c \in Causes, raised \in {0} \cup TypedIn : CreateCause(r, c, raised)
    BY <1>1, <1>4, <2>2 DEF PortfolioCalls
  <2>3. QED
    BY <1>3, <1>4, <2>1, <2>2
<1>5. QED
  BY <1>4 DEF Step, Give, ReadForReview, ReviewOverflow, DeadlockVictim, FindTransaction,
     MatchDonation, ConfirmPayment, portfolio

\* Totals are not the mark of a cause that is not there.
LEMMA TotalsAreThere == \A t \in Totals : t # NoCause
  BY NoCauseAssumption DEF Totals

\* Only a deletion takes a cause away, and only a creation adds one.
LEMMA LiveStep ==
  ASSUME TypeOK, LinksResolve, NEW r \in Requests, Step(r)
  PROVE  /\ ~DeleteCause(r) => Live \subseteq Live'
         /\ DeleteCause(r) => Live' = Live \ {call[r].cause}
         /\ \A c \in Live' \ Live : \E raised : Created(r, c, raised)
<1>1. CASE UNCHANGED <<causes, used>> /\ ~CommitReview(r)
  <2>1. ~DeleteCause(r)
    BY <1>1 DEF DeleteCause, RemoveCause, Live, TypeOK, PortfolioTypeOK
  <2>2. QED
    BY <1>1, <2>1 DEF Live
<1>2. CASE CommitReview(r)
  <2>1. call[r] \in Reviews /\ call[r].donation \in Ids /\ pc[r] = "write"
    BY <1>2, OwnCall DEF CommitReview, Fits
  <2>2. ~DeleteCause(r)
    BY <2>1 DEF DeleteCause, RemoveCause
  <2>3. \A c \in Causes : causes'[c] = causes[c] \/ (c \in Live /\ causes'[c] \in Totals)
    BY <1>2, <2>1, CreditedTotals, TotalsAreThere DEF CommitReview, Live
  <2>4. Live' = Live
    BY <2>3, TotalsAreThere DEF Live
  <2>5. QED
    BY <2>2, <2>4
<1>3. CASE \E c, raised : Created(r, c, raised)
  <2>1. PICK c, raised : Created(r, c, raised)
    BY <1>3
  <2>2. ~DeleteCause(r)
    BY <2>1 DEF Created, DeleteCause, RemoveCause
  <2>3. NewTotals(raised) # NoCause
    BY <2>1, TotalsAssumption, TotalsAreThere DEF Created, NewTotals, Totals
  <2>4. Live \subseteq Live' /\ Live' \subseteq Live \cup {c}
    BY <2>1, <2>3 DEF Created, Live, TypeOK, PortfolioTypeOK
  <2>5. QED
    BY <2>1, <2>2, <2>4
<1>4. CASE /\ call[r] \in Edits /\ call[r].cause \in Live
           /\ causes' = [causes EXCEPT ![call[r].cause].raised = call[r].raised]
           /\ UNCHANGED <<used, notes, donations>>
  <2> DEFINE c == call[r].cause
  <2>1. causes[c] \in Totals /\ call[r].raised \in 0 .. MaxInt
    BY <1>4, TotalsAssumption DEF Live, Edits, TypeOK, PortfolioTypeOK
  <2>2. [causes[c] EXCEPT !.raised = call[r].raised] \in Totals
    BY <2>1 DEF Totals
  <2>3. Live' = Live
    BY <1>4, <2>2, TotalsAreThere DEF Live, TypeOK, PortfolioTypeOK
  <2>4. ~DeleteCause(r)
    BY <1>4, <2>2, TotalsAreThere DEF DeleteCause, RemoveCause, Live, TypeOK, PortfolioTypeOK
  <2>5. QED
    BY <2>3, <2>4
<1>5. CASE DeleteCause(r)
  BY <1>5 DEF DeleteCause, RemoveCause, Live, TypeOK, PortfolioTypeOK
<1>6. QED
  BY <1>1, <1>2, <1>3, <1>4, <1>5, CausesStep

\* Links and notes lead to causes that are there after each step.
LEMMA LinksKept ==
  ASSUME TypeOK, LinksResolve, [Next]_vars
  PROVE  LinksResolve'
<1>1. CASE UNCHANGED vars
  BY <1>1 DEF vars, LinksResolve, Ids, Live
<1>2. ASSUME NEW r \in Requests, Step(r) PROVE LinksResolve'
  <2>1. ASSUME NEW d \in Ids' PROVE donations'[d].links \subseteq Live'
    <3>1. CASE d \in Ids
      <4>1. donations[d].links \subseteq Live
        BY <3>1 DEF LinksResolve
      <4>2. CASE DeleteCause(r)
        <5>1. donations'[d].links = donations[d].links \ {call[r].cause}
          BY <3>1, <4>2, DonationsTable DEF DeleteCause, Ids, Donation
        <5>2. QED
          BY <1>2, <4>1, <4>2, <5>1, LiveStep
      <4>3. CASE ~DeleteCause(r)
        BY <1>2, <3>1, <4>1, <4>3, RowStep, LiveStep
      <4>4. QED
        BY <4>2, <4>3
    <3>2. CASE d \notin Ids
      BY <1>2, <3>2, AddedRow DEF Live, portfolio
    <3>3. QED
      BY <3>1, <3>2
  <2>2. ASSUME NEW n \in Requests PROVE notes'[n] \in Live' \cup {NoCause}
    <3>1. CASE DeleteCause(r)
      BY <1>2, <3>1, LiveStep DEF LinksResolve, DeleteCause, RemoveCause
    <3>2. CASE AddNote(r)
      BY <1>2, <3>2, LiveStep DEF LinksResolve, AddNote, Live, TypeOK, PortfolioTypeOK
    <3>3. CASE ~DeleteCause(r) /\ ~AddNote(r)
      <4>1. UNCHANGED notes
        BY <1>2, <3>3 DEF Step, Give, ReadForReview, CommitReview, ReviewOverflow,
           DeadlockVictim, FindTransaction, MatchDonation, ConfirmPayment, PortfolioCalls,
           CreateCause, FindForEdit, EditCause, FindForDelete, FindForNote, FindCause,
           RemoveMissing, portfolio
      <4>2. QED
        BY <1>2, <3>3, <4>1, LiveStep DEF LinksResolve
    <3>4. QED
      BY <3>1, <3>2, <3>3
  <2>3. QED
    BY <2>1, <2>2 DEF LinksResolve
<1>3. QED
  BY <1>1, <1>2, NextIsStep

LEMMA InitLinks == Init => LinksResolve
  BY EmptySeq DEF Init, PortfolioInit, LinksResolve, Ids

\* Every table, call and answer has its type in every state, and no total leaves its
\* column, however gifts, reviews, callbacks and the portfolio's calls interleave.
THEOREM TypeCorrect == Spec => []TypeOK
  BY InitType, NextType, InitLinks, LinksKept, PTL DEF Spec

\* Whatever hangs off a cause leads to one that exists, so that adminUpdateStatus may
\* credit the causes of a donation without a look.
THEOREM LinksLead == Spec => []LinksResolve
  BY InitType, NextType, InitLinks, LinksKept, PTL DEF Spec

-----------------------------------------------------------------------------
(* What decided a donation *)

\* An admin was told that donation d has been set to status to.
SetByAdmin(d, to) ==
  \E r \in Requests : /\ answer[r] = "updated"
                      /\ call[r].kind = "review"
                      /\ call[r].donation = d
                      /\ call[r].to = to

\* A callback that found its donation found one that an admin sent to the gateway.
MatchedAfterAdmin ==
  \A r \in Requests :
    pc[r] = "confirm" => SetByAdmin(call[r].donation, "PENDING_CONFIRMATION")

\* A completed donation without a transaction id was completed by an admin.
CompletedByAdmin ==
  \A d \in Ids :
    donations[d].status = "COMPLETED" /\ donations[d].tx = NoTx => SetByAdmin(d, "COMPLETED")

DecisionsInv == GatewayOnlyAfterAdmin /\ MatchedAfterAdmin /\ CompletedByAdmin

LEMMA SetStays ==
  ASSUME TypeOK, NEW r \in Requests, Step(r), NEW d, NEW to, SetByAdmin(d, to)
  PROVE  SetByAdmin(d, to)'
<1>1. PICK q \in Requests : /\ answer[q] = "updated"
                            /\ call[q].kind = "review"
                            /\ call[q].donation = d
                            /\ call[q].to = to
  BY DEF SetByAdmin
<1>2. call'[q] = call[q] /\ answer'[q] = answer[q]
  BY <1>1, AnsweredStays
<1>3. QED
  BY <1>1, <1>2 DEF SetByAdmin

\* The review that commits is the one that set the donation.
LEMMA CommitSets ==
  ASSUME TypeOK, NEW r \in Requests, CommitReview(r),
         NEW d, d = call[r].donation, NEW to, to = call[r].to
  PROVE  SetByAdmin(d, to)'
<1>1. call[r].kind = "review"
  BY OwnCall DEF CommitReview, Fits, Reviews
<1>2. call'[r] = call[r] /\ answer'[r] = "updated"
  BY DEF CommitReview, Finish, TypeOK
<1>3. QED
  BY <1>1, <1>2 DEF SetByAdmin

LEMMA DecisionsKept ==
  ASSUME TypeOK, DecisionsInv, [Next]_vars
  PROVE  DecisionsInv'
<1>1. CASE UNCHANGED vars
  BY <1>1 DEF vars, DecisionsInv, GatewayOnlyAfterAdmin, MatchedAfterAdmin,
     CompletedByAdmin, SetByAdmin, Ids
<1>2. ASSUME NEW r \in Requests, Step(r) PROVE DecisionsInv'
  <2>1. ASSUME NEW d \in Ids',
               donations'[d].tx # NoTx \/ donations'[d].status = "PENDING_CONFIRMATION"
        PROVE  SetByAdmin(d, "PENDING_CONFIRMATION")'
    <3>1. d \in Ids
      BY <1>2, <2>1, AddedRow
    <3>2. CASE donations[d].tx # NoTx \/ donations[d].status = "PENDING_CONFIRMATION"
      <4>1. SetByAdmin(d, "PENDING_CONFIRMATION")
        BY <1>2, <3>1, <3>2 DEF DecisionsInv, GatewayOnlyAfterAdmin, SetByAdmin
      <4>2. QED
        BY <1>2, <4>1, SetStays
    <3>3. CASE ~(donations[d].tx # NoTx \/ donations[d].status = "PENDING_CONFIRMATION")
      <4>1. CASE CommitReview(r) /\ call[r].donation = d
                   /\ donations'[d].status = call[r].to /\ donations'[d].tx = donations[d].tx
        BY <2>1, <3>3, <4>1, CommitSets
      <4>2. CASE ConfirmPayment(r) /\ call[r].donation = d
        <5>1. SetByAdmin(d, "PENDING_CONFIRMATION")
          BY <4>2 DEF DecisionsInv, MatchedAfterAdmin, ConfirmPayment
        <5>2. QED
          BY <1>2, <5>1, SetStays
      <4>3. QED
        BY <1>2, <2>1, <3>1, <3>3, <4>1, <4>2, RowStep
    <3>4. QED
      BY <3>2, <3>3
  <2>2. ASSUME NEW q \in Requests, pc'[q] = "confirm", NEW e, e = call'[q].donation
        PROVE  SetByAdmin(e, "PENDING_CONFIRMATION")'
    <3>1. CASE pc[q] = "confirm" /\ call'[q] = call[q]
      BY <1>2, <2>2, <3>1, SetStays DEF DecisionsInv, MatchedAfterAdmin
    <3>2. CASE ~(pc[q] = "confirm" /\ call'[q] = call[q])
      <4>1. q = r
        BY <1>2, <2>2, <3>2, OneMoves
      <4>2. /\ \A c, p : Proceed(r, c, p) => pc'[r] = p
            /\ \A c, a : AnswerNow(r, c, a) => pc'[r] = "done"
            /\ \A a : Finish(r, a) => pc'[r] = "done"
        BY DEF Proceed, AnswerNow, Finish, TypeOK
      <4>3. MatchDonation(r)
        BY <1>2, <2>2, <4>1, <4>2 DEF Step, Give, ReadForReview, CommitReview,
           ReviewOverflow, DeadlockVictim, FindTransaction, ConfirmPayment, PortfolioCalls,
           CreateCause, FindForEdit, EditCause, FindForDelete, FindForNote, FindCause,
           RemoveMissing, AddNote, DeleteCause, RemoveCause
      <4> DEFINE d == Min(Matching(call[r]))
      <4>4. /\ Matching(call[r]) # {}
            /\ call' = [call EXCEPT ![r].donation = d]
            /\ pc[r] = "match"
        BY <2>2, <4>1, <4>2, <4>3 DEF MatchDonation
      <4>5. d \in Ids /\ donations[d].status = "PENDING_CONFIRMATION"
        BY <4>4, LeastMatch DEF Matching
      <4>6. call'[r].donation = d
        <5>1. call[r] \in Callbacks
          BY <4>4, OwnCall DEF Fits
        <5>2. QED
          BY <4>4, <5>1 DEF Callbacks, TypeOK
      <4> HIDE DEF d
      <4>7. SetByAdmin(d, "PENDING_CONFIRMATION")
        BY <4>5 DEF DecisionsInv, GatewayOnlyAfterAdmin, SetByAdmin
      <4>8. QED
        BY <1>2, <2>2, <4>1, <4>6, <4>7, SetStays
    <3>3. QED
      BY <3>1, <3>2
  <2>3. ASSUME NEW d \in Ids', donations'[d].status = "COMPLETED", donations'[d].tx = NoTx
        PROVE  SetByAdmin(d, "COMPLETED")'
    <3>1. d \in Ids
      BY <1>2, <2>3, AddedRow
    <3>2. CASE donations[d].status = "COMPLETED" /\ donations[d].tx = NoTx
      BY <1>2, <3>1, <3>2, SetStays DEF DecisionsInv, CompletedByAdmin
    <3>3. CASE CommitReview(r) /\ call[r].donation = d /\ donations'[d].status = call[r].to
      BY <2>3, <3>3, CommitSets
    <3>4. QED
      BY <1>2, <2>3, <3>1, <3>2, <3>3, RowStep, NoTxAssumption
  <2>4. GatewayOnlyAfterAdmin'
    BY <2>1 DEF GatewayOnlyAfterAdmin, SetByAdmin
  <2>5. MatchedAfterAdmin'
    BY <2>2 DEF MatchedAfterAdmin, SetByAdmin
  <2>6. CompletedByAdmin'
    BY <2>3 DEF CompletedByAdmin
  <2>7. QED
    BY <2>4, <2>5, <2>6 DEF DecisionsInv
<1>3. QED
  BY <1>1, <1>2, NextIsStep

LEMMA InitDecisions == Init => DecisionsInv
  BY EmptySeq DEF Init, PortfolioInit, DecisionsInv, GatewayOnlyAfterAdmin,
     MatchedAfterAdmin, CompletedByAdmin, Ids

\* handleWebhook decides only donations that adminUpdateStatus sent to the gateway: no
\* method of payment does, so without an admin no donation waits for a callback.
THEOREM GatewayAfterAdmin == Spec => []GatewayOnlyAfterAdmin
<1>1. DecisionsInv => GatewayOnlyAfterAdmin
  BY DEF DecisionsInv
<1>2. TypeOK /\ DecisionsInv /\ [Next]_vars => DecisionsInv'
  BY DecisionsKept
<1>3. QED
  BY <1>1, <1>2, InitDecisions, TypeCorrect, PTL DEF Spec

-----------------------------------------------------------------------------
(* The books *)

\* The creation of cause c, that an admin was told had succeeded.
Creates(r, c) == answer[r] = "created" /\ call[r].kind = "create" /\ call[r].cause = c

\* An id is given to a cause once: to those there from the start, or by the one
\* creation that names it.
IdsInv ==
  /\ Live \cup Existing \subseteq used
  /\ \A r \in Requests, c \in Causes :
       Creates(r, c) =>
         c \in used \ Existing /\ \A q \in Requests : Creates(q, c) => q = r
  /\ \A c \in Live \ Existing : \E r \in Requests : Creates(r, c)

\* Who is told that a cause has been created.
LEMMA NewCreation ==
  ASSUME TypeOK, NEW r \in Requests, Step(r), NEW q \in Requests, NEW c, Creates(q, c)'
  PROVE  Creates(q, c) \/ (q = r /\ \E raised : Created(r, c, raised))
<1>1. CASE answer[q] # "none"
  BY <1>1, AnsweredStays DEF Creates
<1>2. CASE answer[q] = "none"
  <2>1. q = r
    BY <1>2, OneMoves DEF Creates
  <2>2. /\ \A d, p : ~Proceed(r, d, p)
        /\ \A d, a : AnswerNow(r, d, a) => call'[r] = d /\ answer'[r] = a
        /\ \A a : Finish(r, a) => call'[r] = call[r] /\ answer'[r] = a
    BY <1>2, <2>1 DEF Proceed, AnswerNow, Finish, TypeOK, Creates
  <2>3. AddNote(r) => FALSE
    BY <2>1, <2>2, OwnCall DEF AddNote, Fits, Notes, Creates
  <2>4. \A links, amount : ~Give(r, links, amount)
    BY <2>1, <2>2 DEF Give, Creates
  <2>5. ~CommitReview(r) /\ ~ReviewOverflow(r) /\ ~DeadlockVictim(r) /\ ~MatchDonation(r)
          /\ ~ConfirmPayment(r) /\ ~DeleteCause(r)
    BY <1>2, <2>1, <2>2 DEF CommitReview, ReviewOverflow, DeadlockVictim, MatchDonation,
       ConfirmPayment, DeleteCause, RemoveCause, Creates
  <2>6. /\ \A d, to : ~ReadForReview(r, d, to)
        /\ \A tx, amount, success : ~FindTransaction(r, tx, amount, success)
        /\ \A d, p : ~FindCause(r, d, p)
    BY <2>1, <2>2 DEF ReadForReview, FindTransaction, FindCause, Creates
  <2>7. ~EditCause(r) /\ ~RemoveMissing(r)
    BY <2>1, <2>2 DEF EditCause, RemoveMissing, Creates
  <2>8. \E d \in Causes, raised \in {0} \cup TypedIn :
          CreateCause(r, d, raised) /\ UNCHANGED donations
    BY <2>3, <2>4, <2>5, <2>6, <2>7 DEF Step, PortfolioCalls, FindForEdit, FindForDelete,
       FindForNote
  <2>9. PICK d \in Causes, raised \in {0} \cup TypedIn :
          CreateCause(r, d, raised) /\ UNCHANGED donations
    BY <2>8
  <2> DEFINE x == [kind |-> "create", cause |-> d, raised |-> raised]
  <2>10. ~AnswerNow(r, x, "CONFLICT")
    BY <2>1, <2>2 DEF Creates
  <2>11. /\ AnswerNow(r, x, "created") /\ d \notin used
         /\ causes' = [causes EXCEPT ![d] = NewTotals(raised)]
         /\ used' = used \cup {d} /\ UNCHANGED notes
    BY <2>9, <2>10 DEF CreateCause
  <2>12. call'[r] = x /\ answer'[r] = "created"
    BY <2>2, <2>11
  <2>13. c = d
    BY <2>1, <2>12 DEF Creates
  <2>14. Created(r, c, raised)
    BY <1>2, <2>1, <2>9, <2>11, <2>12, <2>13 DEF Created
  <2>15. QED
    BY <2>1, <2>14
<1>3. QED
  BY <1>1, <1>2

LEMMA IdsKept ==
  ASSUME TypeOK, LinksResolve, IdsInv, [Next]_vars
  PROVE  IdsInv'
<1>1. CASE UNCHANGED vars
  BY <1>1 DEF vars, IdsInv, Creates, Live
<1>2. ASSUME NEW r \in Requests, Step(r) PROVE IdsInv'
  <2>1. \A q \in Requests : \A c : Creates(q, c) => Creates(q, c)'
    BY <1>2, AnsweredStays DEF Creates
  <2>2. \A c, raised : Created(r, c, raised) => Creates(r, c)' /\ ~Creates(r, c) /\ c \notin used
    BY DEF Created, Creates
  <2>3. used \subseteq used' /\ \A c, raised : Created(r, c, raised) => c \in used'
    BY <1>2, CausesStep DEF Created, CommitReview, DeleteCause, RemoveCause
  <2>4. Live' \cup Existing \subseteq used'
    BY <1>2, <2>3, LiveStep DEF IdsInv
  <2>5. ASSUME NEW q \in Requests, NEW c \in Causes, Creates(q, c)'
        PROVE  c \in used' \ Existing /\ \A p \in Requests : Creates(p, c)' => p = q
    <3>1. CASE Creates(q, c)
      <4>1. c \in used \ Existing /\ \A p \in Requests : Creates(p, c) => p = q
        BY <3>1 DEF IdsInv
      <4>2. QED
        BY <1>2, <2>2, <2>3, <4>1, NewCreation
    <3>2. CASE ~Creates(q, c)
      <4>1. q = r /\ \E raised : Created(r, c, raised)
        BY <1>2, <2>5, <3>2, NewCreation
      <4>2. c \notin used
        BY <2>2, <4>1
      <4>3. \A p \in Requests : ~Creates(p, c)
        BY <4>2 DEF IdsInv
      <4>4. QED
        BY <1>2, <2>3, <4>1, <4>2, <4>3, NewCreation DEF IdsInv
    <3>3. QED
      BY <3>1, <3>2
  <2>6. ASSUME NEW c \in Live' \ Existing PROVE \E q \in Requests : Creates(q, c)'
    <3>1. CASE c \in Live
      BY <2>1, <3>1 DEF IdsInv
    <3>2. CASE c \notin Live
      BY <1>2, <2>2, <3>2, LiveStep
    <3>3. QED
      BY <3>1, <3>2
  <2>7. QED
    BY <2>4, <2>5, <2>6 DEF IdsInv
<1>3. QED
  BY <1>1, <1>2, NextIsStep

\* The one call that creates a cause is the one that is chosen.
LEMMA ChosenCall ==
  ASSUME NEW S, NEW c, NEW x \in S, x.kind = "create", x.cause = c,
         \A y \in S : y.kind = "create" /\ y.cause = c => y = x
  PROVE  (CHOOSE y \in S : y.kind = "create" /\ y.cause = c) = x
  OBVIOUS

\* Where the total of a cause starts.
LEMMA StartIs ==
  ASSUME TypeOK, IdsInv, NEW c \in Live
  PROVE  /\ StartOf(c) \in Nat
         /\ c \in Existing => StartOf(c) = Opening
         /\ c \notin Existing =>
              \E r \in Requests : Creates(r, c) /\ StartOf(c) = call[r].raised
<1>1. CASE c \in Existing
  BY <1>1, TotalsAssumption DEF StartOf
<1>2. CASE c \notin Existing
  <2>1. PICK r \in Requests : Creates(r, c)
    BY <1>2 DEF IdsInv
  <2>2. StartOf(c) = call[r].raised
    <3> DEFINE S == {call[q] : q \in {p \in Requests : answer[p] = "created"}}
    <3>1. \A y \in S : y.kind = "create" /\ y.cause = c => y = call[r]
      BY <2>1 DEF IdsInv, Creates, Live
    <3>2. (CHOOSE y \in S : y.kind = "create" /\ y.cause = c) = call[r]
      BY <2>1, <3>1, ChosenCall DEF Creates
    <3>3. QED
      BY <1>2, <3>2 DEF StartOf
  <2>3. call[r] \in Creations
    <3>1. call[r] \in Gifts \cup Creations \cup Notes
      BY <2>1, OwnCall DEF Creates, Fits
    <3>2. QED
      BY <2>1, <3>1 DEF Creates, Gifts, Notes
  <2>4. call[r].raised \in Nat
    <3>1. call[r].raised \in {0} \cup TypedIn
      BY <2>3 DEF Creations
    <3>2. {0} \cup TypedIn \subseteq Nat
      BY TotalsAssumption
    <3>3. QED
      BY <3>1, <3>2
  <2>5. QED
    BY <1>2, <2>1, <2>2, <2>4
<1>3. QED
  BY <1>1, <1>2

\* The approvals whose donation is given for cause c.
Credits(c) == {r \in Approvals : c \in Gift(r).links}

\* The amounts of the approvals in a set.
AmountsOf(R) == [r \in R |-> Gift(r).amount]

\* The books balance, and there are finitely many entries in them.
BooksInv == IsFiniteSet(Approvals) /\ BooksBalance

\* An approval is a review of a donation of the table.
LEMMA ApprovalType ==
  ASSUME TypeOK, NEW r \in Approvals
  PROVE  r \in Requests /\ call[r].donation \in Ids /\ Gift(r) \in Donation
           /\ Gift(r).amount \in Nat
<1>1. r \in Requests /\ call[r].donation \in Ids
  BY OwnCall DEF Approvals, Fits
<1>2. Gift(r) \in Donation
  BY <1>1, DonationsTable DEF Gift
<1>3. QED
  BY <1>1, <1>2, AmountsAssumption DEF Donation

\* What a step does to the approvals: it adds the review that commits, if it completes
\* its donation, and leaves the others with what they credited.
LEMMA ApprovalsStep ==
  ASSUME TypeOK, NEW r \in Requests, Step(r)
  PROVE  /\ Approvals' = IF CommitReview(r) /\ call[r].to = "COMPLETED"
                         THEN Approvals \cup {r} ELSE Approvals
         /\ r \notin Approvals
         /\ CommitReview(r) => call'[r] = call[r]
         /\ \A q \in Approvals : call'[q] = call[q]
<1>1. \A q \in Approvals : q \in Requests /\ q # r /\ call'[q] = call[q] /\ q \in Approvals'
  BY AnsweredStays DEF Approvals
<1>2. ASSUME CommitReview(r) PROVE call[r] \in Reviews /\ call'[r] = call[r] /\ answer'[r] = "updated"
  BY <1>2, OwnCall DEF CommitReview, Finish, Fits, TypeOK
<1>3. CommitReview(r) /\ call[r].to = "COMPLETED" => r \in Approvals'
  BY <1>2 DEF Approvals, Reviews
<1>4. ASSUME NEW q \in Approvals', q \notin Approvals
      PROVE  q = r /\ CommitReview(r) /\ call[r].to = "COMPLETED"
  <2>1. q \in Requests /\ answer'[q] = "updated" /\ call'[q].kind = "review"
          /\ call'[q].to = "COMPLETED"
    BY <1>4 DEF Approvals
  <2>2. q = r
    BY <1>4, <2>1, OneMoves DEF Approvals
  <2>3. answer[r] = "none"
    BY <2>2, OneMoves, OwnCall DEF Fits
  <2>4. /\ \A c, p : ~Proceed(r, c, p)
        /\ \A c, a : AnswerNow(r, c, a) => a = "updated"
        /\ \A a : Finish(r, a) => a = "updated" /\ call'[r] = call[r]
    BY <2>1, <2>2, <2>3 DEF Proceed, AnswerNow, Finish, TypeOK
  <2>5. CommitReview(r)
    <3>1. ~ConfirmPayment(r)
      BY <2>1, <2>2, <2>4, OwnCall DEF ConfirmPayment, Fits, Callbacks
    <3>2. ~EditCause(r)
      BY <2>1, <2>2, <2>4, OwnCall DEF EditCause, Fits, Edits
    <3>3. ~DeleteCause(r)
      BY <2>1, <2>2, <2>4, OwnCall DEF DeleteCause, RemoveCause, Fits, Deletions
    <3>4. ~ReviewOverflow(r) /\ ~DeadlockVictim(r) /\ ~RemoveMissing(r) /\ ~AddNote(r)
      BY <2>4 DEF ReviewOverflow, DeadlockVictim, RemoveMissing, AddNote
    <3>5. ~MatchDonation(r)
      BY <2>1, <2>2, <2>3, <2>4 DEF MatchDonation
    <3>6. /\ \A links, amount : ~Give(r, links, amount)
          /\ \A d, to : ~ReadForReview(r, d, to)
          /\ \A tx, amount, success : ~FindTransaction(r, tx, amount, success)
      BY <2>4 DEF Give, ReadForReview, FindTransaction
    <3>7. /\ \A c, raised : ~CreateCause(r, c, raised)
          /\ \A c, p : ~FindCause(r, c, p)
      BY <2>4 DEF CreateCause, FindCause
    <3>8. ~PortfolioCalls(r)
      BY <3>2, <3>4, <3>7 DEF PortfolioCalls, FindForEdit, FindForDelete, FindForNote
    <3>9. QED
      BY <3>1, <3>3, <3>4, <3>5, <3>6, <3>8 DEF Step
  <2>6. QED
    BY <2>1, <2>2, <2>5, <1>2
<1>5. QED
  BY <1>1, <1>2, <1>3, <1>4

\* What a step that leaves cause c there does to its credits.
LEMMA CreditsStep ==
  ASSUME TypeOK, LinksResolve, NEW r \in Requests, Step(r), NEW c \in Live'
  PROVE  /\ Credits(c)' = IF CommitReview(r) /\ c \in Credited(r)
                          THEN Credits(c) \cup {r} ELSE Credits(c)
         /\ r \notin Credits(c)
         /\ CommitReview(r) => Gift(r)' = [Gift(r) EXCEPT !.status = call[r].to]
         /\ \A q \in Credits(c) : Gift(q)'.amount = Gift(q).amount
<1>1. ASSUME NEW q \in Approvals
      PROVE  Gift(q)'.amount = Gift(q).amount /\ (c \in Gift(q)'.links <=> c \in Gift(q).links)
  <2>1. call'[q] = call[q] /\ call[q].donation \in Ids
    BY ApprovalsStep, ApprovalType
  <2>2. ~DeleteCause(r) \/ c # call[r].cause
    BY LiveStep
  <2>3. QED
    BY <2>1, <2>2, RowStep DEF Gift
<1>2. ASSUME CommitReview(r)
      PROVE  /\ Gift(r)' = [Gift(r) EXCEPT !.status = call[r].to]
             /\ c \in Gift(r)'.links <=> c \in Gift(r).links
             /\ c \in Credited(r) <=> call[r].to = "COMPLETED" /\ c \in Gift(r).links
  <2>1. call'[r] = call[r] /\ call[r].donation \in Ids
    BY <1>2, ApprovalsStep, OwnCall DEF CommitReview, Fits
  <2>2. donations[call[r].donation] \in Donation
    BY <2>1, DonationsTable
  <2>3. Gift(r)' = [Gift(r) EXCEPT !.status = call[r].to]
    BY <1>2, <2>1 DEF CommitReview, Gift, Ids
  <2>4. QED
    BY <2>2, <2>3 DEF Credited, Gift, Donation
<1>3. r \notin Approvals
  BY ApprovalsStep
<1>4. Credits(c)' = {q \in Approvals' : c \in Gift(q)'.links}
  BY DEF Credits
<1>5. QED
  BY <1>1, <1>2, <1>3, <1>4, ApprovalsStep DEF Credits

\* A credit adds its amount to the sum and one supporter to the count.
LEMMA OneMoreCredit ==
  ASSUME NEW S, IsFiniteSet(S), NEW r, r \notin S, NEW f, NEW h,
         DOMAIN f = S, DOMAIN h = S \cup {r},
         \A q \in S : f[q] \in Nat /\ h[q] = f[q], h[r] \in Nat
  PROVE  /\ SumFunction(h) = SumFunction(f) + h[r]
         /\ SumFunction(f) \in Nat
         /\ Cardinality(S \cup {r}) = Cardinality(S) + 1
<1>1. SumFunctionOnSet(h, S \cup {r}) = h[r] + SumFunctionOnSet(h, S)
  BY SumAdd
<1>2. SumFunctionOnSet(f, S) = SumFunctionOnSet(h, S) /\ SumFunctionOnSet(f, S) \in Nat
  BY SumExtensional, SumBasics
<1>3. QED
  BY <1>1, <1>2, FS_AddElement DEF SumFunction

\* A cause's total as the books have it.
Balanced(c) ==
  /\ causes[c].raised = StartOf(c) + SumFunction(AmountsOf(Credits(c)))
  /\ causes[c].supporters = Cardinality(Credits(c))

LEMMA BooksAreBalanced == BooksBalance <=> \A c \in Derived : Balanced(c)
  BY DEF BooksBalance, Balanced, Credits, AmountsOf

\* A creation, and with it the start of a total, stays.
LEMMA StartStays ==
  ASSUME TypeOK, IdsInv, TypeOK', IdsInv', NEW r \in Requests, Step(r),
         NEW c \in Live, c \in Live'
  PROVE  StartOf(c)' = StartOf(c)
<1>1. CASE c \in Existing
  BY <1>1, StartIs DEF StartOf
<1>2. CASE c \notin Existing
  <2>1. PICK q \in Requests : Creates(q, c) /\ StartOf(c) = call[q].raised
    BY <1>2, StartIs
  <2>2. Creates(q, c)' /\ call'[q] = call[q]
    BY <2>1, AnsweredStays DEF Creates
  <2>3. StartOf(c)' = call'[q].raised
    <3> DEFINE S == {call'[p] : p \in {x \in Requests : answer'[x] = "created"}}
    <3>1. \A y \in S : y.kind = "create" /\ y.cause = c => y = call'[q]
      BY <2>2 DEF IdsInv, Creates, Live
    <3>2. (CHOOSE y \in S : y.kind = "create" /\ y.cause = c) = call'[q]
      BY <2>2, <3>1, ChosenCall DEF Creates
    <3>3. QED
      BY <1>2, <3>2 DEF StartOf
  <2>4. QED
    BY <2>1, <2>2, <2>3
<1>3. QED
  BY <1>1, <1>2

\* What a step does to the total of a cause that is there after it.
LEMMA CauseStep ==
  ASSUME TypeOK, LinksResolve, NEW r \in Requests, Step(r), NEW c \in Live'
  PROVE  \/ /\ c \in Live /\ causes'[c] = causes[c]
            /\ ~(CommitReview(r) /\ c \in Credited(r))
         \/ /\ c \in Live /\ CommitReview(r) /\ c \in Credited(r)
            /\ causes'[c] = [raised |-> causes[c].raised + Gift(r).amount,
                             supporters |-> causes[c].supporters + 1]
         \/ call[r] \in Edits /\ call[r].cause = c /\ call'[r] = call[r] /\ answer'[r] = "updated"
         \/ \E raised : Created(r, c, raised)
<1>1. CASE c \notin Live
  BY <1>1, LiveStep
<1>2. CASE c \in Live /\ CommitReview(r)
  BY <1>2 DEF CommitReview, Gift, Live
<1>3. CASE c \in Live /\ ~CommitReview(r)
  <2>1. CASE \E d, raised : Created(r, d, raised)
    BY <1>3, <2>1 DEF Created, TypeOK, PortfolioTypeOK, Live
  <2>2. CASE DeleteCause(r)
    BY <1>3, <2>2, LiveStep DEF DeleteCause, RemoveCause, TypeOK, PortfolioTypeOK, Live
  <2>3. CASE /\ call[r] \in Edits /\ call[r].cause \in Live
             /\ causes' = [causes EXCEPT ![call[r].cause].raised = call[r].raised]
             /\ call'[r] = call[r] /\ answer'[r] = "updated"
    BY <1>3, <2>3 DEF TypeOK, PortfolioTypeOK, Live
  <2>4. QED
    BY <1>3, <2>1, <2>2, <2>3, CausesStep
<1>4. QED
  BY <1>1, <1>2, <1>3

\* A total that no edit replaced before a step was not replaced after fewer edits.
LEMMA DerivedBefore ==
  ASSUME TypeOK, NEW r \in Requests, Step(r), NEW c \in Derived', c \in Live
  PROVE  c \in Derived
  BY AnsweredStays DEF Derived

LEMMA BooksKept ==
  ASSUME TypeOK, LinksResolve, IdsInv, BooksInv, TypeOK', IdsInv', [Next]_vars
  PROVE  BooksInv'
<1>1. CASE UNCHANGED vars
  <2>1. Approvals' = Approvals /\ Derived' = Derived
    BY <1>1 DEF vars, Approvals, Derived, Live
  <2>2. \A c : StartOf(c)' = StartOf(c)
    BY <1>1 DEF vars, StartOf
  <2>3. \A c : Credits(c)' = Credits(c) /\ AmountsOf(Credits(c))' = AmountsOf(Credits(c))
    BY <1>1, <2>1 DEF vars, Credits, AmountsOf, Gift
  <2>4. \A c \in Derived' : Balanced(c)'
    BY <1>1, <2>1, <2>2, <2>3, BooksAreBalanced DEF vars, BooksInv, Balanced
  <2>5. BooksBalance'
    BY <2>4 DEF BooksBalance, Balanced, Credits, AmountsOf
  <2>6. QED
    BY <2>1, <2>5 DEF BooksInv
<1>2. ASSUME NEW r \in Requests, Step(r) PROVE BooksInv'
  <2>1. IsFiniteSet(Approvals')
    BY <1>2, ApprovalsStep, FS_AddElement DEF BooksInv
  <2>2. ASSUME NEW c \in Derived' PROVE Balanced(c)'
    <3>1. c \in Live'
      BY DEF Derived
    <3> DEFINE S == Credits(c)
               f == AmountsOf(Credits(c))
               h == AmountsOf(Credits(c))'
    <3>2. IsFiniteSet(S)
      BY FS_Subset DEF BooksInv, Credits
    <3>3. \A q \in S : q \in Approvals /\ Gift(q).amount \in Nat
      BY ApprovalType DEF Credits
    <3>4. CASE c \in Live /\ causes'[c] = causes[c] /\ ~(CommitReview(r) /\ c \in Credited(r))
      <4>1. Balanced(c)
        BY <1>2, <3>4, DerivedBefore, BooksAreBalanced DEF BooksInv
      <4>2. Credits(c)' = Credits(c) /\ \A q \in Credits(c) : Gift(q)'.amount = Gift(q).amount
        BY <1>2, <3>1, <3>4, CreditsStep
      <4>3. AmountsOf(Credits(c))' = AmountsOf(Credits(c))
        BY <4>2 DEF AmountsOf
      <4>4. StartOf(c)' = StartOf(c)
        BY <1>2, <3>1, <3>4, StartStays
      <4>5. QED
        BY <3>4, <4>1, <4>2, <4>3, <4>4 DEF Balanced
    <3>5. CASE /\ c \in Live /\ CommitReview(r) /\ c \in Credited(r)
               /\ causes'[c] = [raised |-> causes[c].raised + Gift(r).amount,
                                supporters |-> causes[c].supporters + 1]
      <4>1. Balanced(c)
        BY <1>2, <3>5, DerivedBefore, BooksAreBalanced DEF BooksInv
      <4>2. /\ Credits(c)' = S \cup {r} /\ r \notin S
            /\ Gift(r)' = [Gift(r) EXCEPT !.status = call[r].to]
            /\ \A q \in S : Gift(q)'.amount = Gift(q).amount
        BY <1>2, <3>1, <3>5, CreditsStep
      <4>3. Gift(r) \in Donation /\ Gift(r).amount \in Nat
        BY <3>5, OwnCall, DonationsTable, AmountsAssumption DEF CommitReview, Fits, Gift, Donation
      <4>4. Gift(r)'.amount = Gift(r).amount
        BY <4>2, <4>3 DEF Donation
      <4>5. /\ DOMAIN f = S /\ DOMAIN h = S \cup {r}
            /\ \A q \in S : f[q] \in Nat /\ h[q] = f[q]
            /\ h[r] = Gift(r).amount
        BY <3>3, <4>2, <4>4 DEF AmountsOf
      <4> HIDE DEF f, h, S
      <4>6. /\ SumFunction(h) = SumFunction(f) + Gift(r).amount
            /\ SumFunction(f) \in Nat
            /\ Cardinality(S \cup {r}) = Cardinality(S) + 1
        BY <3>2, <4>2, <4>3, <4>5, OneMoreCredit
      <4>7. StartOf(c)' = StartOf(c) /\ StartOf(c) \in Nat
        BY <1>2, <3>1, <3>5, StartStays, StartIs
      <4>8. causes'[c].raised = StartOf(c)' + SumFunction(h)
        <5>1. causes[c].raised = StartOf(c) + SumFunction(f)
          BY <4>1 DEF Balanced, f
        <5>2. causes'[c].raised = causes[c].raised + Gift(r).amount
          BY <3>5
        <5>3. QED
          BY <4>3, <4>6, <4>7, <5>1, <5>2
      <4>9. causes'[c].supporters = Cardinality(Credits(c)')
        BY <3>5, <4>1, <4>2, <4>6 DEF Balanced, S
      <4>10. QED
        BY <4>8, <4>9 DEF Balanced, h
    <3>6. CASE call[r] \in Edits /\ call[r].cause = c /\ call'[r] = call[r] /\ answer'[r] = "updated"
      BY <3>6 DEF Derived, Edits
    <3>7. CASE \E raised : Created(r, c, raised)
      <4>1. PICK raised : Created(r, c, raised)
        BY <3>7
      <4>2. c \notin Live /\ c \notin Existing /\ c \in Causes
        BY <4>1 DEF Created, IdsInv
      <4>3. ~CommitReview(r)
        BY <4>1 DEF Created, CommitReview, Finish, TypeOK
      <4>4. Credits(c) = {}
        BY <4>2, ApprovalType DEF Credits, LinksResolve, Gift
      <4>5. Credits(c)' = {}
        BY <1>2, <3>1, <4>3, <4>4, CreditsStep
      <4>6. SumFunction(AmountsOf(Credits(c)))' = 0
        <5>1. DOMAIN h = {}
          BY <4>5 DEF AmountsOf
        <5> HIDE DEF h
        <5>2. SumFunction(h) = 0
          BY <5>1, SumBasics, FS_EmptySet DEF SumFunction
        <5>3. QED
          BY <5>2 DEF h
      <4>7. StartOf(c)' = raised
        <5> DEFINE T == {call'[p] : p \in {x \in Requests : answer'[x] = "created"}}
        <5>1. Creates(r, c)' /\ call'[r].raised = raised
          BY <4>1 DEF Created, Creates
        <5>2. \A y \in T : y.kind = "create" /\ y.cause = c => y = call'[r]
          BY <4>2, <5>1 DEF IdsInv, Creates
        <5>3. (CHOOSE y \in T : y.kind = "create" /\ y.cause = c) = call'[r]
          BY <5>1, <5>2, ChosenCall DEF Creates
        <5>4. QED
          BY <4>2, <5>1, <5>3 DEF StartOf
      <4>8. causes'[c].raised = raised /\ causes'[c].supporters = 0 /\ raised \in Nat
        <5>1. raised \in {0} \cup TypedIn /\ TypedIn \subseteq Nat
          BY <4>1, TotalsAssumption DEF Created
        <5>2. causes'[c] = NewTotals(raised)
          BY <4>1, <4>2 DEF Created, TypeOK, PortfolioTypeOK
        <5>3. QED
          BY <5>1, <5>2 DEF NewTotals
      <4>9. QED
        BY <4>5, <4>6, <4>7, <4>8, FS_EmptySet DEF Balanced
    <3>8. QED
      BY <1>2, <3>1, <3>4, <3>5, <3>6, <3>7, CauseStep
  <2>3. BooksBalance'
    BY <2>2 DEF BooksBalance, Balanced, Credits, AmountsOf
  <2>4. QED
    BY <2>1, <2>3 DEF BooksInv
<1>3. QED
  BY <1>1, <1>2, NextIsStep

LEMMA InitBooks == Init => IdsInv /\ BooksInv
<1> SUFFICES ASSUME Init PROVE IdsInv /\ BooksInv
  OBVIOUS
<1>1. IdsInv
  BY CausesAssumption DEF Init, PortfolioInit, IdsInv, Creates, Live
<1>2. Approvals = {}
  BY DEF Init, PortfolioInit, Approvals
<1>3. IsFiniteSet(Approvals)
  BY <1>2, FS_EmptySet
<1>4. ASSUME NEW c \in Derived PROVE Balanced(c)
  <2>1. Credits(c) = {}
    BY <1>2 DEF Credits
  <2> DEFINE f == AmountsOf(Credits(c))
  <2>2. DOMAIN f = {}
    BY <2>1 DEF AmountsOf
  <2> HIDE DEF f
  <2>3. SumFunction(f) = 0
    BY <2>2, SumBasics, FS_EmptySet DEF SumFunction
  <2>4. c \in Existing /\ causes[c] = [raised |-> Opening, supporters |-> 0]
    BY DEF Init, PortfolioInit, Derived, Live
  <2>5. QED
    BY <2>1, <2>3, <2>4, TotalsAssumption, FS_EmptySet DEF Balanced, StartOf, f
<1>5. QED
  BY <1>1, <1>3, <1>4, BooksAreBalanced DEF BooksInv

\* Unless an admin typed another one in, the total of a cause is what it started from
\* plus one credit for each approval whose adminUpdateStatus succeeded, however many
\* gifts, reviews, edits and deletions run together.
THEOREM BooksAlwaysBalance == Spec => []BooksBalance
<1>1. TypeOK /\ LinksResolve /\ IdsInv /\ BooksInv /\ [Next]_vars => IdsInv' /\ BooksInv'
  BY IdsKept, BooksKept, NextType
<1>2. BooksInv => BooksBalance
  BY DEF BooksInv
<1>3. QED
  BY <1>1, <1>2, InitBooks, TypeCorrect, LinksLead, PTL DEF Spec

\* If the books balance and every completed donation was completed by an admin, no
\* approved money is missing from a total.
LEMMA TotalsCover ==
  ASSUME TypeOK, IdsInv, BooksInv, DecisionsInv
  PROVE  TotalsCoverApprovals
<1> SUFFICES ASSUME NEW c \in Derived
             PROVE  causes[c].raised >=
                      StartOf(c) + SumFunction([d \in ApprovedFor(c) |-> donations[d].amount])
  BY DEF TotalsCoverApprovals
<1> DEFINE R == Credits(c)
           D == ApprovedFor(c)
           f == AmountsOf(R)
           h == [d \in D |-> donations[d].amount]
           g == [r \in R |-> call[r].donation]
<1>1. IsFiniteSet(R)
  BY FS_Subset DEF BooksInv, Credits
<1>2. IsFiniteSet(D)
  <2>1. D \subseteq 1 .. Len(donations) /\ Len(donations) \in Nat
    BY DonationsTable DEF ApprovedFor
  <2>2. QED
    <3>1. IsFiniteSet(1 .. Len(donations))
      BY <2>1, FS_Interval
    <3>2. QED
      BY <2>1, <3>1, FS_Subset
<1>3. \A d \in D : h[d] \in Nat
  BY DonationsTable, AmountsAssumption DEF ApprovedFor, Donation
<1>4. \A d \in D : \E r \in R : g[r] = d
  <2> SUFFICES ASSUME NEW d \in D PROVE \E r \in R : g[r] = d
    OBVIOUS
  <2>1. SetByAdmin(d, "COMPLETED") /\ c \in donations[d].links
    BY DEF DecisionsInv, CompletedByAdmin, ApprovedFor
  <2>2. PICK r \in Requests : r \in Approvals /\ call[r].donation = d
    BY <2>1 DEF SetByAdmin, Approvals
  <2>3. r \in R
    BY <2>1, <2>2 DEF Credits, Gift
  <2>4. QED
    BY <2>2, <2>3
<1>5. \A r \in R : f[r] \in Nat /\ (g[r] \in D => f[r] = h[g[r]])
  BY ApprovalType DEF Credits, AmountsOf, Gift
<1>6. DOMAIN f = R /\ DOMAIN h = D
  BY DEF AmountsOf
<1>7. StartOf(c) \in Nat
  BY StartIs DEF Derived
<1>8. causes[c].raised = StartOf(c) + SumFunction(f)
  BY BooksAreBalanced DEF BooksInv, Balanced
<1> HIDE DEF R, D, f, h, g
<1>9. SumFunction(h) <= SumFunction(f) /\ SumFunction(h) \in Nat /\ SumFunction(f) \in Nat
  BY <1>1, <1>2, <1>3, <1>4, <1>5, <1>6, SumCover, SumBasics DEF SumFunction
<1>10. causes[c].raised >= StartOf(c) + SumFunction(h)
  BY <1>7, <1>8, <1>9
<1>11. QED
  BY <1>10 DEF h, D

\* The total of a cause covers every donation for it that an admin approved: no approval
\* commits without its increments.
THEOREM ApprovalsCovered == Spec => []TotalsCoverApprovals
<1>1. TypeOK /\ LinksResolve /\ IdsInv /\ BooksInv /\ DecisionsInv /\ [Next]_vars
        => IdsInv' /\ BooksInv' /\ DecisionsInv'
  BY IdsKept, BooksKept, NextType, DecisionsKept
<1>2. TypeOK /\ IdsInv /\ BooksInv /\ DecisionsInv => TotalsCoverApprovals
  BY TotalsCover
<1>3. QED
  BY <1>1, <1>2, InitBooks, InitDecisions, TypeCorrect, LinksLead, PTL DEF Spec
=============================================================================
