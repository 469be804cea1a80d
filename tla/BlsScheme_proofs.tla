-------------------------- MODULE BlsScheme_proofs --------------------------
(***************************************************************************)
(* Lemmas about the operators of BlsScheme, for every group order R: sums  *)
(* of any finite number of formal combinations, the order in which a       *)
(* verdict is reached, and what each verification therefore accepts; and,  *)
(* from them, what BlsNetwork says of the scheme in use.                   *)
(*                                                                         *)
(* SumOver folds over a set, by a recursive function the library defines   *)
(* with CHOOSE.  What it computes is proved by a minimal counterexample:   *)
(* strict inclusion is well founded on the subsets of a finite set, so a   *)
(* family of subsets that fail has a member none of whose proper subsets   *)
(* fails.                                                                  *)
(***************************************************************************)
EXTENDS BlsNetwork, FiniteSetTheorems, SequenceTheorems, TLAPS

(* A family of subsets of a finite set has a minimal member.               *)
LEMMA MinimalSet ==
  ASSUME NEW S, IsFiniteSet(S), NEW bad \in SUBSET SUBSET S, bad # {}
  PROVE  \E m \in bad : \A u \in SUBSET m : u \in bad => u = m
<1> DEFINE O == StrictSubsetOrdering(S)
<1>1. IsWellFoundedOn(O, SUBSET S)
  BY Zenon, FS_StrictSubsetOrderingWellFounded, FS_FiniteSubsetsOfFinite
<1>2. PICK m \in bad : \A u \in bad : ~(<<u, m>> \in O)
  <2> HIDE DEF O
  <2>. QED  BY Zenon, <1>1, WFMin
<1>3. \A u \in SUBSET m : u \in bad /\ u # m => <<u, m>> \in O
  BY DEF StrictSubsetOrdering
<1> HIDE DEF O
<1>4. \A u \in SUBSET m : u \in bad => u = m  BY <1>2, <1>3
<1>. QED  BY Zenon, <1>4

(* The element the fold takes first, and what is left of the set.          *)
Pick(s) == CHOOSE x \in s : TRUE
Rest(s) == s \ {Pick(s)}

(* Both are what their names say.                                          *)
LEMMA PickIsIn == ASSUME NEW s, s # {} PROVE Pick(s) \in s
BY DEF Pick

(* What is left is a proper subset.                                        *)
LEMMA RestIsSmaller ==
  ASSUME NEW s, s # {}
  PROVE  Rest(s) \in SUBSET s /\ Rest(s) # s
BY PickIsIn DEF Rest

(* Induction along the fold: what holds of the empty set, and of a set     *)
(* once it holds of what is left of it, holds of S.                        *)
LEMMA SetInduction ==
  ASSUME NEW S, IsFiniteSet(S), NEW good, {} \in good,
         \A s \in SUBSET S : s # {} /\ Rest(s) \in good => s \in good
  PROVE  S \in good
<1> DEFINE bad == {s \in SUBSET S : s \notin good}
<1> SUFFICES ASSUME S \notin good PROVE FALSE
  OBVIOUS
<1>1. PICK m \in bad : \A u \in SUBSET m : u \in bad => u = m
  <2>1. bad \in SUBSET SUBSET S /\ bad # {}  OBVIOUS
  <2> HIDE DEF bad
  <2>. QED  BY Zenon, <2>1, MinimalSet
<1>2. m \in SUBSET S /\ m \notin good /\ m # {}  OBVIOUS
<1>3. Rest(m) \in SUBSET m /\ Rest(m) # m
  BY <1>2, RestIsSmaller
<1>4. Rest(m) \in good
  BY <1>1, <1>2, <1>3
<1>. QED  BY <1>2, <1>4

(* The fold as an equation on functions of the subsets of S.               *)
Step(v, g, s) ==
  IF s = {} THEN Infinity ELSE Plus(v[Pick(s)], g[Rest(s)])
Solves(v, S, g) == g = [s \in SUBSET S |-> Step(v, g, s)]

(* The sum is the value at S of the chosen solution.                       *)
LEMMA SumIsSolution ==
  ASSUME NEW S, NEW v
  PROVE  SumOver(S, v) = (CHOOSE g : Solves(v, S, g))[S]
BY DEF SumOver, FoldSet, MapThenFoldSet, Solves, Step, Rest, Pick

(* Any two solutions agree, whatever larger set one of them is over.       *)
LEMMA SolutionsAgree ==
  ASSUME NEW S, IsFiniteSet(S), NEW v, NEW U, NEW g, NEW h,
         Solves(v, U, g), Solves(v, S, h), S \in SUBSET U
  PROVE  g[S] = h[S]
<1> DEFINE good == {s \in SUBSET S : g[s] = h[s]}
<1>1. \A s \in SUBSET S : g[s] = Step(v, g, s) /\ h[s] = Step(v, h, s)
  BY DEF Solves
<1>2. {} \in good
  BY <1>1 DEF Step
<1>3. ASSUME NEW s \in SUBSET S, s # {}, Rest(s) \in good
      PROVE  s \in good
  BY <1>1, <1>3 DEF Step
<1>4. S \in good
  <2> HIDE DEF good
  <2>. QED  BY <1>2, <1>3, SetInduction
<1>. QED  BY <1>4

(* And there is one.                                                       *)
LEMMA SolutionExists ==
  ASSUME NEW S, IsFiniteSet(S), NEW v
  PROVE  \E g : Solves(v, S, g)
<1> DEFINE bad == {s \in SUBSET S : ~\E g : Solves(v, s, g)}
<1> SUFFICES ASSUME ~\E g : Solves(v, S, g) PROVE FALSE
  OBVIOUS
<1>1. PICK m \in bad : \A u \in SUBSET m : u \in bad => u = m
  <2>1. bad \in SUBSET SUBSET S /\ bad # {}  OBVIOUS
  <2> HIDE DEF bad
  <2>. QED  BY <2>1, MinimalSet
<1>2. m \in SUBSET S /\ ~\E g : Solves(v, m, g)  OBVIOUS
<1> DEFINE G(t) == CHOOSE g : Solves(v, t, g)
           h == [t \in SUBSET m |->
                   IF t = {} THEN Infinity
                   ELSE Plus(v[Pick(t)], G(Rest(t))[Rest(t)])]
<1>3. ASSUME NEW u \in SUBSET m, u # m
      PROVE  Solves(v, u, G(u)) /\ IsFiniteSet(u)
  <2>1. \E g : Solves(v, u, g)  BY <1>1, <1>2, <1>3
  <2>2. IsFiniteSet(u)  BY <1>2, FS_Subset
  <2>. QED  BY <2>1, <2>2
<1>4. ASSUME NEW u \in SUBSET m, u # m
      PROVE  h[u] = G(u)[u]
  <2>1. Solves(v, u, G(u)) /\ IsFiniteSet(u)  BY <1>3, <1>4
  <2>2. u \in SUBSET u  OBVIOUS
  <2> HIDE DEF G
  <2>3. G(u)[u] = Step(v, G(u), u)
    BY Zenon, <2>1, <2>2 DEF Solves
  <2>4. CASE u = {}
    BY <2>3, <2>4 DEF Step
  <2>5. CASE u # {}
    <3>1. Rest(u) \in SUBSET u /\ Rest(u) \in SUBSET m /\ Rest(u) # m
      BY <1>4, <2>5, RestIsSmaller
    <3>2. Solves(v, Rest(u), G(Rest(u))) /\ IsFiniteSet(Rest(u))
      BY <1>3, <3>1 DEF G
    <3>3. G(u)[Rest(u)] = G(Rest(u))[Rest(u)]
      BY <2>1, <3>1, <3>2, SolutionsAgree
    <3>. QED  BY <2>3, <2>5, <3>3 DEF Step
  <2>. QED  BY <2>4, <2>5
<1>5. \A t \in SUBSET m : h[t] = Step(v, h, t)
  <2> SUFFICES ASSUME NEW t \in SUBSET m PROVE h[t] = Step(v, h, t)
    OBVIOUS
  <2>1. CASE t = {}
    BY <2>1 DEF Step
  <2>2. CASE t # {}
    <3>1. Rest(t) \in SUBSET m /\ Rest(t) # m
      BY <2>2, RestIsSmaller
    <3>2. h[Rest(t)] = G(Rest(t))[Rest(t)]
      BY <1>4, <3>1
    <3> HIDE DEF G
    <3>. QED  BY <2>2, <3>2 DEF Step
  <2>. QED  BY <2>1, <2>2
<1>6. Solves(v, m, h)
  <2> HIDE DEF G
  <2>. QED  BY <1>5 DEF Solves
<1>. QED  BY <1>2, <1>6

(* A sum over no term is the identity, as the point the C loops start from *)
(* (bls.c:318, bls.c:380).                                                 *)
THEOREM SumOfNone == ASSUME NEW v PROVE SumOver({}, v) = Infinity
<1>1. IsFiniteSet({})  BY FS_EmptySet
<1>2. PICK g : Solves(v, {}, g)  BY <1>1, SolutionExists
<1> DEFINE h == CHOOSE hh : Solves(v, {}, hh)
<1>3. Solves(v, {}, h)  BY <1>2
<1> HIDE DEF h
<1>4. h[{}] = Step(v, h, {})  BY <1>3 DEF Solves
<1>5. SumOver({}, v) = h[{}]  BY SumIsSolution DEF h
<1>. QED  BY <1>4, <1>5 DEF Step

(* A sum is one of its terms added to the sum of the others, the step of   *)
(* the C loops (bls.c:318-326, bls.c:380-390).                             *)
THEOREM SumOfSome ==
  ASSUME NEW S, IsFiniteSet(S), S # {}, NEW v
  PROVE  SumOver(S, v) = Plus(v[Pick(S)], SumOver(Rest(S), v))
<1> DEFINE h(s) == CHOOSE g : Solves(v, s, g)
<1>1. Rest(S) \in SUBSET S /\ IsFiniteSet(Rest(S))
  BY RestIsSmaller, FS_Subset
<1>2. Solves(v, S, h(S)) /\ Solves(v, Rest(S), h(Rest(S)))
  BY <1>1, SolutionExists
<1>3. SumOver(S, v) = h(S)[S] /\ SumOver(Rest(S), v) = h(Rest(S))[Rest(S)]
  BY SumIsSolution
<1> HIDE DEF h
<1>4. h(S)[Rest(S)] = h(Rest(S))[Rest(S)]
  BY Zenon, <1>1, <1>2, SolutionsAgree
<1>5. h(S)[S] = Step(v, h(S), S)
  <2>1. S \in SUBSET S  OBVIOUS
  <2>. QED  BY Zenon, <1>2, <2>1 DEF Solves
<1>. QED  BY <1>3, <1>4, <1>5 DEF Step

-----------------------------------------------------------------------------
(* Forms: combinations without a zero coefficient, in which two elements   *)
(* of the group are equal exactly when their coefficients are.             *)

(* A remainder by R, spelled out below 2R.                                 *)
LEMMA RemainderOfSmall ==
  ASSUME NEW z \in 0 .. 2 * R - 1
  PROVE  z % R = IF z < R THEN z ELSE z - R
<1>1. R \in Nat /\ R > 1  BY GroupAssumption
<1> DEFINE q == z \div R
<1>2. q \in Int /\ z = R * q + (z % R) /\ z % R \in 0 .. R - 1
  BY <1>1
<1>. HIDE DEF q
<1>3. ASSUME q < 0 PROVE FALSE
  <2>1. R * (-q) >= R  BY <1>1, <1>2, <1>3
  <2>. QED  BY <1>1, <1>2, <2>1
<1>4. ASSUME q > 1 PROVE FALSE
  <2>1. R * q >= 2 * R  BY <1>1, <1>2, <1>4
  <2>. QED  BY <1>1, <1>2, <2>1
<1>5. q = 0 \/ q = 1  BY <1>2, <1>3, <1>4
<1>. QED  BY <1>1, <1>2, <1>5

(* A coefficient is a residue, and zero exactly outside the support.       *)
LEMMA CoefOfForm ==
  ASSUME NEW f, IsForm(f), NEW x
  PROVE  Coef(f, x) \in 0 .. R - 1 /\ (x \in DOMAIN f <=> Coef(f, x) # 0)
BY GroupAssumption DEF IsForm, Coef

(* Forms with the same coefficients are the same.                          *)
LEMMA FormsEqual ==
  ASSUME NEW f, IsForm(f), NEW g, IsForm(g), \A x : Coef(f, x) = Coef(g, x)
  PROVE  f = g
<1>1. DOMAIN f = DOMAIN g  BY CoefOfForm
<1>2. \A x \in DOMAIN f : f[x] = g[x]  BY <1>1 DEF Coef
<1>. QED  BY <1>1, <1>2 DEF IsForm

(* The identity has no coefficient.                                        *)
LEMMA InfinityIsForm == IsForm(Infinity) /\ \A x : Coef(Infinity, x) = 0
BY DEF IsForm, Infinity, Coef

(* Addition is addition of the coefficients mod R.                         *)
LEMMA PlusIsForm ==
  ASSUME NEW f, IsForm(f), NEW g, IsForm(g)
  PROVE  /\ IsForm(Plus(f, g))
         /\ \A x : Coef(Plus(f, g), x) = (Coef(f, x) + Coef(g, x)) % R
<1> DEFINE D == DOMAIN f \cup DOMAIN g
           c(x) == Coef(f, x) + Coef(g, x)
           p == [x \in {y \in D : c(y) % R # 0} |-> c(x) % R]
<1>0. R \in Nat /\ R > 1  BY GroupAssumption
<1>1. Plus(f, g) = p  BY DEF Plus, Reduced
<1>2. \A x : c(x) \in Nat /\ c(x) % R \in 0 .. R - 1
  BY <1>0, CoefOfForm
<1>3. \A x : x \notin D => c(x) % R = 0
  BY <1>0 DEF Coef
<1>. HIDE DEF c, D
<1>4. IsForm(p)  BY <1>0, <1>2 DEF IsForm
<1>5. \A x : Coef(p, x) = c(x) % R  BY <1>3 DEF Coef
<1>. QED  BY <1>1, <1>4, <1>5 DEF c

(* Facts about sums: the induction adds the picked term last.              *)
FormsAt(S, v) == \A j \in S : IsForm(v[j])

(* A sum of forms is a form.                                               *)
LEMMA SumIsForm ==
  ASSUME NEW S, IsFiniteSet(S), NEW v, FormsAt(S, v)
  PROVE  IsForm(SumOver(S, v))
<1> DEFINE good == {s \in SUBSET S : IsForm(SumOver(s, v))}
<1>1. {} \in good  BY SumOfNone, InfinityIsForm
<1>2. ASSUME NEW s \in SUBSET S, s # {}, Rest(s) \in good
      PROVE  s \in good
  <2>1. IsFiniteSet(s) /\ IsForm(v[Pick(s)])
    BY <1>2, FS_Subset, PickIsIn DEF FormsAt
  <2>2. SumOver(s, v) = Plus(v[Pick(s)], SumOver(Rest(s), v))
    BY <1>2, <2>1, SumOfSome
  <2>. QED  BY <1>2, <2>1, <2>2, PlusIsForm
<1>3. S \in good
  <2> HIDE DEF good
  <2>. QED  BY <1>1, <1>2, SetInduction
<1>. QED  BY <1>3

(* One term more: what SumOfSome says of a coefficient.                    *)
LEMMA SumAt ==
  ASSUME NEW S, IsFiniteSet(S), NEW v, FormsAt(S, v),
         NEW s \in SUBSET S, s # {}, NEW x
  PROVE  /\ Pick(s) \in s /\ Rest(s) \in SUBSET s /\ Pick(s) \notin Rest(s)
         /\ s = Rest(s) \cup {Pick(s)}
         /\ IsFiniteSet(s) /\ IsFiniteSet(Rest(s))
         /\ Coef(v[Pick(s)], x) \in 0 .. R - 1
         /\ Coef(SumOver(Rest(s), v), x) \in 0 .. R - 1
         /\ Coef(SumOver(s, v), x)
              = (Coef(v[Pick(s)], x) + Coef(SumOver(Rest(s), v), x)) % R
<1>1. Pick(s) \in s /\ Rest(s) \in SUBSET s /\ Pick(s) \notin Rest(s)
      /\ s = Rest(s) \cup {Pick(s)}
  BY PickIsIn DEF Rest
<1>2. IsFiniteSet(s) /\ IsFiniteSet(Rest(s))
  BY <1>1, FS_Subset
<1>3. FormsAt(Rest(s), v) /\ IsForm(v[Pick(s)])
  BY <1>1 DEF FormsAt
<1>4. IsForm(SumOver(Rest(s), v))  BY <1>2, <1>3, SumIsForm
<1>5. SumOver(s, v) = Plus(v[Pick(s)], SumOver(Rest(s), v))
  BY <1>2, SumOfSome
<1>. QED  BY <1>1, <1>2, <1>3, <1>4, <1>5, CoefOfForm, PlusIsForm

(* What only one term contains, the sum contains as often.                 *)
LEMMA SumSingle ==
  ASSUME NEW S, IsFiniteSet(S), NEW v, FormsAt(S, v), NEW x, NEW k \in S,
         \A j \in S \ {k} : Coef(v[j], x) = 0
  PROVE  Coef(SumOver(S, v), x) = Coef(v[k], x)
<1> DEFINE want(s) == IF k \in s THEN Coef(v[k], x) ELSE 0
           good == {s \in SUBSET S : Coef(SumOver(s, v), x) = want(s)}
<1>0. R \in Nat /\ R > 1  BY GroupAssumption
<1>1. {} \in good  BY SumOfNone, InfinityIsForm
<1>2. ASSUME NEW s \in SUBSET S, s # {}, Rest(s) \in good
      PROVE  s \in good
  <2>1. /\ Pick(s) \in s /\ Pick(s) \notin Rest(s)
        /\ s = Rest(s) \cup {Pick(s)}
        /\ Coef(v[Pick(s)], x) \in 0 .. R - 1
        /\ Coef(SumOver(Rest(s), v), x) \in 0 .. R - 1
        /\ Coef(SumOver(s, v), x)
              = (Coef(v[Pick(s)], x) + Coef(SumOver(Rest(s), v), x)) % R
    BY <1>2, SumAt
  <2>2. Coef(SumOver(Rest(s), v), x) = want(Rest(s))  BY <1>2
  <2>3. CASE Pick(s) = k
    <3>1. Coef(SumOver(Rest(s), v), x) = 0  BY <2>1, <2>2, <2>3
    <3>2. Coef(v[k], x) % R = Coef(v[k], x)
      BY <1>0, <2>1, <2>3, RemainderOfSmall
    <3>3. Coef(SumOver(s, v), x) = Coef(v[k], x)
      BY <1>0, <2>1, <2>3, <3>1, <3>2
    <3>. QED  BY <2>1, <2>3, <3>3
  <2>4. CASE Pick(s) # k
    <3>1. Coef(v[Pick(s)], x) = 0  BY <2>1, <2>4
    <3>2. Coef(SumOver(s, v), x) = Coef(SumOver(Rest(s), v), x)
      BY <1>0, <2>1, <3>1, RemainderOfSmall
    <3>3. want(s) = want(Rest(s))  BY <2>1, <2>4
    <3>. QED  BY <2>2, <3>2, <3>3
  <2>. QED  BY <2>3, <2>4
<1>3. S \in good
  <2> HIDE DEF good
  <2>. QED  BY <1>1, <1>2, SetInduction
<1>. QED  BY <1>3

(* What no term contains, the sum does not contain.                        *)
LEMMA SumAbsent ==
  ASSUME NEW S, IsFiniteSet(S), NEW v, FormsAt(S, v), NEW x,
         \A j \in S : Coef(v[j], x) = 0
  PROVE  Coef(SumOver(S, v), x) = 0
<1>1. CASE S = {}  BY <1>1, SumOfNone, InfinityIsForm
<1>2. CASE S # {}
  <2>1. PICK k \in S : TRUE  BY <1>2
  <2>. QED  BY SumSingle
<1>. QED  BY <1>1, <1>2

(* Fewer than R terms that contain x at most once do not cancel it.        *)
LEMMA SumCounts ==
  ASSUME NEW S, IsFiniteSet(S), NEW v, FormsAt(S, v), NEW x,
         \A j \in S : Coef(v[j], x) \in {0, 1}, Cardinality(S) < R,
         NEW k \in S, Coef(v[k], x) = 1
  PROVE  Coef(SumOver(S, v), x) # 0
<1> DEFINE c(s) == Coef(SumOver(s, v), x)
           good == {s \in SUBSET S : c(s) \in 0 .. Cardinality(s)
                                      /\ (k \in s => c(s) > 0)}
<1>0. R \in Nat /\ R > 1  BY GroupAssumption
<1>1. {} \in good  BY SumOfNone, InfinityIsForm, FS_EmptySet
<1>2. ASSUME NEW s \in SUBSET S, s # {}, Rest(s) \in good
      PROVE  s \in good
  <2>1. /\ Pick(s) \in s /\ Pick(s) \notin Rest(s)
        /\ s = Rest(s) \cup {Pick(s)}
        /\ IsFiniteSet(s) /\ IsFiniteSet(Rest(s))
        /\ c(s) = (Coef(v[Pick(s)], x) + c(Rest(s))) % R
    BY <1>2, SumAt
  <2>2. /\ Cardinality(s) = Cardinality(Rest(s)) + 1
        /\ Cardinality(s) <= Cardinality(S)
        /\ Cardinality(s) \in Nat /\ Cardinality(Rest(s)) \in Nat
        /\ Cardinality(S) \in Nat
    BY <2>1, FS_AddElement, FS_Subset, FS_CardinalityType
  <2>3. /\ c(Rest(s)) \in 0 .. Cardinality(Rest(s))
        /\ k \in Rest(s) => c(Rest(s)) > 0
    BY <1>2
  <2>4. /\ Coef(v[Pick(s)], x) \in {0, 1}
        /\ Pick(s) = k => Coef(v[Pick(s)], x) = 1
    BY <2>1
  <2>. HIDE DEF c
  <2>5. c(s) = Coef(v[Pick(s)], x) + c(Rest(s))
    BY <1>0, <2>1, <2>2, <2>3, <2>4, RemainderOfSmall
  <2>. QED  BY <2>1, <2>2, <2>3, <2>4, <2>5
<1>3. S \in good
  <2> HIDE DEF good
  <2>. QED  BY <1>1, <1>2, SetInduction
<1>. QED  BY <1>3

(* The sum does not depend on what v is elsewhere.                         *)
LEMMA SumSame ==
  ASSUME NEW S, IsFiniteSet(S), NEW v, NEW w, \A j \in S : v[j] = w[j]
  PROVE  SumOver(S, v) = SumOver(S, w)
<1> DEFINE good == {s \in SUBSET S : SumOver(s, v) = SumOver(s, w)}
<1>1. {} \in good  BY SumOfNone
<1>2. ASSUME NEW s \in SUBSET S, s # {}, Rest(s) \in good
      PROVE  s \in good
  <2>1. IsFiniteSet(s) /\ Pick(s) \in S  BY <1>2, FS_Subset, PickIsIn
  <2>2. /\ SumOver(s, v) = Plus(v[Pick(s)], SumOver(Rest(s), v))
        /\ SumOver(s, w) = Plus(w[Pick(s)], SumOver(Rest(s), w))
    BY <1>2, <2>1, SumOfSome
  <2>. QED  BY <1>2, <2>1, <2>2
<1>3. S \in good
  <2> HIDE DEF good
  <2>. QED  BY <1>1, <1>2, SetInduction
<1>. QED  BY <1>3

(* Addition is commutative,                                                *)
LEMMA PlusCommutes ==
  ASSUME NEW f, IsForm(f), NEW g, IsForm(g)
  PROVE  Plus(f, g) = Plus(g, f)
<1>1. IsForm(Plus(f, g)) /\ IsForm(Plus(g, f))  BY PlusIsForm
<1>2. ASSUME NEW x PROVE Coef(Plus(f, g), x) = Coef(Plus(g, f), x)
  <2>1. Coef(f, x) + Coef(g, x) = Coef(g, x) + Coef(f, x)
    BY CoefOfForm, GroupAssumption
  <2>. QED  BY <2>1, PlusIsForm
<1>. QED  BY <1>1, <1>2, FormsEqual

(* and the order in which three are added does not matter.                 *)
LEMMA PlusSwaps ==
  ASSUME NEW f, IsForm(f), NEW g, IsForm(g), NEW h, IsForm(h)
  PROVE  Plus(f, Plus(g, h)) = Plus(g, Plus(f, h))
<1> DEFINE gh == Plus(g, h)
           fh == Plus(f, h)
<1>0. R \in Nat /\ R > 1  BY GroupAssumption
<1>1. IsForm(gh) /\ IsForm(fh)  BY PlusIsForm
<1>2. IsForm(Plus(f, gh)) /\ IsForm(Plus(g, fh))  BY <1>1, PlusIsForm
<1>3. ASSUME NEW x PROVE Coef(Plus(f, gh), x) = Coef(Plus(g, fh), x)
  <2>1. /\ Coef(f, x) \in 0 .. R - 1 /\ Coef(g, x) \in 0 .. R - 1
        /\ Coef(h, x) \in 0 .. R - 1
    BY CoefOfForm
  <2>2. /\ Coef(gh, x) = (Coef(g, x) + Coef(h, x)) % R
        /\ Coef(fh, x) = (Coef(f, x) + Coef(h, x)) % R
    BY PlusIsForm
  <2>3. /\ Coef(Plus(f, gh), x) = (Coef(f, x) + Coef(gh, x)) % R
        /\ Coef(Plus(g, fh), x) = (Coef(g, x) + Coef(fh, x)) % R
    BY <1>1, PlusIsForm
  <2>. HIDE DEF gh, fh
  <2> DEFINE a == Coef(f, x)
             b == Coef(g, x)
             c == Coef(h, x)
  <2>. HIDE DEF a, b, c
  <2>4. /\ (b + c) % R = IF b + c < R THEN b + c ELSE b + c - R
        /\ (a + c) % R = IF a + c < R THEN a + c ELSE a + c - R
    BY <1>0, <2>1, RemainderOfSmall DEF a, b, c
  <2>5. a \in 0 .. R - 1 /\ b \in 0 .. R - 1 /\ c \in 0 .. R - 1
    BY <2>1 DEF a, b, c
  <2>6. /\ a + ((b + c) % R) \in 0 .. 2 * R - 1
        /\ b + ((a + c) % R) \in 0 .. 2 * R - 1
    BY <1>0, <2>4, <2>5
  <2>7. (a + ((b + c) % R)) % R = (b + ((a + c) % R)) % R
    <3> DEFINE u == a + ((b + c) % R)
               w == b + ((a + c) % R)
    <3>1. u % R = IF u < R THEN u ELSE u - R
      BY <2>6, RemainderOfSmall
    <3>2. w % R = IF w < R THEN w ELSE w - R
      BY <2>6, RemainderOfSmall
    <3>. QED  BY <1>0, <2>4, <2>5, <3>1, <3>2
  <2>. QED  BY <2>2, <2>3, <2>7 DEF a, b, c
<1>. HIDE DEF gh, fh
<1>4. Plus(f, gh) = Plus(g, fh)  BY <1>2, <1>3, FormsEqual
<1>. QED  BY <1>4 DEF gh, fh

(* Any term may be taken out of a sum: the order of the loops is free.     *)
LEMMA SumRemove ==
  ASSUME NEW S, IsFiniteSet(S), NEW v, FormsAt(S, v), NEW k \in S
  PROVE  SumOver(S, v) = Plus(v[k], SumOver(S \ {k}, v))
<1> DEFINE splits(s) ==
             \A x \in s : SumOver(s, v) = Plus(v[x], SumOver(s \ {x}, v))
           bad == {s \in SUBSET S : ~splits(s)}
<1> SUFFICES ASSUME ~splits(S) PROVE FALSE
  BY Zenon
<1>1. PICK m \in bad : \A u \in SUBSET m : u \in bad => u = m
  <2>1. bad \in SUBSET SUBSET S /\ bad # {}  OBVIOUS
  <2> HIDE DEF bad
  <2>. QED  BY <2>1, MinimalSet
<1>2. m \in SUBSET S /\ ~splits(m)  OBVIOUS
<1>3. PICK x \in m : SumOver(m, v) # Plus(v[x], SumOver(m \ {x}, v))
  BY <1>2
<1>4. ASSUME NEW u \in SUBSET m, u # m, NEW y \in u
      PROVE  SumOver(u, v) = Plus(v[y], SumOver(u \ {y}, v))
  <2>1. u \notin bad /\ u \in SUBSET S  BY <1>1, <1>4
  <2>2. splits(u)  BY <2>1
  <2>. QED  BY <2>2
<1> HIDE DEF splits, bad
<1> DEFINE p == Pick(m)
           d == m \ {x, p}
<1>5. p \in m /\ Rest(m) = m \ {p} /\ m \in SUBSET S /\ x \in m
  BY <1>2, <1>3, PickIsIn DEF Rest
<1>6. SumOver(m, v) = Plus(v[p], SumOver(m \ {p}, v))
  BY <1>2, <1>5, FS_Subset, SumOfSome
<1>7. p # x  BY <1>3, <1>6
<1>8. /\ m \ {p} \in SUBSET m /\ m \ {p} # m /\ x \in m \ {p}
      /\ m \ {x} \in SUBSET m /\ m \ {x} # m /\ p \in m \ {x}
      /\ (m \ {p}) \ {x} = d /\ (m \ {x}) \ {p} = d
  BY <1>5, <1>7
<1>9. /\ SumOver(m \ {p}, v) = Plus(v[x], SumOver(d, v))
      /\ SumOver(m \ {x}, v) = Plus(v[p], SumOver(d, v))
  <2> HIDE DEF p, d
  <2>1. SumOver(m \ {p}, v) = Plus(v[x], SumOver((m \ {p}) \ {x}, v))
    BY Zenon, <1>4, <1>8
  <2>2. SumOver(m \ {x}, v) = Plus(v[p], SumOver((m \ {x}) \ {p}, v))
    BY Zenon, <1>4, <1>8
  <2>. QED  BY Zenon, <1>8, <2>1, <2>2
<1>10. IsForm(v[p]) /\ IsForm(v[x]) /\ IsForm(SumOver(d, v))
  <2>1. FormsAt(d, v) /\ IsFiniteSet(d)
    BY <1>5, FS_Subset DEF FormsAt
  <2>. QED  BY <1>5, <2>1, SumIsForm DEF FormsAt
<1> HIDE DEF p, d
<1>11. Plus(v[p], Plus(v[x], SumOver(d, v)))
         = Plus(v[x], Plus(v[p], SumOver(d, v)))
  BY <1>10, PlusSwaps
<1>. QED  BY <1>3, <1>6, <1>9, <1>11

(* A secret times a hash point: the coefficients are those of the key.     *)
LEMMA TimesIsForm ==
  ASSUME NEW f, IsForm(f), NEW m, NEW t
  PROVE  /\ IsForm(Times(f, m, t))
         /\ \A z : Coef(Times(f, m, t), z)
                   = IF z = <<z[1], m, t>> THEN Coef(f, z[1]) ELSE 0
<1> DEFINE D == {<<y, m, t>> : y \in DOMAIN f}
           g == [x \in D |-> f[x[1]]]
<1>1. Times(f, m, t) = g  BY Zenon DEF Times
<1>2. \A z : z \in D <=> z[1] \in DOMAIN f /\ z = <<z[1], m, t>>
  OBVIOUS
<1>3. DOMAIN g = D /\ \A x \in D : g[x] = f[x[1]]  OBVIOUS
<1>. HIDE DEF D
<1>4. IsForm(g)
  <2>1. \A x \in D : f[x[1]] \in 1 .. R - 1  BY <1>2 DEF IsForm
  <2>. QED  BY <2>1 DEF IsForm
<1>. HIDE DEF g
<1>5. \A z : Coef(g, z) = IF z = <<z[1], m, t>> THEN Coef(f, z[1]) ELSE 0
  BY <1>2, <1>3 DEF Coef
<1>. QED  BY Zenon, <1>1, <1>4, <1>5

(* Multiplication distributes over the sum of two keys,                    *)
LEMMA TimesOfPlus ==
  ASSUME NEW f, IsForm(f), NEW g, IsForm(g), NEW m, NEW t
  PROVE  Times(Plus(f, g), m, t) = Plus(Times(f, m, t), Times(g, m, t))
<1> DEFINE p == Times(Plus(f, g), m, t)
           tf == Times(f, m, t)
           tg == Times(g, m, t)
<1>0. R \in Nat /\ R > 1 /\ (0 + 0) % R = 0
  BY GroupAssumption, RemainderOfSmall
<1>1. IsForm(Plus(f, g)) /\ IsForm(p) /\ IsForm(tf) /\ IsForm(tg)
  BY PlusIsForm, TimesIsForm
<1>2. IsForm(Plus(tf, tg))  BY <1>1, PlusIsForm
<1>3. ASSUME NEW z PROVE Coef(p, z) = Coef(Plus(tf, tg), z)
  <2>1. Coef(p, z) = IF z = <<z[1], m, t>> THEN Coef(Plus(f, g), z[1]) ELSE 0
    BY <1>1, TimesIsForm
  <2>2. Coef(tf, z) = IF z = <<z[1], m, t>> THEN Coef(f, z[1]) ELSE 0
    BY TimesIsForm
  <2>3. Coef(tg, z) = IF z = <<z[1], m, t>> THEN Coef(g, z[1]) ELSE 0
    BY TimesIsForm
  <2>4. /\ Coef(Plus(f, g), z[1]) = (Coef(f, z[1]) + Coef(g, z[1])) % R
        /\ Coef(Plus(tf, tg), z) = (Coef(tf, z) + Coef(tg, z)) % R
    BY Zenon, <1>1, PlusIsForm
  <2>. HIDE DEF p, tf, tg
  <2>. QED  BY <1>0, <2>1, <2>2, <2>3, <2>4
<1>. HIDE DEF p, tf, tg
<1>4. p = Plus(tf, tg)  BY <1>1, <1>2, <1>3, FormsEqual
<1>. QED  BY <1>4 DEF p, tf, tg

(* and over the sum of any number of them.                                 *)
LEMMA TimesOfSum ==
  ASSUME NEW S, IsFiniteSet(S), NEW v, FormsAt(S, v), NEW m, NEW t,
         NEW w, \A j \in S : w[j] = Times(v[j], m, t)
  PROVE  Times(SumOver(S, v), m, t) = SumOver(S, w)
<1> DEFINE good ==
             {s \in SUBSET S : Times(SumOver(s, v), m, t) = SumOver(s, w)}
<1>1. {} \in good
  <2>1. Times(Infinity, m, t) = Infinity
    <3>1. \A z : Coef(Times(Infinity, m, t), z) = Coef(Infinity, z)
      BY TimesIsForm, InfinityIsForm
    <3>. QED  BY <3>1, FormsEqual, TimesIsForm, InfinityIsForm
  <2>. QED  BY <2>1, SumOfNone
<1>2. ASSUME NEW s \in SUBSET S, s # {}, Rest(s) \in good
      PROVE  s \in good
  <2>1. IsFiniteSet(s) /\ IsForm(v[Pick(s)]) /\ Pick(s) \in S
        /\ IsFiniteSet(Rest(s)) /\ FormsAt(Rest(s), v)
    BY <1>2, FS_Subset, PickIsIn DEF FormsAt, Rest
  <2>2. /\ SumOver(s, v) = Plus(v[Pick(s)], SumOver(Rest(s), v))
        /\ SumOver(s, w) = Plus(w[Pick(s)], SumOver(Rest(s), w))
    BY <1>2, <2>1, SumOfSome
  <2>3. IsForm(SumOver(Rest(s), v))  BY <2>1, SumIsForm
  <2>4. Times(SumOver(s, v), m, t)
          = Plus(Times(v[Pick(s)], m, t), Times(SumOver(Rest(s), v), m, t))
    BY <2>1, <2>2, <2>3, TimesOfPlus
  <2>. QED  BY <1>2, <2>1, <2>2, <2>4
<1>3. S \in good
  <2> HIDE DEF good
  <2>. QED  BY <1>1, <1>2, SetInduction
<1>. QED  BY <1>3

-----------------------------------------------------------------------------
(* Verdicts.  The first check that failed is one of those that failed.     *)
LEMMA MinIsIn ==
  ASSUME NEW S \in SUBSET Nat, S # {}
  PROVE  Min(S) \in S
<1> DEFINE O == OpToRel(<, Nat)
<1>1. PICK x \in S : \A y \in S : ~(<<y, x>> \in O)
  <2> HIDE DEF O
  <2>1. IsWellFoundedOn(O, Nat)  BY Zenon, NatLessThanWellFounded DEF O
  <2>. QED  BY Zenon, <2>1, WFMin
<1>2. \A y \in S : y < x => <<y, x>> \in O
  BY DEF OpToRel
<1>. HIDE DEF O
<1>3. ASSUME NEW y \in S PROVE x <= y
  <2>1. ~(y < x)  BY <1>1, <1>2
  <2>2. x \in Nat /\ y \in Nat  OBVIOUS
  <2>. QED  BY <2>1, <2>2
<1>. QED  BY <1>3 DEF Min

(* A verdict is OK exactly when no check failed.                           *)
Passes(checks) == Verdict(checks) = "OK"

(* So it is for any number of checks whose codes are failures.             *)
LEMMA VerdictIsOk ==
  ASSUME NEW checks, NEW len \in Nat, DOMAIN checks = 1 .. len,
         \A i \in 1 .. len : checks[i][1] => checks[i][2] # "OK"
  PROVE  Passes(checks) <=> \A i \in 1 .. len : ~checks[i][1]
<1> DEFINE S == {i \in 1 .. len : checks[i][1]}
<1>1. Verdict(checks) = IF S = {} THEN "OK" ELSE checks[Min(S)][2]
  BY Zenon DEF Verdict
<1>2. ASSUME S # {} PROVE Verdict(checks) # "OK"
  <2>1. S \in SUBSET Nat  OBVIOUS
  <2>2. Min(S) \in S
    <3>. HIDE DEF S
    <3>. QED  BY <1>2, <2>1, MinIsIn
  <2>3. Min(S) \in 1 .. len /\ checks[Min(S)][1]  BY <2>2
  <2>. QED  BY Zenon, <1>1, <1>2, <2>3
<1>3. S = {} <=> \A i \in 1 .. len : ~checks[i][1]  OBVIOUS
<1>. QED  BY Zenon, <1>1, <1>2, <1>3 DEF Passes

Failures == Codes \ {"OK"}

(* The codes of bls.h other than ELIPS_BLS_OK.                             *)
LEMMA FailureCodes ==
  /\ "INVALID" \in Failures /\ "BAD_KEY" \in Failures /\ "BAD_SIG" \in Failures
  /\ "VERIFY" \in Failures /\ "DUP_MESSAGE" \in Failures
  /\ \A c \in Failures : c # "OK"
BY DEF Failures, Codes

(* The verdict of elips_bls_verify's three checks.                         *)
LEMMA VerdictOfThree ==
  ASSUME NEW p, NEW q, NEW r,
         NEW c \in Failures, NEW d \in Failures, NEW e \in Failures
  PROVE  Passes(<< <<p, c>>, <<q, d>>, <<r, e>> >>)
           <=> (~p /\ ~q /\ ~r)
<1> DEFINE checks == << <<p, c>>, <<q, d>>, <<r, e>> >>
<1>1. DOMAIN checks = 1 .. 3  OBVIOUS
<1>2. /\ checks[1] = <<p, c>>
      /\ checks[2] = <<q, d>>
      /\ checks[3] = <<r, e>>
  OBVIOUS
<1>. HIDE DEF checks
<1>3. /\ checks[1][1] = p /\ checks[1][2] = c
      /\ checks[2][1] = q /\ checks[2][2] = d
      /\ checks[3][1] = r /\ checks[3][2] = e
  BY <1>2
<1>4. /\ 3 \in Nat /\ \A i \in 1 .. 3 : i = 1 \/ i = 2 \/ i = 3
      /\ 1 \in 1 .. 3 /\ 2 \in 1 .. 3 /\ 3 \in 1 .. 3
  OBVIOUS
<1>5. \A i \in 1 .. 3 : checks[i][2] # "OK"
  BY Zenon, <1>3, <1>4, FailureCodes
<1>6. Passes(checks) <=> \A i \in 1 .. 3 : ~checks[i][1]
  BY Zenon, <1>1, <1>4, <1>5, VerdictIsOk
<1>7. (\A i \in 1 .. 3 : ~checks[i][1]) => (~p /\ ~q /\ ~r)
  BY Zenon, <1>3, <1>4
<1>8. (~p /\ ~q /\ ~r) => \A i \in 1 .. 3 : ~checks[i][1]
  BY Zenon, <1>3, <1>4
<1>. QED  BY Zenon, <1>6, <1>7, <1>8 DEF checks

(* The verdict of elips_bls_aggregate_verify's five.                       *)
LEMMA VerdictOfFive ==
  ASSUME NEW p, NEW q, NEW r, NEW u, NEW w,
         NEW c \in Failures, NEW d \in Failures, NEW e \in Failures,
         NEW f \in Failures, NEW g \in Failures
  PROVE  Passes(<< <<p, c>>, <<q, d>>, <<r, e>>, <<u, f>>, <<w, g>> >>)
           <=> (~p /\ ~q /\ ~r /\ ~u /\ ~w)
<1> DEFINE checks == << <<p, c>>, <<q, d>>, <<r, e>>, <<u, f>>, <<w, g>> >>
<1>1. DOMAIN checks = 1 .. 5  OBVIOUS
<1>2. /\ checks[1] = <<p, c>>
      /\ checks[2] = <<q, d>>
      /\ checks[3] = <<r, e>>
      /\ checks[4] = <<u, f>>
      /\ checks[5] = <<w, g>>
  OBVIOUS
<1>. HIDE DEF checks
<1>3. /\ checks[1][1] = p /\ checks[1][2] = c
      /\ checks[2][1] = q /\ checks[2][2] = d
      /\ checks[3][1] = r /\ checks[3][2] = e
      /\ checks[4][1] = u /\ checks[4][2] = f
      /\ checks[5][1] = w /\ checks[5][2] = g
  BY <1>2
<1>4. /\ 5 \in Nat
      /\ \A i \in 1 .. 5 : i = 1 \/ i = 2 \/ i = 3 \/ i = 4 \/ i = 5
      /\ 1 \in 1 .. 5 /\ 2 \in 1 .. 5 /\ 3 \in 1 .. 5
      /\ 4 \in 1 .. 5 /\ 5 \in 1 .. 5
  OBVIOUS
<1>5. \A i \in 1 .. 5 : checks[i][2] # "OK"
  BY Zenon, <1>3, <1>4, FailureCodes
<1>6. Passes(checks) <=> \A i \in 1 .. 5 : ~checks[i][1]
  BY Zenon, <1>1, <1>4, <1>5, VerdictIsOk
<1>7. (\A i \in 1 .. 5 : ~checks[i][1]) => (~p /\ ~q /\ ~r /\ ~u /\ ~w)
  BY Zenon, <1>3, <1>4
<1>8. (~p /\ ~q /\ ~r /\ ~u /\ ~w) => \A i \in 1 .. 5 : ~checks[i][1]
  BY Zenon, <1>3, <1>4
<1>. QED  BY Zenon, <1>6, <1>7, <1>8 DEF checks

(* What each verification accepts, as one condition on its arguments.      *)
(* First elips_bls_verify and elips_bls_pop_verify (bls.c:278-308),        *)
LEMMA CoreVerifyMeans ==
  ASSUME NEW pk, NEW m, NEW sig, NEW tag
  PROVE  CoreVerifyRc(pk, m, sig, tag) = "OK"
           <=> (KeyValidate(pk) /\ sig.ok /\ sig.pt = Times(pk.pt, m, tag))
<1> DEFINE p == ~KeyValidate(pk)
           q == ~sig.ok
           r == sig.pt # Times(pk.pt, m, tag)
<1>1. CoreVerifyRc(pk, m, sig, tag)
        = Verdict(<< <<p, "BAD_KEY">>, <<q, "BAD_SIG">>, <<r, "VERIFY">> >>)
  BY Zenon DEF CoreVerifyRc
<1>2. Passes(<< <<p, "BAD_KEY">>, <<q, "BAD_SIG">>, <<r, "VERIFY">> >>)
        <=> (~p /\ ~q /\ ~r)
  <2>. HIDE DEF p, q, r
  <2>. QED  BY Zenon, FailureCodes, VerdictOfThree
<1>. QED  BY Zenon, <1>1, <1>2 DEF Passes

(* then elips_bls_aggregate_verify (bls.c:330-364),                        *)
LEMMA AggregateVerifyMeans ==
  ASSUME NEW pks, NEW msgs, NEW sig
  PROVE  AggregateVerifyRc(pks, msgs, sig) = "OK"
           <=> /\ ~(Len(pks) = 0 \/ TooMany(Len(pks)))
               /\ ~HasDuplicate(msgs)
               /\ sig.ok
               /\ \A i \in DOMAIN pks : KeyValidate(pks[i])
               /\ sig.pt = SumOver(DOMAIN pks,
                    [i \in DOMAIN pks |-> Times(pks[i].pt, msgs[i], "SIG")])
<1> DEFINE p == Len(pks) = 0 \/ TooMany(Len(pks))
           q == HasDuplicate(msgs)
           r == ~sig.ok
           u == \E i \in DOMAIN pks : ~KeyValidate(pks[i])
           w == sig.pt # SumOver(DOMAIN pks,
                    [i \in DOMAIN pks |-> Times(pks[i].pt, msgs[i], "SIG")])
<1>1. AggregateVerifyRc(pks, msgs, sig)
        = Verdict(<< <<p, "INVALID">>, <<q, "DUP_MESSAGE">>, <<r, "BAD_SIG">>,
                     <<u, "BAD_KEY">>, <<w, "VERIFY">> >>)
  BY Zenon DEF AggregateVerifyRc
<1>2. Passes(<< <<p, "INVALID">>, <<q, "DUP_MESSAGE">>, <<r, "BAD_SIG">>,
                 <<u, "BAD_KEY">>, <<w, "VERIFY">> >>)
        <=> (~p /\ ~q /\ ~r /\ ~u /\ ~w)
  <2>. HIDE DEF p, q, r, u, w
  <2>1. /\ "INVALID" \in Failures /\ "DUP_MESSAGE" \in Failures
        /\ "BAD_SIG" \in Failures /\ "BAD_KEY" \in Failures
        /\ "VERIFY" \in Failures
    BY FailureCodes
  <2>. QED  BY ZenonT(60), <2>1, VerdictOfFive
<1>. QED  BY Zenon, <1>1, <1>2 DEF Passes

(* s is u, of length j, followed by t, of length k.                        *)
Joins(T, s, u, j, t, k) ==
  u \in Seq(T) /\ t \in Seq(T) /\ Len(u) = j /\ Len(t) = k /\ s = u \o t

(* The elements of a concatenation, by segment.                            *)
LEMMA TwoSegments ==
  ASSUME NEW T, NEW s, NEW u, NEW j, NEW t, NEW k, Joins(T, s, u, j, t, k)
  PROVE  /\ s \in Seq(T) /\ Len(s) = j + k
         /\ \A i \in 1 .. j : s[i] = u[i]
         /\ \A i \in 1 .. k : s[j + i] = t[i]
<1>1. /\ s \in Seq(T) /\ Len(s) = j + k
      /\ \A i \in 1 .. j + k : s[i] = IF i <= j THEN u[i] ELSE t[i - j]
  BY Zenon, ConcatProperties DEF Joins
<1>2. j \in Nat /\ k \in Nat  BY DEF Joins
<1>3. ASSUME NEW i \in 1 .. j PROVE s[i] = u[i]
  BY <1>1, <1>2
<1>4. ASSUME NEW i \in 1 .. k PROVE s[j + i] = t[i]
  <2>1. j + i \in 1 .. j + k /\ ~(j + i <= j) /\ (j + i) - j = i
    BY <1>2
  <2>. QED  BY Zenon, <1>1, <2>1
<1>. QED  BY Zenon, <1>1, <1>3, <1>4

(* s is x, the elements of f, then a, b and c.                             *)
Segments(s, x, f, len, a, b, c) ==
  /\ len \in Nat /\ f = [i \in 1 .. len |-> f[i]]
  /\ s = <<x>> \o f \o <<a, b, c>>

(* The elements of such a sequence.                                        *)
LEMMA ThreeSegments ==
  ASSUME NEW s, NEW x, NEW f, NEW len, NEW a, NEW b, NEW c,
         Segments(s, x, f, len, a, b, c)
  PROVE  /\ DOMAIN s = 1 .. len + 4
         /\ s[1] = x /\ s[len + 2] = a /\ s[len + 3] = b /\ s[len + 4] = c
         /\ \A i \in 1 .. len : s[i + 1] = f[i]
<1> DEFINE T == {x, a, b, c} \cup {f[i] : i \in 1 .. len}
           h == <<x>>
           t == <<a, b, c>>
           u == h \o f
<1>1. h \in Seq(T) /\ Len(h) = 1 /\ h[1] = x  OBVIOUS
<1>2. t \in Seq(T) /\ Len(t) = 3 /\ t[1] = a /\ t[2] = b /\ t[3] = c
  OBVIOUS
<1>3. f \in Seq(T) /\ Len(f) = len /\ len \in Nat  BY DEF Segments
<1>4. s = u \o t  BY DEF Segments
<1>. HIDE DEF T, h, t, u
<1>5. Joins(T, u, h, 1, f, len)  BY Zenon, <1>1, <1>3 DEF Joins, u
<1>6. /\ u \in Seq(T) /\ Len(u) = 1 + len
      /\ \A i \in 1 .. 1 : u[i] = h[i]
      /\ \A i \in 1 .. len : u[1 + i] = f[i]
  BY <1>5, TwoSegments
<1>7. Joins(T, s, u, 1 + len, t, 3)  BY Zenon, <1>2, <1>4, <1>6 DEF Joins
<1>8. /\ s \in Seq(T) /\ Len(s) = (1 + len) + 3
      /\ \A i \in 1 .. 1 + len : s[i] = u[i]
      /\ \A i \in 1 .. 3 : s[(1 + len) + i] = t[i]
  BY <1>7, TwoSegments
<1>9. DOMAIN s = 1 .. len + 4  BY <1>3, <1>8
<1>10. s[1] = x
  <2>1. 1 \in 1 .. 1 /\ 1 \in 1 .. 1 + len  BY <1>3
  <2>2. s[1] = u[1] /\ u[1] = h[1]  BY <1>6, <1>8, <2>1
  <2>. QED  BY <1>1, <2>2
<1>11. ASSUME NEW i \in 1 .. len PROVE s[i + 1] = f[i]
  <2>1. 1 + i \in 1 .. 1 + len /\ i + 1 = 1 + i  BY <1>3
  <2>. QED  BY Zenon, <1>6, <1>8, <2>1
<1>12. s[len + 2] = a /\ s[len + 3] = b /\ s[len + 4] = c
  <2>1. s[(1 + len) + 1] = a /\ s[(1 + len) + 2] = b /\ s[(1 + len) + 3] = c
    <3>1. 1 \in 1 .. 3 /\ 2 \in 1 .. 3 /\ 3 \in 1 .. 3  OBVIOUS
    <3>. QED  BY Zenon, <3>1, <1>2, <1>8
  <2>2. /\ (1 + len) + 1 = len + 2 /\ (1 + len) + 2 = len + 3
        /\ (1 + len) + 3 = len + 4
    BY <1>3
  <2>. QED  BY Zenon, <2>1, <2>2
<1>. QED  BY Zenon, <1>9, <1>10, <1>11, <1>12

(* The checks of elips_bls_fast_aggregate_verify, one by one.              *)
FastChecks(checks, pks, pops, m, sig, len) ==
  /\ DOMAIN checks = 1 .. len + 4
  /\ checks[1] = <<len = 0, "INVALID">>
  /\ \A i \in 1 .. len :
       checks[i + 1] = <<PopVerifyRc(pks[i], pops[i]) # "OK",
                         PopVerifyRc(pks[i], pops[i])>>
  /\ checks[len + 2] = <<KeySum(pks, len) = Infinity, "BAD_KEY">>
  /\ checks[len + 3] = <<~sig.ok, "BAD_SIG">>
  /\ checks[len + 4]
       = <<sig.pt # Times(KeySum(pks, len), m, "SIG"), "VERIFY">>

(* The checks of the fast path, as one list.                               *)
LEMMA FastAggregateChecks ==
  ASSUME NEW pks, NEW pops, NEW m, NEW sig, NEW len \in Nat,
         Len(pks) = len, DOMAIN pks = 1 .. len
  PROVE  \E checks : /\ FastChecks(checks, pks, pops, m, sig, len)
                     /\ FastAggregateVerifyRc(pks, pops, m, sig)
                          = Verdict(checks)
<1> DEFINE prc(i) == PopVerifyRc(pks[i], pops[i])
           sum == KeySum(pks, len)
           first == << <<len = 0, "INVALID">> >>
           proofs == [i \in 1 .. len |-> <<prc(i) # "OK", prc(i)>>]
           last == << <<sum = Infinity, "BAD_KEY">>, <<~sig.ok, "BAD_SIG">>,
                      <<sig.pt # Times(sum, m, "SIG"), "VERIFY">> >>
           checks == first \o proofs \o last
<1>1. FastAggregateVerifyRc(pks, pops, m, sig) = Verdict(checks)
  BY Zenon DEF FastAggregateVerifyRc
<1>2. /\ DOMAIN checks = 1 .. len + 4
      /\ checks[1] = <<len = 0, "INVALID">>
      /\ checks[len + 2] = <<sum = Infinity, "BAD_KEY">>
      /\ checks[len + 3] = <<~sig.ok, "BAD_SIG">>
      /\ checks[len + 4] = <<sig.pt # Times(sum, m, "SIG"), "VERIFY">>
      /\ \A i \in 1 .. len : checks[i + 1] = proofs[i]
  <2>1. proofs = [i \in 1 .. len |-> proofs[i]]
    <3> HIDE DEF prc
    <3>. QED  BY Zenon
  <2> DEFINE x == <<len = 0, "INVALID">>
             a == <<sum = Infinity, "BAD_KEY">>
             b == <<~sig.ok, "BAD_SIG">>
             c == <<sig.pt # Times(sum, m, "SIG"), "VERIFY">>
  <2>2. checks = <<x>> \o proofs \o <<a, b, c>>
    <3>. HIDE DEF proofs, x, a, b, c
    <3>. QED  BY Zenon DEF checks, first, last, x, a, b, c
  <2>. HIDE DEF checks, proofs, prc, sum, x, a, b, c
  <2>3. /\ DOMAIN checks = 1 .. len + 4
        /\ checks[1] = x /\ checks[len + 2] = a
        /\ checks[len + 3] = b /\ checks[len + 4] = c
        /\ \A i \in 1 .. len : checks[i + 1] = proofs[i]
    <3>1. Segments(checks, x, proofs, len, a, b, c)
      BY Zenon, <2>1, <2>2 DEF Segments
    <3>. QED  BY <3>1, ThreeSegments
  <2>. QED  BY Zenon, <2>3 DEF x, a, b, c
<1>3. \A i \in 1 .. len : proofs[i] = <<prc(i) # "OK", prc(i)>>  BY Zenon
<1>4. FastChecks(checks, pks, pops, m, sig, len)
  <2>. HIDE DEF checks, proofs
  <2>. QED  BY Zenon, <1>2, <1>3 DEF FastChecks
<1>. HIDE DEF checks
<1>. QED  BY Zenon, <1>1, <1>4

(* The truth and the code of each of them.                                 *)
LEMMA FastChecksRead ==
  ASSUME NEW checks, NEW pks, NEW pops, NEW m, NEW sig, NEW len \in Nat,
         FastChecks(checks, pks, pops, m, sig, len)
  PROVE  /\ checks[1][1] <=> len = 0
         /\ checks[1][2] = "INVALID"
         /\ \A i \in 1 .. len :
              /\ checks[i + 1][1] <=> PopVerifyRc(pks[i], pops[i]) # "OK"
              /\ checks[i + 1][2] = PopVerifyRc(pks[i], pops[i])
         /\ checks[len + 2][1] <=> KeySum(pks, len) = Infinity
         /\ checks[len + 2][2] = "BAD_KEY"
         /\ checks[len + 3][1] <=> ~sig.ok
         /\ checks[len + 3][2] = "BAD_SIG"
         /\ checks[len + 4][1] <=> sig.pt # Times(KeySum(pks, len), m, "SIG")
         /\ checks[len + 4][2] = "VERIFY"
<1> DEFINE s0 == len = 0
           bad(i) == PopVerifyRc(pks[i], pops[i]) # "OK"
           s1 == KeySum(pks, len) = Infinity
           s2 == ~sig.ok
           s3 == sig.pt # Times(KeySum(pks, len), m, "SIG")
<1>1. /\ checks[1] = <<s0, "INVALID">>
      /\ \A i \in 1 .. len :
           checks[i + 1] = <<bad(i), PopVerifyRc(pks[i], pops[i])>>
      /\ checks[len + 2] = <<s1, "BAD_KEY">>
      /\ checks[len + 3] = <<s2, "BAD_SIG">>
      /\ checks[len + 4] = <<s3, "VERIFY">>
  BY Zenon DEF FastChecks
<1>. HIDE DEF s0, bad, s1, s2, s3
<1>2. /\ checks[1][1] = s0 /\ checks[1][2] = "INVALID"
      /\ checks[len + 2][1] = s1 /\ checks[len + 2][2] = "BAD_KEY"
      /\ checks[len + 3][1] = s2 /\ checks[len + 3][2] = "BAD_SIG"
      /\ checks[len + 4][1] = s3 /\ checks[len + 4][2] = "VERIFY"
  BY <1>1
<1>3. ASSUME NEW i \in 1 .. len
      PROVE  /\ checks[i + 1][1] = bad(i)
             /\ checks[i + 1][2] = PopVerifyRc(pks[i], pops[i])
  <2>1. checks[i + 1] = <<bad(i), PopVerifyRc(pks[i], pops[i])>>
    BY Zenon, <1>1
  <2>. QED  BY <2>1
<1>. QED  BY Zenon, <1>2, <1>3 DEF s0, bad, s1, s2, s3

(* Those checks all pass exactly when what they test does.                 *)
LEMMA FastChecksPass ==
  ASSUME NEW checks, NEW pks, NEW pops, NEW m, NEW sig, NEW len \in Nat,
         FastChecks(checks, pks, pops, m, sig, len)
  PROVE  Passes(checks)
           <=> /\ len # 0
               /\ \A i \in 1 .. len : PopVerifyRc(pks[i], pops[i]) = "OK"
               /\ KeySum(pks, len) # Infinity
               /\ sig.ok
               /\ sig.pt = Times(KeySum(pks, len), m, "SIG")
<1> DEFINE s0 == len = 0
           bad(i) == PopVerifyRc(pks[i], pops[i]) # "OK"
           s1 == KeySum(pks, len) = Infinity
           s2 == ~sig.ok
           s3 == sig.pt # Times(KeySum(pks, len), m, "SIG")
<1>1. /\ checks[1][1] <=> len = 0
      /\ checks[1][2] = "INVALID"
      /\ \A i \in 1 .. len :
           /\ checks[i + 1][1] <=> PopVerifyRc(pks[i], pops[i]) # "OK"
           /\ checks[i + 1][2] = PopVerifyRc(pks[i], pops[i])
      /\ checks[len + 2][1] <=> KeySum(pks, len) = Infinity
      /\ checks[len + 2][2] = "BAD_KEY"
      /\ checks[len + 3][1] <=> ~sig.ok
      /\ checks[len + 3][2] = "BAD_SIG"
      /\ checks[len + 4][1] <=> sig.pt # Times(KeySum(pks, len), m, "SIG")
      /\ checks[len + 4][2] = "VERIFY"
  BY FastChecksRead
<1>4. /\ checks[1][1] <=> s0
      /\ checks[1][2] = "INVALID"
      /\ checks[len + 2][1] <=> s1
      /\ checks[len + 2][2] = "BAD_KEY"
      /\ checks[len + 3][1] <=> s2
      /\ checks[len + 3][2] = "BAD_SIG"
      /\ checks[len + 4][1] <=> s3
      /\ checks[len + 4][2] = "VERIFY"
  BY Zenon, <1>1
<1>5. \A i \in 1 .. len :
         /\ checks[i + 1][1] <=> bad(i)
         /\ checks[i + 1][2] = PopVerifyRc(pks[i], pops[i])
  BY Zenon, <1>1
<1>2. DOMAIN checks = 1 .. len + 4  BY Zenon DEF FastChecks
<1>. HIDE DEF s0, s1, s2, s3
<1>6. \A i \in 1 .. len + 4 :
        i = 1 \/ (\E k \in 1 .. len : i = k + 1)
        \/ i = len + 2 \/ i = len + 3 \/ i = len + 4
  <2> SUFFICES ASSUME NEW i \in 1 .. len + 4, i # 1, i < len + 2
      PROVE  \E k \in 1 .. len : i = k + 1
    OBVIOUS
  <2>1. i - 1 \in 1 .. len /\ i = (i - 1) + 1  OBVIOUS
  <2>. QED  BY <2>1
<1>7. /\ \A k \in 1 .. len : k + 1 \in 1 .. len + 4
      /\ 1 \in 1 .. len + 4 /\ len + 2 \in 1 .. len + 4
      /\ len + 3 \in 1 .. len + 4 /\ len + 4 \in 1 .. len + 4
      /\ len + 4 \in Nat
  OBVIOUS
<1>8. \A i \in 1 .. len + 4 : checks[i][1] => checks[i][2] # "OK"
  <2> SUFFICES ASSUME NEW i \in 1 .. len + 4, checks[i][1], checks[i][2] = "OK"
      PROVE  FALSE
    OBVIOUS
  <2>1. /\ "INVALID" # "OK" /\ "BAD_KEY" # "OK"
        /\ "BAD_SIG" # "OK" /\ "VERIFY" # "OK"
    OBVIOUS
  <2>2. PICK k \in 1 .. len : i = k + 1  BY Zenon, <1>4, <1>6, <2>1
  <2>. QED  BY Zenon, <1>5, <2>2 DEF bad
<1>9. (\A i \in 1 .. len + 4 : ~checks[i][1])
        => ~s0 /\ (\A i \in 1 .. len : ~bad(i)) /\ ~s1 /\ ~s2 /\ ~s3
  <2>. HIDE DEF s0, s1, s2, s3, bad
  <2>. QED  BY Zenon, <1>4, <1>5, <1>7
<1>10. ~s0 /\ (\A i \in 1 .. len : ~bad(i)) /\ ~s1 /\ ~s2 /\ ~s3
         => (\A i \in 1 .. len + 4 : ~checks[i][1])
  <2>. HIDE DEF s0, s1, s2, s3, bad
  <2>. QED  BY Zenon, <1>4, <1>5, <1>6
<1>11. Passes(checks) <=> \A i \in 1 .. len + 4 : ~checks[i][1]
  BY Zenon, <1>2, <1>7, <1>8, VerdictIsOk
<1>12. Passes(checks)
         <=> ~s0 /\ (\A i \in 1 .. len : ~bad(i)) /\ ~s1 /\ ~s2 /\ ~s3
  BY Zenon, <1>9, <1>10, <1>11
<1>. QED  BY Zenon, <1>12 DEF s0, s1, s2, s3

(* and elips_bls_fast_aggregate_verify, with a proof for every key         *)
(* (bls.c:366-399).                                                        *)
LEMMA FastAggregateVerifyMeans ==
  ASSUME NEW pks, NEW pops, NEW m, NEW sig, NEW len \in Nat,
         Len(pks) = len, DOMAIN pks = 1 .. len
  PROVE  FastAggregateVerifyRc(pks, pops, m, sig) = "OK"
           <=> /\ len # 0
               /\ \A i \in 1 .. len : PopVerifyRc(pks[i], pops[i]) = "OK"
               /\ KeySum(pks, len) # Infinity
               /\ sig.ok
               /\ sig.pt = Times(KeySum(pks, len), m, "SIG")
<1>1. PICK checks : /\ FastChecks(checks, pks, pops, m, sig, len)
                    /\ FastAggregateVerifyRc(pks, pops, m, sig)
                         = Verdict(checks)
  BY FastAggregateChecks
<1>. QED  BY <1>1, FastChecksPass DEF Passes

-----------------------------------------------------------------------------
(* The code of a call that fails is that of its first failing check.       *)
FailsFirst(checks, len, k) ==
  /\ len \in Nat /\ DOMAIN checks = 1 .. len /\ k \in 1 .. len
  /\ checks[k][1] /\ \A j \in 1 .. k - 1 : ~checks[j][1]

(* Verdict returns exactly that code,                                      *)
LEMMA VerdictIsFirst ==
  ASSUME NEW checks, NEW len, NEW k, FailsFirst(checks, len, k)
  PROVE  Verdict(checks) = checks[k][2]
<1> DEFINE S == {j \in 1 .. len : checks[j][1]}
<1>1. Verdict(checks) = IF S = {} THEN "OK" ELSE checks[Min(S)][2]
  BY Zenon DEF Verdict, FailsFirst
<1>2. k \in S /\ len \in Nat  BY DEF FailsFirst
<1>3. \A j \in S : k <= j
  <2> SUFFICES ASSUME NEW j \in S, j < k PROVE FALSE
    BY <1>2
  <2>1. j \in 1 .. k - 1  BY <1>2
  <2>2. checks[j][1]  OBVIOUS
  <2>. QED  BY <2>1, <2>2 DEF FailsFirst
<1>4. \A x \in S : (\A j \in S : x <= j) => x = k
  <2> SUFFICES ASSUME NEW x \in S, \A j \in S : x <= j PROVE x = k
    OBVIOUS
  <2>1. x <= k /\ k <= x  BY <1>2, <1>3
  <2>2. x \in Int /\ k \in Int  BY <1>2
  <2>. QED  BY <2>1, <2>2
<1>. HIDE DEF S
<1>5. Min(S) = k  BY <1>2, <1>3, <1>4 DEF Min
<1>. QED  BY Zenon, <1>1, <1>2, <1>5

(* The code that a list of checks answers with.                            *)
Answers(checks, code) == Verdict(checks) = code

(* The first of one check,                                                 *)
LEMMA FirstOfOne ==
  ASSUME NEW p, NEW c
  PROVE  p => Answers(<< <<p, c>> >>, c)
<1> DEFINE checks == << <<p, c>> >>
<1>1. DOMAIN checks = 1 .. 1 /\ checks[1] = <<p, c>>  OBVIOUS
<1>. HIDE DEF checks
<1>2. checks[1][1] = p /\ checks[1][2] = c  BY <1>1
<1>3. 1 \in Nat /\ 1 \in 1 .. 1 /\ \A j \in 1 .. 1 - 1 : FALSE  OBVIOUS
<1>4. p => FailsFirst(checks, 1, 1)
  BY Zenon, <1>1, <1>2, <1>3 DEF FailsFirst
<1>5. p => Verdict(checks) = c  BY Zenon, <1>2, <1>4, VerdictIsFirst
<1>. QED  BY Zenon, <1>5 DEF checks, Answers

(* of two,                                                                 *)
LEMMA FirstOfTwo ==
  ASSUME NEW p, NEW q, NEW c, NEW d
  PROVE  /\ p => Answers(<< <<p, c>>, <<q, d>> >>, c)
         /\ ~p /\ q => Answers(<< <<p, c>>, <<q, d>> >>, d)
<1> DEFINE checks == << <<p, c>>, <<q, d>> >>
<1>1. DOMAIN checks = 1 .. 2 /\ checks[1] = <<p, c>> /\ checks[2] = <<q, d>>
  OBVIOUS
<1>. HIDE DEF checks
<1>2. /\ checks[1][1] = p /\ checks[1][2] = c
      /\ checks[2][1] = q /\ checks[2][2] = d
  BY <1>1
<1>3. /\ 2 \in Nat /\ 1 \in 1 .. 2 /\ 2 \in 1 .. 2
      /\ \A j \in 1 .. 1 - 1 : FALSE
      /\ \A j \in 1 .. 2 - 1 : j = 1
  OBVIOUS
<1>4. ASSUME p PROVE FailsFirst(checks, 2, 1)
  BY Zenon, <1>1, <1>2, <1>3, <1>4 DEF FailsFirst
<1>5. ASSUME ~p, q PROVE FailsFirst(checks, 2, 2)
  BY Zenon, <1>1, <1>2, <1>3, <1>5 DEF FailsFirst
<1>6. p => Verdict(checks) = c  BY Zenon, <1>2, <1>4, VerdictIsFirst
<1>7. ~p /\ q => Verdict(checks) = d  BY Zenon, <1>2, <1>5, VerdictIsFirst
<1>. QED  BY Zenon, <1>6, <1>7 DEF checks, Answers

(* of three                                                                *)
LEMMA FirstOfThree ==
  ASSUME NEW p, NEW q, NEW r, NEW c, NEW d, NEW e
  PROVE  /\ p => Answers(<< <<p, c>>, <<q, d>>, <<r, e>> >>, c)
         /\ ~p /\ q => Answers(<< <<p, c>>, <<q, d>>, <<r, e>> >>, d)
         /\ ~p /\ ~q /\ r => Answers(<< <<p, c>>, <<q, d>>, <<r, e>> >>, e)
<1> DEFINE checks == << <<p, c>>, <<q, d>>, <<r, e>> >>
<1>1. /\ DOMAIN checks = 1 .. 3
      /\ checks[1] = <<p, c>> /\ checks[2] = <<q, d>> /\ checks[3] = <<r, e>>
  OBVIOUS
<1>. HIDE DEF checks
<1>2. /\ checks[1][1] = p /\ checks[1][2] = c
      /\ checks[2][1] = q /\ checks[2][2] = d
      /\ checks[3][1] = r /\ checks[3][2] = e
  BY <1>1
<1>3. /\ 3 \in Nat /\ 1 \in 1 .. 3 /\ 2 \in 1 .. 3 /\ 3 \in 1 .. 3
      /\ \A j \in 1 .. 1 - 1 : FALSE
      /\ \A j \in 1 .. 2 - 1 : j = 1
      /\ \A j \in 1 .. 3 - 1 : j = 1 \/ j = 2
  OBVIOUS
<1>4. ASSUME p PROVE FailsFirst(checks, 3, 1)
  BY Zenon, <1>1, <1>2, <1>3, <1>4 DEF FailsFirst
<1>5. ASSUME ~p, q PROVE FailsFirst(checks, 3, 2)
  BY Zenon, <1>1, <1>2, <1>3, <1>5 DEF FailsFirst
<1>6. ASSUME ~p, ~q, r PROVE FailsFirst(checks, 3, 3)
  BY Zenon, <1>1, <1>2, <1>3, <1>6 DEF FailsFirst
<1>7. p => Verdict(checks) = c  BY Zenon, <1>2, <1>4, VerdictIsFirst
<1>8. ~p /\ q => Verdict(checks) = d  BY Zenon, <1>2, <1>5, VerdictIsFirst
<1>9. ~p /\ ~q /\ r => Verdict(checks) = e
  BY Zenon, <1>2, <1>6, VerdictIsFirst
<1>. QED  BY Zenon, <1>7, <1>8, <1>9 DEF checks, Answers

(* and of five.                                                            *)
LEMMA FirstOfFive ==
  ASSUME NEW p, NEW q, NEW r, NEW u, NEW w,
         NEW c, NEW d, NEW e, NEW f, NEW g
  PROVE  /\ p =>
              Answers(<< <<p, c>>, <<q, d>>, <<r, e>>, <<u, f>>,
                         <<w, g>> >>, c)
         /\ ~p /\ q =>
              Answers(<< <<p, c>>, <<q, d>>, <<r, e>>, <<u, f>>,
                         <<w, g>> >>, d)
         /\ ~p /\ ~q /\ r =>
              Answers(<< <<p, c>>, <<q, d>>, <<r, e>>, <<u, f>>,
                         <<w, g>> >>, e)
         /\ ~p /\ ~q /\ ~r /\ u =>
              Answers(<< <<p, c>>, <<q, d>>, <<r, e>>, <<u, f>>,
                         <<w, g>> >>, f)
         /\ ~p /\ ~q /\ ~r /\ ~u /\ w =>
              Answers(<< <<p, c>>, <<q, d>>, <<r, e>>, <<u, f>>,
                         <<w, g>> >>, g)
<1> DEFINE checks == << <<p, c>>, <<q, d>>, <<r, e>>, <<u, f>>, <<w, g>> >>
<1>1. /\ DOMAIN checks = 1 .. 5
      /\ checks[1] = <<p, c>> /\ checks[2] = <<q, d>> /\ checks[3] = <<r, e>>
      /\ checks[4] = <<u, f>> /\ checks[5] = <<w, g>>
  OBVIOUS
<1>. HIDE DEF checks
<1>2. /\ checks[1][1] = p /\ checks[1][2] = c
      /\ checks[2][1] = q /\ checks[2][2] = d
      /\ checks[3][1] = r /\ checks[3][2] = e
      /\ checks[4][1] = u /\ checks[4][2] = f
      /\ checks[5][1] = w /\ checks[5][2] = g
  BY <1>1
<1>3. /\ 5 \in Nat /\ 1 \in 1 .. 5 /\ 2 \in 1 .. 5 /\ 3 \in 1 .. 5
      /\ 4 \in 1 .. 5 /\ 5 \in 1 .. 5
      /\ \A j \in 1 .. 1 - 1 : FALSE
      /\ \A j \in 1 .. 2 - 1 : j = 1
      /\ \A j \in 1 .. 3 - 1 : j = 1 \/ j = 2
      /\ \A j \in 1 .. 4 - 1 : j = 1 \/ j = 2 \/ j = 3
      /\ \A j \in 1 .. 5 - 1 : j = 1 \/ j = 2 \/ j = 3 \/ j = 4
  OBVIOUS
<1>4. p => FailsFirst(checks, 5, 1)
  BY Zenon, <1>1, <1>2, <1>3 DEF FailsFirst
<1>5. ~p /\ q => FailsFirst(checks, 5, 2)
  BY Zenon, <1>1, <1>2, <1>3 DEF FailsFirst
<1>6. ~p /\ ~q /\ r => FailsFirst(checks, 5, 3)
  BY Zenon, <1>1, <1>2, <1>3 DEF FailsFirst
<1>7. ~p /\ ~q /\ ~r /\ u => FailsFirst(checks, 5, 4)
  BY Zenon, <1>1, <1>2, <1>3 DEF FailsFirst
<1>8. ~p /\ ~q /\ ~r /\ ~u /\ w => FailsFirst(checks, 5, 5)
  BY Zenon, <1>1, <1>2, <1>3 DEF FailsFirst
<1>9. \A k : FailsFirst(checks, 5, k) => Verdict(checks) = checks[k][2]
  BY Zenon, VerdictIsFirst
<1>. QED
  BY Zenon, <1>2, <1>4, <1>5, <1>6, <1>7, <1>8, <1>9 DEF checks, Answers

(* The codes of elips_bls_verify and elips_bls_pop_verify, in their order  *)
(* (bls.c:278-308).                                                        *)
LEMMA CoreVerifyFirst ==
  ASSUME NEW pk, NEW m, NEW sig, NEW tag
  PROVE  /\ ~KeyValidate(pk) => CoreVerifyRc(pk, m, sig, tag) = "BAD_KEY"
         /\ KeyValidate(pk) /\ ~sig.ok
              => CoreVerifyRc(pk, m, sig, tag) = "BAD_SIG"
         /\ KeyValidate(pk) /\ sig.ok /\ sig.pt # Times(pk.pt, m, tag)
              => CoreVerifyRc(pk, m, sig, tag) = "VERIFY"
<1> DEFINE p == ~KeyValidate(pk)
           q == ~sig.ok
           r == sig.pt # Times(pk.pt, m, tag)
<1>1. CoreVerifyRc(pk, m, sig, tag)
        = Verdict(<< <<p, "BAD_KEY">>, <<q, "BAD_SIG">>, <<r, "VERIFY">> >>)
  BY Zenon DEF CoreVerifyRc
<1> DEFINE checks == << <<p, "BAD_KEY">>, <<q, "BAD_SIG">>, <<r, "VERIFY">> >>
<1>2. /\ p => Answers(checks, "BAD_KEY")
      /\ ~p /\ q => Answers(checks, "BAD_SIG")
      /\ ~p /\ ~q /\ r => Answers(checks, "VERIFY")
  <2>. HIDE DEF p, q, r
  <2>. QED  BY Zenon, FirstOfThree
<1>. QED  BY Zenon, <1>1, <1>2 DEF Answers

(* Those of elips_bls_aggregate_verify (bls.c:330-364).                    *)
ManyFirst(V, pks, msgs, sig) ==
  LET count == ~(Len(pks) = 0 \/ TooMany(Len(pks)))
      apart == ~HasDuplicate(msgs)
      valid == \A i \in DOMAIN pks : KeyValidate(pks[i])
      sum == SumOver(DOMAIN pks,
               [i \in DOMAIN pks |-> Times(pks[i].pt, msgs[i], "SIG")])
  IN  /\ ~count => V = "INVALID"
      /\ count /\ ~apart => V = "DUP_MESSAGE"
      /\ count /\ apart /\ ~sig.ok => V = "BAD_SIG"
      /\ count /\ apart /\ sig.ok /\ ~valid => V = "BAD_KEY"
      /\ count /\ apart /\ sig.ok /\ valid /\ sig.pt # sum => V = "VERIFY"

(* The code of elips_bls_aggregate_verify that fails,                      *)
LEMMA AggregateVerifyFirst ==
  ASSUME NEW pks, NEW msgs, NEW sig
  PROVE  ManyFirst(AggregateVerifyRc(pks, msgs, sig), pks, msgs, sig)
<1> DEFINE p == Len(pks) = 0 \/ TooMany(Len(pks))
           q == HasDuplicate(msgs)
           r == ~sig.ok
           u == \E i \in DOMAIN pks : ~KeyValidate(pks[i])
           w == sig.pt # SumOver(DOMAIN pks,
                    [i \in DOMAIN pks |-> Times(pks[i].pt, msgs[i], "SIG")])
           checks == << <<p, "INVALID">>, <<q, "DUP_MESSAGE">>,
                        <<r, "BAD_SIG">>, <<u, "BAD_KEY">>,
                        <<w, "VERIFY">> >>
<1>1. AggregateVerifyRc(pks, msgs, sig) = Verdict(checks)
  BY Zenon DEF AggregateVerifyRc
<1>2. /\ p => Answers(checks, "INVALID")
      /\ ~p /\ q => Answers(checks, "DUP_MESSAGE")
      /\ ~p /\ ~q /\ r => Answers(checks, "BAD_SIG")
      /\ ~p /\ ~q /\ ~r /\ u => Answers(checks, "BAD_KEY")
      /\ ~p /\ ~q /\ ~r /\ ~u /\ w => Answers(checks, "VERIFY")
  <2>. HIDE DEF p, q, r, u, w
  <2>. QED  BY ZenonT(60), FirstOfFive
<1>. HIDE DEF checks
<1>. QED  BY Zenon, <1>1, <1>2 DEF Answers, ManyFirst

(* The codes of elips_bls_fast_aggregate_verify: the first key whose proof *)
(* fails answers for all that come after it (bls.c:366-399).               *)
FastFirst(V, pks, pops, m, sig, len) ==
  LET good(k) == PopVerifyRc(pks[k], pops[k]) = "OK"
      all == len # 0 /\ \A k \in 1 .. len : good(k)
      sum == KeySum(pks, len)
  IN  /\ len = 0 => V = "INVALID"
      /\ \A k \in 1 .. len :
           (\A j \in 1 .. k - 1 : good(j)) /\ ~good(k)
             => V = PopVerifyRc(pks[k], pops[k])
      /\ all /\ sum = Infinity => V = "BAD_KEY"
      /\ all /\ sum # Infinity /\ ~sig.ok => V = "BAD_SIG"
      /\ all /\ sum # Infinity /\ sig.ok /\ sig.pt # Times(sum, m, "SIG")
           => V = "VERIFY"

(* The first of the fast path, whose list grows with the keys.             *)
LEMMA FastChecksFirst ==
  ASSUME NEW checks, NEW pks, NEW pops, NEW m, NEW sig, NEW len \in Nat,
         FastChecks(checks, pks, pops, m, sig, len)
  PROVE  FastFirst(Verdict(checks), pks, pops, m, sig, len)
<1> DEFINE good(i) == PopVerifyRc(pks[i], pops[i]) = "OK"
           s1 == KeySum(pks, len) = Infinity
           s2 == ~sig.ok
           s3 == sig.pt # Times(KeySum(pks, len), m, "SIG")
           all == len # 0 /\ \A i \in 1 .. len : good(i)
           V == Verdict(checks)
<1>1. /\ checks[1][1] <=> len = 0
      /\ checks[1][2] = "INVALID"
      /\ \A i \in 1 .. len :
           /\ checks[i + 1][1] <=> PopVerifyRc(pks[i], pops[i]) # "OK"
           /\ checks[i + 1][2] = PopVerifyRc(pks[i], pops[i])
      /\ checks[len + 2][1] <=> KeySum(pks, len) = Infinity
      /\ checks[len + 2][2] = "BAD_KEY"
      /\ checks[len + 3][1] <=> ~sig.ok
      /\ checks[len + 3][2] = "BAD_SIG"
      /\ checks[len + 4][1] <=> sig.pt # Times(KeySum(pks, len), m, "SIG")
      /\ checks[len + 4][2] = "VERIFY"
  BY FastChecksRead
<1>2. /\ checks[1][1] <=> len = 0
      /\ checks[1][2] = "INVALID"
      /\ checks[len + 2][1] <=> s1
      /\ checks[len + 2][2] = "BAD_KEY"
      /\ checks[len + 3][1] <=> s2
      /\ checks[len + 3][2] = "BAD_SIG"
      /\ checks[len + 4][1] <=> s3
      /\ checks[len + 4][2] = "VERIFY"
  BY Zenon, <1>1
<1>3. \A i \in 1 .. len :
         /\ checks[i + 1][1] <=> ~good(i)
         /\ checks[i + 1][2] = PopVerifyRc(pks[i], pops[i])
  BY Zenon, <1>1
<1>4. DOMAIN checks = 1 .. len + 4  BY Zenon DEF FastChecks
<1>5. all <=> len # 0 /\ \A i \in 1 .. len : good(i)  OBVIOUS
<1>. HIDE DEF good, s1, s2, s3, all, V
<1>6. \A k : FailsFirst(checks, len + 4, k) => V = checks[k][2]
  BY Zenon, VerdictIsFirst DEF V
<1>7. /\ len + 4 \in Nat /\ 1 \in 1 .. len + 4
      /\ len + 2 \in 1 .. len + 4 /\ len + 3 \in 1 .. len + 4
      /\ len + 4 \in 1 .. len + 4
      /\ \A k \in 1 .. len : k + 1 \in 1 .. len + 4
      /\ \A j \in 1 .. 1 - 1 : FALSE
  OBVIOUS
<1>8. ASSUME NEW k \in 1 .. len, NEW j \in 1 .. (k + 1) - 1
      PROVE  j = 1 \/ \E i \in 1 .. k - 1 : j = i + 1 /\ i \in 1 .. len
  <2> SUFFICES ASSUME j # 1
      PROVE  j - 1 \in 1 .. k - 1 /\ j = (j - 1) + 1 /\ j - 1 \in 1 .. len
    BY Zenon
  <2>. QED  OBVIOUS
<1>9. ASSUME NEW j \in 1 .. (len + 2) - 1
      PROVE  j = 1 \/ \E i \in 1 .. len : j = i + 1
  <2> SUFFICES ASSUME j # 1 PROVE j - 1 \in 1 .. len /\ j = (j - 1) + 1
    BY Zenon
  <2>. QED  OBVIOUS
<1>10. /\ \A j \in 1 .. (len + 3) - 1 : j \in 1 .. (len + 2) - 1 \/ j = len + 2
       /\ \A j \in 1 .. (len + 4) - 1 :
            j \in 1 .. (len + 2) - 1 \/ j = len + 2 \/ j = len + 3
  OBVIOUS
<1>11. len = 0 => FailsFirst(checks, len + 4, 1)
  BY Zenon, <1>2, <1>4, <1>7 DEF FailsFirst
<1>12. ASSUME NEW k \in 1 .. len, \A j \in 1 .. k - 1 : good(j), ~good(k)
       PROVE  V = PopVerifyRc(pks[k], pops[k])
  <2>1. len # 0  OBVIOUS
  <2>2. \A j \in 1 .. (k + 1) - 1 : ~checks[j][1]
    BY Zenon, <1>2, <1>3, <1>8, <1>12, <2>1
  <2>3. FailsFirst(checks, len + 4, k + 1)
    BY Zenon, <1>3, <1>4, <1>7, <1>12, <2>2 DEF FailsFirst
  <2>. QED  BY Zenon, <1>3, <1>6, <2>3
<1>13. all => \A j \in 1 .. (len + 2) - 1 : ~checks[j][1]
  BY Zenon, <1>2, <1>3, <1>5, <1>9
<1>14. all /\ s1 => FailsFirst(checks, len + 4, len + 2)
  BY Zenon, <1>2, <1>4, <1>7, <1>13 DEF FailsFirst
<1>15. all /\ ~s1 /\ s2 => FailsFirst(checks, len + 4, len + 3)
  BY Zenon, <1>2, <1>4, <1>7, <1>10, <1>13 DEF FailsFirst
<1>16. all /\ ~s1 /\ ~s2 /\ s3 => FailsFirst(checks, len + 4, len + 4)
  BY Zenon, <1>2, <1>4, <1>7, <1>10, <1>13 DEF FailsFirst
<1>17. /\ len = 0 => V = "INVALID"
       /\ all /\ s1 => V = "BAD_KEY"
       /\ all /\ ~s1 /\ s2 => V = "BAD_SIG"
       /\ all /\ ~s1 /\ ~s2 /\ s3 => V = "VERIFY"
  BY Zenon, <1>2, <1>6, <1>11, <1>14, <1>15, <1>16
<1>. QED  BY Zenon, <1>12, <1>17 DEF FastFirst, good, s1, s2, s3, all, V

(* The same, of elips_bls_fast_aggregate_verify.                           *)
LEMMA FastAggregateVerifyFirst ==
  ASSUME NEW pks, NEW pops, NEW m, NEW sig, NEW len \in Nat,
         Len(pks) = len, DOMAIN pks = 1 .. len
  PROVE  FastFirst(FastAggregateVerifyRc(pks, pops, m, sig),
                   pks, pops, m, sig, len)
<1>1. PICK checks : /\ FastChecks(checks, pks, pops, m, sig, len)
                    /\ FastAggregateVerifyRc(pks, pops, m, sig)
                         = Verdict(checks)
  BY FastAggregateChecks
<1>. QED  BY <1>1, FastChecksFirst

-----------------------------------------------------------------------------
(* Pairings.  The points that the readers of serialize.c yield have finite *)
(* support; those of G2 are sums of multiples of hash points.              *)
(* The name of a product of two terms.                                     *)
ProductName(t) == <<{t[1], t[2][1]}, t[2][2], t[2][3]>>

(* The product of two terms is one term, or vanishes.                      *)
LEMMA TermProductIsForm ==
  ASSUME NEW f, IsForm(f), NEW g, IsForm(g), NEW t \in (DOMAIN f) \X (DOMAIN g)
  PROVE  /\ IsForm(TermProduct(f, g, t))
         /\ \A z : Coef(TermProduct(f, g, t), z)
                   = IF z = ProductName(t) THEN (f[t[1]] * g[t[2]]) % R ELSE 0
<1> DEFINE p == f[t[1]] * g[t[2]]
           e == [x \in {y \in {ProductName(t)} : p % R # 0} |-> p % R]
<1>0. R \in Nat /\ R > 1  BY GroupAssumption
<1>1. TermProduct(f, g, t) = e  BY DEF TermProduct, Reduced, ProductName
<1>2. p \in Nat /\ p % R \in 0 .. R - 1
  <2>1. t[1] \in DOMAIN f /\ t[2] \in DOMAIN g  OBVIOUS
  <2>2. f[t[1]] \in 1 .. R - 1 /\ g[t[2]] \in 1 .. R - 1
    BY <2>1 DEF IsForm
  <2>. QED  BY <1>0, <2>2
<1>. HIDE DEF p
<1>3. IsForm(e)  BY <1>0, <1>2 DEF IsForm
<1>4. \A z : Coef(e, z) = IF z = ProductName(t) THEN p % R ELSE 0
  BY DEF Coef
<1>. QED  BY <1>1, <1>3, <1>4 DEF p

(* The pairing of two points, term by term.                                *)
Terms(f, g) == (DOMAIN f) \X (DOMAIN g)
Products(f, g) == [t \in Terms(f, g) |-> TermProduct(f, g, t)]

(* The pairing, as a sum over the pairs of terms.                          *)
LEMMA PairingIsSum ==
  ASSUME NEW f, IsPoint(f), NEW g, IsPoint(g)
  PROVE  /\ Pairing(f, g) = SumOver(Terms(f, g), Products(f, g))
         /\ IsFiniteSet(Terms(f, g)) /\ FormsAt(Terms(f, g), Products(f, g))
         /\ IsForm(Pairing(f, g))
<1>1. Pairing(f, g) = SumOver(Terms(f, g), Products(f, g))
  BY Zenon DEF Pairing, Terms, Products
<1>2. IsFiniteSet(Terms(f, g))
  BY FS_Product DEF IsPoint, Terms
<1>3. FormsAt(Terms(f, g), Products(f, g))
  BY TermProductIsForm DEF FormsAt, IsPoint, Products, Terms
<1>4. IsForm(Pairing(f, g))
  BY <1>1, <1>2, <1>3, SumIsForm
<1>. QED  BY <1>1, <1>2, <1>3, <1>4

(* A coefficient that one pair of terms accounts for,                      *)
LEMMA PairingAt ==
  ASSUME NEW f, IsPoint(f), NEW g, IsPoint(g), NEW t \in Terms(f, g),
         \A u \in Terms(f, g) : ProductName(u) = ProductName(t) => u = t
  PROVE  Coef(Pairing(f, g), ProductName(t)) = (f[t[1]] * g[t[2]]) % R
<1> DEFINE z == ProductName(t)
<1>1. \A u \in Terms(f, g) :
        Coef(Products(f, g)[u], z)
          = IF z = ProductName(u) THEN (f[u[1]] * g[u[2]]) % R ELSE 0
  <2> SUFFICES ASSUME NEW u \in Terms(f, g)
      PROVE  Coef(Products(f, g)[u], z)
               = IF z = ProductName(u) THEN (f[u[1]] * g[u[2]]) % R ELSE 0
    OBVIOUS
  <2>1. Products(f, g)[u] = TermProduct(f, g, u)  BY DEF Products
  <2>2. Coef(TermProduct(f, g, u), z)
          = IF z = ProductName(u) THEN (f[u[1]] * g[u[2]]) % R ELSE 0
    <3>. HIDE DEF z
    <3>. QED  BY Zenon, TermProductIsForm DEF IsPoint, Terms
  <2>. QED  BY <2>1, <2>2
<1>. HIDE DEF z
<1>2. \A u \in Terms(f, g) \ {t} : Coef(Products(f, g)[u], z) = 0
  BY <1>1 DEF z
<1>3. Coef(Products(f, g)[t], z) = (f[t[1]] * g[t[2]]) % R
  BY <1>1 DEF z
<1>4. Coef(SumOver(Terms(f, g), Products(f, g)), z)
        = Coef(Products(f, g)[t], z)
  BY <1>2, PairingIsSum, SumSingle
<1>. QED  BY <1>3, <1>4, PairingIsSum DEF z

(* and one that none does.                                                 *)
LEMMA PairingAbsent ==
  ASSUME NEW f, IsPoint(f), NEW g, IsPoint(g), NEW z,
         \A u \in Terms(f, g) : ProductName(u) # z
  PROVE  Coef(Pairing(f, g), z) = 0
<1>1. ASSUME NEW u \in Terms(f, g) PROVE Coef(Products(f, g)[u], z) = 0
  <2>1. Products(f, g)[u] = TermProduct(f, g, u)  BY DEF Products
  <2>2. Coef(TermProduct(f, g, u), z)
          = IF z = ProductName(u) THEN (f[u[1]] * g[u[2]]) % R ELSE 0
    BY Zenon, TermProductIsForm DEF IsPoint, Terms
  <2>. QED  BY <2>1, <2>2
<1>. QED  BY <1>1, PairingIsSum, SumAbsent

(* What a pairing with a generator does to a name, and undone.             *)
Lifted(w) == <<{Gen, w[1]}, w[2], w[3]>>

(* Distinct terms of G2 lift to distinct terms of G_T.                     *)
LEMMA LiftedApart ==
  ASSUME NEW u, IsTriple(u), NEW w, IsTriple(w), Lifted(u) = Lifted(w)
  PROVE  u = w
<1>1. {Gen, u[1]} = {Gen, w[1]} /\ u[2] = w[2] /\ u[3] = w[3]
  BY DEF Lifted
<1>2. u[1] = w[1]
  <2>1. \A a, b, c : {a, b} = {a, c} => b = c  OBVIOUS
  <2>. QED  BY Zenon, <1>1, <2>1
<1>. QED  BY Zenon, <1>1, <1>2 DEF IsTriple

(* e is f, its names lifted.                                               *)
Lifts(e, f) ==
  /\ IsForm(e) /\ IsForm(f)
  /\ \A w \in DOMAIN f : IsTriple(w)
  /\ \A w : IsTriple(w) => Coef(e, Lifted(w)) = Coef(f, w)
  /\ \A z : (\A w : IsTriple(w) => z # Lifted(w)) => Coef(e, z) = 0

(* One is the identity when the other is.                                  *)
LEMMA LiftsIdentity ==
  ASSUME NEW e, NEW f, Lifts(e, f)
  PROVE  e = Infinity <=> f = Infinity
<1>1. ASSUME e = Infinity PROVE f = Infinity
  <2>1. ASSUME NEW w PROVE Coef(f, w) = Coef(Infinity, w)
    <3>1. CASE w \in DOMAIN f
      <4>1. Coef(e, Lifted(w)) = Coef(f, w)  BY <3>1 DEF Lifts
      <4>. QED  BY <1>1, <4>1, InfinityIsForm
    <3>2. CASE w \notin DOMAIN f
      BY <3>2, InfinityIsForm DEF Coef
    <3>. QED  BY <3>1, <3>2
  <2>. QED  BY <2>1, FormsEqual, InfinityIsForm DEF Lifts
<1>2. ASSUME f = Infinity PROVE e = Infinity
  <2>1. ASSUME NEW z PROVE Coef(e, z) = Coef(Infinity, z)
    <3>1. CASE \A w : IsTriple(w) => z # Lifted(w)
      BY <3>1, InfinityIsForm DEF Lifts
    <3>2. CASE \E w : IsTriple(w) /\ z = Lifted(w)
      <4>1. PICK w : IsTriple(w) /\ z = Lifted(w)  BY <3>2
      <4>. QED  BY <1>2, <4>1, InfinityIsForm DEF Lifts
    <3>. QED  BY <3>1, <3>2
  <2>. QED  BY <2>1, FormsEqual, InfinityIsForm DEF Lifts
<1>. QED  BY <1>1, <1>2

(* The pairing of two points is h lifted when its terms are those of h.    *)
TermsOf(h, f, g, nm) ==
  /\ \A u \in Terms(f, g) :
       /\ IsTriple(nm[u]) /\ ProductName(u) = Lifted(nm[u])
       /\ nm[u] \in DOMAIN h /\ h[nm[u]] = (f[u[1]] * g[u[2]]) % R
  /\ \A u \in Terms(f, g), v \in Terms(f, g) : nm[u] = nm[v] => u = v
  /\ \A w \in DOMAIN h : \E u \in Terms(f, g) : w = nm[u]

(* Pairing with the generator lifts a form of G2, term by term.            *)
LEMMA PairingLifts ==
  ASSUME NEW f, IsPoint(f), NEW g, IsPoint(g), NEW h, IsForm(h),
         NEW nm, TermsOf(h, f, g, nm)
  PROVE  Lifts(Pairing(f, g), h)
<1>1. \A w \in DOMAIN h : IsTriple(w)  BY DEF TermsOf
<1>2. ASSUME NEW w, IsTriple(w)
      PROVE  Coef(Pairing(f, g), Lifted(w)) = Coef(h, w)
  <2>1. CASE w \in DOMAIN h
    <3>1. PICK u \in Terms(f, g) : w = nm[u]  BY <2>1 DEF TermsOf
    <3>2. ProductName(u) = Lifted(w) /\ h[w] = (f[u[1]] * g[u[2]]) % R
      BY <3>1 DEF TermsOf
    <3>3. ASSUME NEW v \in Terms(f, g), ProductName(v) = ProductName(u)
          PROVE  v = u
      <4>1. IsTriple(nm[v]) /\ ProductName(v) = Lifted(nm[v])  BY DEF TermsOf
      <4>2. nm[v] = w  BY Zenon, <1>2, <3>2, <3>3, <4>1, LiftedApart
      <4>. QED  BY <3>1, <4>2 DEF TermsOf
    <3>4. Coef(Pairing(f, g), ProductName(u)) = (f[u[1]] * g[u[2]]) % R
      BY <3>3, PairingAt
    <3>5. Coef(h, w) = h[w]  BY <2>1 DEF Coef
    <3>. QED  BY Zenon, <3>2, <3>4, <3>5
  <2>2. CASE w \notin DOMAIN h
    <3>1. ASSUME NEW u \in Terms(f, g), ProductName(u) = Lifted(w) PROVE FALSE
      <4>1. /\ IsTriple(nm[u]) /\ nm[u] \in DOMAIN h
            /\ ProductName(u) = Lifted(nm[u])
        BY DEF TermsOf
      <4>2. nm[u] = w  BY Zenon, <1>2, <3>1, <4>1, LiftedApart
      <4>. QED  BY <2>2, <4>1, <4>2
    <3>2. Coef(Pairing(f, g), Lifted(w)) = 0  BY <3>1, PairingAbsent
    <3>3. Coef(h, w) = 0  BY <2>2 DEF Coef
    <3>. QED  BY <3>2, <3>3
  <2>. QED  BY <2>1, <2>2
<1>3. ASSUME NEW z, \A w : IsTriple(w) => z # Lifted(w)
      PROVE  Coef(Pairing(f, g), z) = 0
  <2>1. \A u \in Terms(f, g) : ProductName(u) # z
    BY <1>3 DEF TermsOf
  <2>. QED  BY <2>1, PairingAbsent
<1>. QED  BY <1>1, <1>2, <1>3, PairingIsSum DEF Lifts

(* A product below 2 R that is one times a coefficient.                    *)
LEMMA CoefOfPoint ==
  ASSUME NEW f, IsForm(f), NEW x \in DOMAIN f
  PROVE  f[x] \in 1 .. R - 1 /\ (f[x] * 1) % R = f[x] /\ Coef(f, x) = f[x]
<1>0. R \in Nat /\ R > 1  BY GroupAssumption
<1>1. f[x] \in 1 .. R - 1  BY DEF IsForm
<1>2. f[x] % R = f[x]  BY <1>0, <1>1, RemainderOfSmall
<1>3. f[x] * 1 = f[x]  BY <1>0, <1>1
<1>. QED  BY <1>1, <1>2, <1>3 DEF Coef

(* The hash point of a message, multiplied by an exponent, paired with the *)
(* generator, is the hash point paired with the key (bls.c:295-300).       *)
LEMMA HashPairing ==
  ASSUME NEW f, IsPoint(f), NEW m, NEW tag
  PROVE  /\ Lifts(Pairing(f, HashToG2(m, tag)), Times(f, m, tag))
         /\ IsPoint2(HashToG2(m, tag)) /\ HashToG2(m, tag) # Infinity
<1> DEFINE h == <<Gen, m, tag>>
           g == HashToG2(m, tag)
           nm == [u \in Terms(f, g) |-> <<u[1], m, tag>>]
           T == Times(f, m, tag)
<1>0. R \in Nat /\ R > 1  BY GroupAssumption
<1>1. DOMAIN g = {h} /\ g[h] = 1  BY DEF HashToG2
<1>2. IsPoint2(g) /\ g # Infinity
  <2>1. IsForm(g)  BY <1>0 DEF IsForm, HashToG2
  <2>2. IsFiniteSet(DOMAIN g)  BY <1>1, FS_Singleton
  <2>3. IsTriple(h)  BY DEF IsTriple
  <2>4. DOMAIN Infinity = {}  BY DEF Infinity
  <2>. QED  BY <1>1, <2>1, <2>2, <2>3, <2>4 DEF IsPoint2, IsPoint
<1>3. IsForm(T) /\ DOMAIN T = {<<y, m, tag>> : y \in DOMAIN f}
      /\ \A y \in DOMAIN f : T[<<y, m, tag>>] = f[y]
  BY TimesIsForm DEF IsPoint, Times
<1>4. \A u : u \in Terms(f, g) <=> u[1] \in DOMAIN f /\ u = <<u[1], h>>
  BY <1>1 DEF Terms
<1>5. ASSUME NEW u \in Terms(f, g)
      PROVE  /\ IsTriple(nm[u]) /\ ProductName(u) = Lifted(nm[u])
             /\ nm[u] \in DOMAIN T /\ T[nm[u]] = (f[u[1]] * g[u[2]]) % R
  <2>1. u[1] \in DOMAIN f /\ u[2] = h /\ nm[u] = <<u[1], m, tag>>
    BY <1>4
  <2>2. IsTriple(nm[u])  BY <2>1 DEF IsTriple
  <2>3. ProductName(u) = Lifted(nm[u])
    <3>1. {u[1], Gen} = {Gen, u[1]}  OBVIOUS
    <3>. QED  BY <2>1, <3>1 DEF ProductName, Lifted
  <2>4. nm[u] \in DOMAIN T /\ T[nm[u]] = f[u[1]]  BY <1>3, <2>1
  <2>5. (f[u[1]] * g[u[2]]) % R = f[u[1]]
    BY <1>1, <2>1, CoefOfPoint DEF IsPoint
  <2>. QED  BY <2>2, <2>3, <2>4, <2>5
<1>6. ASSUME NEW u \in Terms(f, g), NEW v \in Terms(f, g), nm[u] = nm[v]
      PROVE  u = v
  <2>1. nm[u] = <<u[1], m, tag>> /\ nm[v] = <<v[1], m, tag>>  OBVIOUS
  <2>2. u = <<u[1], h>> /\ v = <<v[1], h>>  BY <1>4
  <2>. QED  BY <1>6, <2>1, <2>2
<1>7. ASSUME NEW w \in DOMAIN T PROVE \E u \in Terms(f, g) : w = nm[u]
  <2>1. PICK y \in DOMAIN f : w = <<y, m, tag>>  BY <1>3
  <2>2. <<y, h>> \in Terms(f, g)  BY <1>4
  <2>3. nm[<<y, h>>] = w  BY <2>1, <2>2
  <2>. QED  BY <2>2, <2>3
<1>. HIDE DEF nm, T, g
<1>8. TermsOf(T, f, g, nm)  BY <1>5, <1>6, <1>7 DEF TermsOf
<1>9. Lifts(Pairing(f, g), T)
  BY <1>2, <1>3, <1>8, PairingLifts DEF IsPoint2
<1>. QED  BY <1>2, <1>9 DEF g, T

(* The remainder of (R - 1) a is that of -a.                               *)
LEMMA RemainderOfMinus ==
  ASSUME NEW a \in 1 .. R - 1
  PROVE  ((R - 1) * a) % R = R - a
<1> DEFINE z == (R - 1) * a
           q == z \div R
           r == z % R
<1>0. R \in Nat /\ R > 1  BY GroupAssumption
<1>1. z = R * (a - 1) + (R - a)  BY <1>0
<1>2. z \in Int  BY <1>0
<1> HIDE DEF z
<1>3. q \in Int /\ r \in 0 .. R - 1 /\ z = R * q + r  BY <1>0, <1>2
<1> HIDE DEF q, r
<1> DEFINE d == a - 1 - q
<1>4. d \in Int /\ a - 1 = q + d  BY <1>0, <1>3
<1> HIDE DEF d
<1>5. R * (q + d) = R * q + R * d  BY <1>0, <1>3, <1>4
<1>6. R * d = r - (R - a)  BY <1>0, <1>1, <1>3, <1>4, <1>5
<1>7. ASSUME d > 0 PROVE FALSE
  <2>1. R * d >= R  BY <1>0, <1>4, <1>7
  <2>. QED  BY <1>0, <1>3, <1>6, <2>1
<1>8. ASSUME d < 0 PROVE FALSE
  <2>1. R * (-d) >= R  BY <1>0, <1>4, <1>8
  <2>2. R * d <= -R  BY <1>0, <1>4, <2>1
  <2>. QED  BY <1>0, <1>3, <1>6, <2>2
<1>9. d = 0  BY <1>4, <1>7, <1>8
<1>10. R * d = 0  BY <1>0, <1>9
<1>. QED  BY <1>0, <1>3, <1>6, <1>10 DEF r, z

(* The inverse of a form: its coefficients negated modulo R.               *)
LEMMA MinusIsForm ==
  ASSUME NEW f, IsForm(f)
  PROVE  /\ IsForm(Minus(f)) /\ DOMAIN Minus(f) = DOMAIN f
         /\ \A x \in DOMAIN f : Minus(f)[x] = R - f[x]
<1> DEFINE g == [x \in {y \in DOMAIN f : (R - f[y]) % R # 0} |->
                   (R - f[x]) % R]
<1>0. R \in Nat /\ R > 1  BY GroupAssumption
<1>1. Minus(f) = g  BY DEF Minus, Reduced
<1>2. ASSUME NEW x \in DOMAIN f
      PROVE  (R - f[x]) % R = R - f[x] /\ R - f[x] \in 1 .. R - 1
  <2>1. f[x] \in 1 .. R - 1  BY DEF IsForm
  <2>2. R - f[x] \in 1 .. R - 1  BY <1>0, <2>1
  <2> DEFINE z == R - f[x]
  <2>3. z % R = z
    <3> HIDE DEF z
    <3>1. z \in 1 .. R - 1  BY <2>2 DEF z
    <3>. QED  BY <1>0, <3>1, RemainderOfSmall
  <2>. QED  BY <2>2, <2>3
<1>3. \A x \in DOMAIN f : (R - f[x]) % R # 0  BY <1>2
<1>4. DOMAIN g = DOMAIN f  BY <1>3
<1>5. \A x \in DOMAIN f : g[x] = R - f[x]  BY <1>2, <1>3
<1>6. IsForm(g)  BY <1>2, <1>3 DEF IsForm
<1>. QED  BY <1>1, <1>4, <1>5, <1>6

(* Equal combinations are those that cancel.                               *)
LEMMA Cancels ==
  ASSUME NEW f, IsForm(f), NEW g, IsForm(g)
  PROVE  Plus(Minus(f), g) = Infinity <=> f = g
<1>0. R \in Nat /\ R > 1  BY GroupAssumption
<1>1. IsForm(Minus(f)) /\ IsForm(Plus(Minus(f), g))  BY MinusIsForm, PlusIsForm
<1>2. ASSUME NEW x
      PROVE  Coef(Plus(Minus(f), g), x) = 0 <=> Coef(f, x) = Coef(g, x)
  <2>1. Coef(Plus(Minus(f), g), x) = (Coef(Minus(f), x) + Coef(g, x)) % R
    BY <1>1, PlusIsForm
  <2>2. Coef(Minus(f), x) = IF Coef(f, x) = 0 THEN 0 ELSE R - Coef(f, x)
    <3>1. x \in DOMAIN f <=> Coef(f, x) # 0  BY CoefOfForm
    <3>. QED  BY <3>1, MinusIsForm DEF Coef
  <2> DEFINE a == Coef(f, x)
             b == Coef(g, x)
             c == Coef(Minus(f), x)
  <2>3. a \in 0 .. R - 1 /\ b \in 0 .. R - 1  BY CoefOfForm
  <2>4. c = IF a = 0 THEN 0 ELSE R - a  BY <2>2
  <2> HIDE DEF a, b, c
  <2>5. c + b \in 0 .. 2 * R - 1  BY <1>0, <2>3, <2>4
  <2>6. (c + b) % R = IF c + b < R THEN c + b ELSE c + b - R
    <3>1. \A z \in 0 .. 2 * R - 1 : z % R = IF z < R THEN z ELSE z - R
      BY RemainderOfSmall
    <3>. QED  BY <1>0, <2>3, <2>4, <2>5, <3>1
  <2>7. (c + b) % R = 0 <=> a = b
    <3>1. CASE a = 0  BY <1>0, <2>3, <2>4, <2>6, <3>1
    <3>2. CASE a # 0  BY <1>0, <2>3, <2>4, <2>6, <3>2
    <3>. QED  BY <3>1, <3>2
  <2>. QED  BY <2>1, <2>7 DEF a, b, c
<1>3. ASSUME Plus(Minus(f), g) = Infinity PROVE f = g
  <2>1. \A x : Coef(f, x) = Coef(g, x)  BY <1>2, <1>3, InfinityIsForm
  <2>. QED  BY <2>1, FormsEqual
<1>4. ASSUME f = g PROVE Plus(Minus(f), g) = Infinity
  <2>1. \A x : Coef(Plus(Minus(f), g), x) = Coef(Infinity, x)
    BY <1>2, <1>4, InfinityIsForm
  <2>. QED  BY <1>1, <2>1, FormsEqual, InfinityIsForm
<1>. QED  BY <1>3, <1>4

(* Slot 0 of the pairing: the signature negated (bls.c:89).                *)
LEMMA SignaturePairing ==
  ASSUME NEW sig, IsPoint2(sig)
  PROVE  /\ Lifts(Pairing(Minus(G1Generator), sig), Minus(sig))
         /\ IsPoint(Minus(G1Generator)) /\ Minus(G1Generator) # Infinity
<1> DEFINE f == Minus(G1Generator)
           nm == [u \in Terms(f, sig) |-> u[2]]
           h == Minus(sig)
<1>0. R \in Nat /\ R > 1  BY GroupAssumption
<1>1. IsForm(G1Generator) /\ DOMAIN G1Generator = {Gen} /\ G1Generator[Gen] = 1
  BY <1>0 DEF G1Generator, IsForm
<1>2. IsForm(f) /\ DOMAIN f = {Gen} /\ f[Gen] = R - 1
  BY <1>1, MinusIsForm
<1>3. IsPoint(f) /\ f # Infinity
  <2>1. DOMAIN Infinity = {}  BY DEF Infinity
  <2>. QED  BY <1>2, <2>1, FS_Singleton DEF IsPoint
<1>4. /\ IsForm(h) /\ DOMAIN h = DOMAIN sig
      /\ \A x \in DOMAIN sig : h[x] = R - sig[x]
  BY MinusIsForm DEF IsPoint2, IsPoint
<1>5. \A u : u \in Terms(f, sig) <=> u = <<Gen, u[2]>> /\ u[2] \in DOMAIN sig
  BY <1>2 DEF Terms
<1>. HIDE DEF f, h
<1>6. ASSUME NEW u \in Terms(f, sig)
      PROVE  /\ IsTriple(nm[u]) /\ ProductName(u) = Lifted(nm[u])
             /\ nm[u] \in DOMAIN h /\ h[nm[u]] = (f[u[1]] * sig[u[2]]) % R
  <2>1. u[1] = Gen /\ u[2] \in DOMAIN sig /\ nm[u] = u[2]  BY <1>5
  <2>2. IsTriple(nm[u])  BY <2>1 DEF IsPoint2
  <2>3. ProductName(u) = Lifted(nm[u])  BY <2>1 DEF ProductName, Lifted
  <2>4. sig[u[2]] \in 1 .. R - 1  BY <2>1 DEF IsPoint2, IsPoint, IsForm
  <2>5. ((R - 1) * sig[u[2]]) % R = R - sig[u[2]]  BY <2>4, RemainderOfMinus
  <2>. QED  BY <1>2, <1>4, <2>1, <2>2, <2>3, <2>5
<1>7. ASSUME NEW u \in Terms(f, sig), NEW v \in Terms(f, sig), nm[u] = nm[v]
      PROVE  u = v
  <2>1. nm[u] = u[2] /\ nm[v] = v[2]  OBVIOUS
  <2>2. u = <<Gen, u[2]>> /\ v = <<Gen, v[2]>>  BY <1>5
  <2>. QED  BY <1>7, <2>1, <2>2
<1>8. ASSUME NEW w \in DOMAIN h PROVE \E u \in Terms(f, sig) : w = nm[u]
  <2>1. <<Gen, w>> \in Terms(f, sig)  BY <1>4, <1>5
  <2>2. nm[<<Gen, w>>] = w  BY <2>1
  <2>. QED  BY <2>1, <2>2
<1>. HIDE DEF nm
<1>9. TermsOf(h, f, sig, nm)  BY <1>6, <1>7, <1>8 DEF TermsOf
<1>10. Lifts(Pairing(f, sig), h)
  BY <1>3, <1>4, <1>9, PairingLifts DEF IsPoint2
<1>. QED  BY <1>3, <1>10 DEF f, h

(* Sums are lifted term by term.                                           *)
LEMMA LiftsPlus ==
  ASSUME NEW d, NEW e, NEW f, NEW g, Lifts(d, f), Lifts(e, g)
  PROVE  Lifts(Plus(d, e), Plus(f, g))
<1> DEFINE de == Plus(d, e)
           fg == Plus(f, g)
<1>0. R \in Nat /\ R > 1 /\ (0 + 0) % R = 0
  BY GroupAssumption, RemainderOfSmall
<1>1. IsForm(de) /\ IsForm(fg)  BY PlusIsForm DEF Lifts
<1>2. \A x : /\ Coef(de, x) = (Coef(d, x) + Coef(e, x)) % R
             /\ Coef(fg, x) = (Coef(f, x) + Coef(g, x)) % R
  BY PlusIsForm DEF Lifts
<1>. HIDE DEF de, fg
<1>3. ASSUME NEW w \in DOMAIN fg PROVE IsTriple(w)
  <2>1. Coef(fg, w) # 0  BY <1>1, CoefOfForm
  <2>2. Coef(f, w) # 0 \/ Coef(g, w) # 0  BY <1>0, <1>2, <2>1
  <2>3. w \in DOMAIN f \/ w \in DOMAIN g  BY <2>2 DEF Coef
  <2>. QED  BY <2>3 DEF Lifts
<1>4. ASSUME NEW w, IsTriple(w) PROVE Coef(de, Lifted(w)) = Coef(fg, w)
  BY <1>2, <1>4 DEF Lifts
<1>5. ASSUME NEW z, \A w : IsTriple(w) => z # Lifted(w) PROVE Coef(de, z) = 0
  <2>1. Coef(d, z) = 0 /\ Coef(e, z) = 0  BY <1>5 DEF Lifts
  <2>. QED  BY <1>0, <1>2, <2>1
<1>6. Lifts(de, fg)  BY <1>1, <1>3, <1>4, <1>5 DEF Lifts
<1>. QED  BY <1>6 DEF de, fg

(* Lifting a sum is summing what is lifted.                                *)
LEMMA LiftsSum ==
  ASSUME NEW S, IsFiniteSet(S), NEW v, NEW w, \A j \in S : Lifts(v[j], w[j])
  PROVE  Lifts(SumOver(S, v), SumOver(S, w))
<1> DEFINE good == {s \in SUBSET S : Lifts(SumOver(s, v), SumOver(s, w))}
<1>1. {} \in good
  <2>1. Lifts(Infinity, Infinity)
    <3>1. DOMAIN Infinity = {}  BY DEF Infinity
    <3>. QED  BY <3>1, InfinityIsForm DEF Lifts
  <2>. QED  BY <2>1, SumOfNone
<1>2. ASSUME NEW s \in SUBSET S, s # {}, Rest(s) \in good
      PROVE  s \in good
  <2>1. IsFiniteSet(s) /\ Pick(s) \in S  BY <1>2, FS_Subset, PickIsIn
  <2>2. /\ SumOver(s, v) = Plus(v[Pick(s)], SumOver(Rest(s), v))
        /\ SumOver(s, w) = Plus(w[Pick(s)], SumOver(Rest(s), w))
    BY <1>2, <2>1, SumOfSome
  <2>3. Lifts(v[Pick(s)], w[Pick(s)])  BY <2>1
  <2>. QED  BY <1>2, <2>2, <2>3, LiftsPlus
<1>3. S \in good
  <2> HIDE DEF good
  <2>. QED  BY <1>1, <1>2, SetInduction
<1>. QED  BY <1>3

(* What pairing_check compares: the product over all slots is one exactly  *)
(* when the signature in slot 0 is the sum of the shares of the others     *)
(* (bls.c:74-96).                                                          *)
SlotIsShare(p, q, share) ==
  \E m, tag : IsPoint(p) /\ q = HashToG2(m, tag) /\ share = Times(p, m, tag)

THEOREM PairingEquation ==
  ASSUME NEW n \in Nat, NEW p, NEW q, NEW share,
         IsPoint2(q[0]), p[0] = Minus(G1Generator),
         \A s \in 1 .. n : SlotIsShare(p[s], q[s], share[s])
  PROVE  SumOver(0 .. n, [s \in 0 .. n |-> Pairing(p[s], q[s])]) = Infinity
           <=> q[0] = SumOver(1 .. n, share)
<1> DEFINE v == [s \in 0 .. n |-> Pairing(p[s], q[s])]
           rest == SumOver(1 .. n, v)
           sum == SumOver(1 .. n, share)
<1>1. \A s \in 0 .. n : v[s] = Pairing(p[s], q[s])  OBVIOUS
<1>2. 0 \in 0 .. n /\ 1 .. n \subseteq 0 .. n /\ (0 .. n) \ {0} = 1 .. n
  OBVIOUS
<1>3. IsFiniteSet(0 .. n) /\ IsFiniteSet(1 .. n)
  <2>1. 0 \in Int /\ 1 \in Int /\ n \in Int  OBVIOUS
  <2>. QED  BY <2>1, FS_Interval
<1>. HIDE DEF v
<1>4. Lifts(v[0], Minus(q[0]))
  BY <1>1, <1>2, SignaturePairing
<1>5. ASSUME NEW s \in 1 .. n PROVE Lifts(v[s], share[s])
  <2>1. PICK m, tag : /\ IsPoint(p[s]) /\ q[s] = HashToG2(m, tag)
                      /\ share[s] = Times(p[s], m, tag)
    BY DEF SlotIsShare
  <2>2. Lifts(Pairing(p[s], HashToG2(m, tag)), Times(p[s], m, tag))
    BY <2>1, HashPairing
  <2>3. v[s] = Pairing(p[s], q[s])  BY <1>1, <1>2
  <2>. QED  BY <2>1, <2>2, <2>3
<1>6. Lifts(rest, sum)  BY <1>3, <1>5, LiftsSum
<1>7. SumOver(0 .. n, v) = Plus(v[0], rest)
  <2>1. FormsAt(0 .. n, v)
    <3> SUFFICES ASSUME NEW s \in 0 .. n PROVE IsForm(v[s])
      BY DEF FormsAt
    <3>1. s = 0 \/ s \in 1 .. n  OBVIOUS
    <3>. QED  BY <1>4, <1>5, <3>1 DEF Lifts
  <2>2. SumOver(0 .. n, v) = Plus(v[0], SumOver((0 .. n) \ {0}, v))
    BY Zenon, <1>2, <1>3, <2>1, SumRemove
  <2>. QED  BY Zenon, <1>2, <2>2
<1>. HIDE DEF rest, sum
<1>8. Lifts(Plus(v[0], rest), Plus(Minus(q[0]), sum))
  BY <1>4, <1>6, LiftsPlus
<1>9. Plus(v[0], rest) = Infinity <=> Plus(Minus(q[0]), sum) = Infinity
  BY <1>8, LiftsIdentity
<1>10. Plus(Minus(q[0]), sum) = Infinity <=> q[0] = sum
  BY <1>6, Cancels DEF Lifts, IsPoint2, IsPoint
<1>. QED  BY <1>7, <1>9, <1>10 DEF v, sum

-----------------------------------------------------------------------------
(* Adding the identity changes nothing,                                    *)
LEMMA PlusIdentity ==
  ASSUME NEW f, IsForm(f)
  PROVE  Plus(f, Infinity) = f
<1>1. IsForm(Plus(f, Infinity))  BY PlusIsForm, InfinityIsForm
<1>2. ASSUME NEW x PROVE Coef(Plus(f, Infinity), x) = Coef(f, x)
  <2>1. Coef(f, x) \in 0 .. R - 1 /\ R \in Nat /\ R > 1
    BY CoefOfForm, GroupAssumption
  <2>2. Coef(Plus(f, Infinity), x) = (Coef(f, x) + 0) % R
    BY PlusIsForm, InfinityIsForm
  <2>3. Coef(f, x) % R = Coef(f, x)  BY <2>1, RemainderOfSmall
  <2>. QED  BY <2>1, <2>2, <2>3
<1>. QED  BY <1>1, <1>2, FormsEqual

(* and the sum of one element is that element.                             *)
LEMMA SumOfOne ==
  ASSUME NEW k, NEW v, IsForm(v[k])
  PROVE  SumOver({k}, v) = v[k]
<1>1. IsFiniteSet({k}) /\ {k} # {} /\ k \in {k} /\ {k} \ {k} = {}
  BY FS_Singleton
<1>2. FormsAt({k}, v)  BY DEF FormsAt
<1>3. SumOver({k}, v) = Plus(v[k], SumOver({k} \ {k}, v))
  BY Zenon, <1>1, <1>2, SumRemove
<1>. QED  BY <1>1, <1>3, SumOfNone, PlusIdentity

(* A sum of points is a point.                                             *)
LEMMA SumIsPoint ==
  ASSUME NEW S, IsFiniteSet(S), NEW v, \A j \in S : IsPoint(v[j])
  PROVE  IsPoint(SumOver(S, v))
<1> DEFINE good == {s \in SUBSET S : IsPoint(SumOver(s, v))}
<1>1. {} \in good
  <2>1. DOMAIN Infinity = {}  BY DEF Infinity
  <2>. QED  BY <2>1, SumOfNone, InfinityIsForm, FS_EmptySet DEF IsPoint
<1>2. ASSUME NEW s \in SUBSET S, s # {}, Rest(s) \in good
      PROVE  s \in good
  <2> DEFINE f == v[Pick(s)]
             g == SumOver(Rest(s), v)
  <2>1. IsFiniteSet(s) /\ IsPoint(f) /\ IsPoint(g)
    BY <1>2, FS_Subset, PickIsIn
  <2>2. SumOver(s, v) = Plus(f, g)  BY <1>2, <2>1, SumOfSome
  <2>. HIDE DEF f, g
  <2>3. IsForm(Plus(f, g))  BY <2>1, PlusIsForm DEF IsPoint
  <2>4. DOMAIN Plus(f, g) \subseteq DOMAIN f \cup DOMAIN g
    BY DEF Plus, Reduced
  <2>5. IsFiniteSet(DOMAIN f \cup DOMAIN g)
    BY <2>1, FS_Union DEF IsPoint
  <2>6. IsFiniteSet(DOMAIN Plus(f, g))  BY <2>4, <2>5, FS_Subset
  <2>. QED  BY <1>2, <2>2, <2>3, <2>6 DEF IsPoint
<1>3. S \in good
  <2> HIDE DEF good
  <2>. QED  BY <1>1, <1>2, SetInduction
<1>. QED  BY <1>3

(* The first n of the points, added up one by one.                         *)
PointsTo(pks, n) == n \in Nat /\ \A k \in 1 .. n : IsPoint(pks[k].pt)

(* The sum of the keys read so far is a point,                             *)
LEMMA KeySumIsPoint ==
  ASSUME NEW pks, NEW n, PointsTo(pks, n)
  PROVE  IsPoint(KeySum(pks, n))
<1> DEFINE v == [k \in 1 .. n |-> pks[k].pt]
<1>1. \A k \in 1 .. n : IsPoint(v[k])  BY DEF PointsTo
<1>2. IsFiniteSet(1 .. n)
  <2>1. 1 \in Int /\ n \in Int  BY DEF PointsTo
  <2>. QED  BY <2>1, FS_Interval
<1>3. KeySum(pks, n) = SumOver(1 .. n, v)  BY Zenon DEF KeySum
<1>. HIDE DEF v
<1>. QED  BY <1>1, <1>2, <1>3, SumIsPoint

(* it starts as the first key                                              *)
LEMMA KeySumFirst ==
  ASSUME NEW pks, PointsTo(pks, 1)
  PROVE  KeySum(pks, 1) = pks[1].pt
<1> DEFINE v == [k \in 1 .. 1 |-> pks[k].pt]
<1>1. v[1] = pks[1].pt /\ 1 .. 1 = {1}  OBVIOUS
<1>2. IsForm(v[1])  BY <1>1 DEF PointsTo, IsPoint
<1>3. KeySum(pks, 1) = SumOver(1 .. 1, v)  BY Zenon DEF KeySum
<1>. HIDE DEF v
<1>. QED  BY <1>1, <1>2, <1>3, SumOfOne

(* and grows by one key at a time.                                         *)
LEMMA KeySumNext ==
  ASSUME NEW pks, NEW n \in Nat, PointsTo(pks, n + 1)
  PROVE  KeySum(pks, n + 1) = Plus(KeySum(pks, n), pks[n + 1].pt)
<1> DEFINE m == n + 1
           v == [k \in 1 .. n |-> pks[k].pt]
           w == [k \in 1 .. m |-> pks[k].pt]
<1>1. m \in 1 .. m /\ (1 .. m) \ {m} = 1 .. n /\ w[m] = pks[m].pt
  OBVIOUS
<1>2. IsFiniteSet(1 .. m) /\ IsFiniteSet(1 .. n)
  <2>1. 1 \in Int /\ n \in Int /\ m \in Int  OBVIOUS
  <2>. QED  BY <2>1, FS_Interval
<1>3. FormsAt(1 .. m, w)  BY DEF PointsTo, IsPoint, FormsAt
<1>4. \A k \in 1 .. n : v[k] = w[k]  OBVIOUS
<1>5. KeySum(pks, n) = SumOver(1 .. n, v)  BY Zenon DEF KeySum
<1>6. KeySum(pks, m) = SumOver(1 .. m, w)  BY Zenon DEF KeySum
<1>7. IsForm(w[m])  BY <1>1, <1>3 DEF FormsAt
<1>8. IsForm(KeySum(pks, n))
  <2>1. PointsTo(pks, n)  BY DEF PointsTo
  <2>. QED  BY <2>1, KeySumIsPoint DEF IsPoint
<1>. HIDE DEF v, w, m
<1>9. SumOver(1 .. m, w) = Plus(w[m], SumOver((1 .. m) \ {m}, w))
  BY Zenon, <1>1, <1>2, <1>3, SumRemove
<1>10. SumOver(1 .. n, v) = SumOver(1 .. n, w)
  BY Zenon, <1>2, <1>4, SumSame
<1>11. KeySum(pks, m) = Plus(w[m], KeySum(pks, n))
  BY Zenon, <1>1, <1>5, <1>6, <1>9, <1>10
<1>12. Plus(w[m], KeySum(pks, n)) = Plus(KeySum(pks, n), w[m])
  BY Zenon, <1>7, <1>8, PlusCommutes
<1>. QED  BY Zenon, <1>1, <1>11, <1>12 DEF m

(* A multiple of a hash point is the identity only if the exponent is.     *)
LEMMA TimesIsIdentity ==
  ASSUME NEW f, IsForm(f), NEW m, NEW t
  PROVE  Times(f, m, t) = Infinity <=> f = Infinity
<1>1. DOMAIN Times(f, m, t) = {<<y, m, t>> : y \in DOMAIN f}  BY DEF Times
<1>2. DOMAIN Infinity = {}  BY DEF Infinity
<1>3. \A g : IsForm(g) /\ DOMAIN g = {} => g = Infinity
  <2> SUFFICES ASSUME NEW g, IsForm(g), DOMAIN g = {} PROVE g = Infinity
    OBVIOUS
  <2>1. \A x : Coef(g, x) = Coef(Infinity, x)
    BY InfinityIsForm DEF Coef
  <2>. QED  BY <2>1, FormsEqual, InfinityIsForm
<1>4. IsForm(Times(f, m, t))  BY TimesIsForm
<1>5. DOMAIN Times(f, m, t) = {} <=> DOMAIN f = {}  BY <1>1
<1>. QED  BY <1>2, <1>3, <1>4, <1>5

(* Only term k of the sum contains x.                                      *)
Alone(S, v, x, k) ==
  /\ IsFiniteSet(S) /\ FormsAt(S, v) /\ k \in S
  /\ \A j \in S \ {k} : Coef(v[j], x) = 0

(* A sum in which no other element touches x has that element's x.         *)
LEMMA SumAlone ==
  ASSUME NEW S, NEW v, NEW x, NEW k, Alone(S, v, x, k)
  PROVE  Coef(SumOver(S, v), x) = Coef(v[k], x)
BY SumSingle DEF Alone

(* Shares of distinct messages do not mix: what the sum carries on the     *)
(* hash point of message k is the share of key k (bls.h:114).              *)
SharesOf(share, pts, msgs, n, t) ==
  /\ n \in Nat
  /\ \A k \in 1 .. n : IsForm(pts[k]) /\ share[k] = Times(pts[k], msgs[k], t)
  /\ \A j, k \in 1 .. n : msgs[j] = msgs[k] => j = k

(* On the hash point of message s a sum of shares carries exactly key s,   *)
LEMMA SharesApart ==
  ASSUME NEW share, NEW pts, NEW msgs, NEW n, NEW t,
         SharesOf(share, pts, msgs, n, t), NEW k \in 1 .. n, NEW x
  PROVE  Coef(SumOver(1 .. n, share), <<x, msgs[k], t>>) = Coef(pts[k], x)
<1> DEFINE z == <<x, msgs[k], t>>
<1>1. IsFiniteSet(1 .. n)
  <2>1. 1 \in Int /\ n \in Int  BY DEF SharesOf
  <2>. QED  BY <2>1, FS_Interval
<1>2. ASSUME NEW j \in 1 .. n
      PROVE  /\ IsForm(share[j])
             /\ Coef(share[j], z) = IF j = k THEN Coef(pts[k], x) ELSE 0
  <2>1. IsForm(pts[j]) /\ share[j] = Times(pts[j], msgs[j], t)
    BY DEF SharesOf
  <2>2. Coef(Times(pts[j], msgs[j], t), z)
          = IF z = <<z[1], msgs[j], t>> THEN Coef(pts[j], z[1]) ELSE 0
    <3> HIDE DEF z
    <3>. QED  BY <2>1, TimesIsForm
  <2>3. z[1] = x /\ (z = <<z[1], msgs[j], t>> <=> msgs[j] = msgs[k])
    OBVIOUS
  <2>4. msgs[j] = msgs[k] <=> j = k  BY DEF SharesOf
  <2>5. IsForm(share[j])  BY <2>1, TimesIsForm
  <2>. HIDE DEF z
  <2>6. Coef(share[j], z) = Coef(Times(pts[j], msgs[j], t), z)
    BY Zenon, <2>1
  <2>7. CASE j = k
    <3>1. z = <<z[1], msgs[j], t>>  BY Zenon, <2>3, <2>4, <2>7
    <3>2. Coef(share[j], z) = Coef(pts[j], z[1])  BY <2>2, <2>6, <3>1
    <3>. QED  BY Zenon, <2>3, <2>5, <2>7, <3>2
  <2>8. CASE j # k
    <3>1. z # <<z[1], msgs[j], t>>  BY Zenon, <2>3, <2>4, <2>8
    <3>. QED  BY <2>2, <2>5, <2>6, <2>8, <3>1
  <2>. QED  BY <2>7, <2>8
<1>. HIDE DEF z
<1>3. FormsAt(1 .. n, share)  BY <1>2 DEF FormsAt
<1>4. \A j \in (1 .. n) \ {k} : Coef(share[j], z) = 0  BY <1>2
<1>5. Alone(1 .. n, share, z, k)  BY <1>1, <1>3, <1>4 DEF Alone
<1>6. Coef(SumOver(1 .. n, share), z) = Coef(share[k], z)
  BY <1>5, SumAlone
<1>. QED  BY Zenon, <1>2, <1>6 DEF z

(* In particular they never cancel.                                        *)
LEMMA SharesStay ==
  ASSUME NEW share, NEW pts, NEW msgs, NEW n, NEW t,
         SharesOf(share, pts, msgs, n, t), NEW k \in 1 .. n,
         pts[k] # Infinity
  PROVE  SumOver(1 .. n, share) # Infinity
<1>1. IsForm(pts[k])  BY DEF SharesOf
<1>2. PICK x : Coef(pts[k], x) # 0
  <2> SUFFICES ASSUME \A x : Coef(pts[k], x) = 0 PROVE FALSE
    OBVIOUS
  <2>1. \A x : Coef(pts[k], x) = Coef(Infinity, x)  BY InfinityIsForm
  <2>. QED  BY <1>1, <2>1, FormsEqual, InfinityIsForm
<1>3. Coef(SumOver(1 .. n, share), <<x, msgs[k], t>>) # 0
  BY <1>2, SharesApart
<1>. QED  BY <1>3, InfinityIsForm
-----------------------------------------------------------------------------
(* BlsNetwork: what the scheme promises its users, for any number of       *)
(* signers, claims of any length below the group order, any messages, any  *)
(* foreign points and any number of signatures in circulation.             *)

(* A name of a signer in a circulating point is a signature he made, and   *)
(* the only proof a signer makes is over his own key.                      *)
NamesAreSigned ==
  \A s \in sigs :
    IsForm(s) /\ \A z \in DOMAIN s : z[1] \in Keys => z \in signed

ProofsAreOwn ==
  \A e \in signed : e[3] = "POP" => e[2] = PublicKey(e[1])

NetworkIInv == NamesAreSigned /\ ProofsAreOwn

(* A public key contains its own signer once, and no other name.           *)
LEMMA PublicKeyIsForm ==
  ASSUME NEW k
  PROVE  /\ IsForm(PublicKey(k)) /\ DOMAIN PublicKey(k) = {k}
         /\ PublicKey(k)[k] = 1 /\ Coef(PublicKey(k), k) = 1
         /\ \A y : y # k => Coef(PublicKey(k), y) = 0
         /\ PublicKey(k) # Infinity
<1>1. R \in Nat /\ R > 1  BY GroupAssumption
<1>2. DOMAIN PublicKey(k) = {k} /\ PublicKey(k)[k] = 1  BY DEF PublicKey
<1>3. IsForm(PublicKey(k))  BY <1>1 DEF PublicKey, IsForm
<1>4. DOMAIN Infinity = {}  BY DEF Infinity
<1>. QED  BY <1>2, <1>3, <1>4 DEF Coef

(* A signature or proof names the signer, the bytes and the use, once.     *)
LEMMA SignatureNames ==
  ASSUME NEW k, NEW bytes, NEW tag
  PROVE  /\ IsForm(Times(PublicKey(k), bytes, tag))
         /\ DOMAIN Times(PublicKey(k), bytes, tag) = {<<k, bytes, tag>>}
<1>1. IsForm(Times(PublicKey(k), bytes, tag))
  BY PublicKeyIsForm, TimesIsForm
<1>2. DOMAIN Times(PublicKey(k), bytes, tag)
        = {<<y, bytes, tag>> : y \in DOMAIN PublicKey(k)}
  BY DEF Times
<1>3. {<<y, bytes, tag>> : y \in {k}} = {<<k, bytes, tag>>}  OBVIOUS
<1>. QED  BY Zenon, <1>1, <1>2, <1>3, PublicKeyIsForm

(* Nothing is signed or in circulation at the start.                       *)
LEMMA InitNetworkIInv == NetworkInit => NetworkIInv
BY DEF NetworkInit, NetworkIInv, NamesAreSigned, ProofsAreOwn

(* core_sign circulates the one name it signs (bls.c:218-237).             *)
LEMMA CoreSignNames ==
  ASSUME NamesAreSigned, NEW k \in Keys, NEW bytes, NEW tag,
         SignAndPublish(k, bytes, tag)
  PROVE  NamesAreSigned'
<1> SUFFICES ASSUME NEW s \in sigs'
    PROVE  IsForm(s) /\ \A z \in DOMAIN s : z[1] \in Keys => z \in signed'
  BY DEF NamesAreSigned
<1>1. CASE s \in sigs
  BY <1>1 DEF NamesAreSigned, SignAndPublish
<1>2. CASE s = Times(PublicKey(k), bytes, tag)
  <2>1. <<k, bytes, tag>> \in signed'  BY DEF SignAndPublish
  <2>2. IsForm(s) /\ DOMAIN s = {<<k, bytes, tag>>}
    BY Zenon, <1>2, SignatureNames
  <2>. QED  BY Zenon, <2>1, <2>2
<1>. QED  BY <1>1, <1>2 DEF SignAndPublish

(* A sum of circulating points names only what its terms name.             *)
LEMMA SumNames ==
  ASSUME NamesAreSigned, NEW len \in Nat, NEW list \in [1 .. len -> sigs],
         NEW v, v = [j \in 1 .. len |-> list[j]]
  PROVE  /\ IsForm(SumOver(1 .. len, v))
         /\ \A z \in DOMAIN SumOver(1 .. len, v) :
              z[1] \in Keys => z \in signed
<1>1. IsFiniteSet(1 .. len)  BY FS_Interval
<1>2. FormsAt(1 .. len, v)  BY DEF FormsAt, NamesAreSigned
<1>3. IsForm(SumOver(1 .. len, v))  BY <1>1, <1>2, SumIsForm
<1>4. ASSUME NEW z \in DOMAIN SumOver(1 .. len, v), z[1] \in Keys
      PROVE  z \in signed
  <2>1. Coef(SumOver(1 .. len, v), z) # 0  BY <1>3, CoefOfForm
  <2>2. PICK j \in 1 .. len : Coef(v[j], z) # 0
    BY <1>1, <1>2, <2>1, SumAbsent
  <2>3. v[j] \in sigs  OBVIOUS
  <2>4. z \in DOMAIN v[j]  BY <2>2 DEF Coef
  <2>. QED  BY <1>4, <2>3, <2>4 DEF NamesAreSigned
<1>. QED  BY <1>3, <1>4

(* So does elips_bls_aggregate (bls.c:312-328).                            *)
LEMMA AggregateNames ==
  ASSUME NamesAreSigned, Aggregate
  PROVE  NamesAreSigned'
<1>0. PICK len \in Counts :
        \E list \in [1 .. len -> sigs] :
          sigs' = sigs \cup {SigSum([j \in 1 .. len |-> Encode(list[j])])}
  BY DEF Aggregate
<1>1. PICK list \in [1 .. len -> sigs] :
        sigs' = sigs \cup {SigSum([j \in 1 .. len |-> Encode(list[j])])}
  BY <1>0
<1> DEFINE enc == [j \in 1 .. len |-> Encode(list[j])]
           v == [j \in 1 .. len |-> list[j]]
<1>2. len \in Nat  BY CountsAssumption
<1>3. SigSum(enc) = SumOver(1 .. len, v)
  <2>1. DOMAIN enc = 1 .. len  OBVIOUS
  <2>2. [j \in 1 .. len |-> enc[j].pt] = v  BY DEF Encode
  <2>. HIDE DEF enc, v
  <2>. QED  BY Zenon, <2>1, <2>2 DEF SigSum
<1>4. /\ IsForm(SumOver(1 .. len, v))
      /\ \A z \in DOMAIN SumOver(1 .. len, v) : z[1] \in Keys => z \in signed
  BY <1>2, SumNames
<1>5. sigs' = sigs \cup {SumOver(1 .. len, v)}  BY <1>1, <1>3
<1>6. signed' = signed  BY DEF Aggregate
<1>. HIDE DEF v
<1>. QED  BY <1>4, <1>5, <1>6 DEF NamesAreSigned

(* Every step keeps both parts.                                            *)
LEMMA StepNetworkIInv == NetworkIInv /\ [NetworkNext]_networkVars => NetworkIInv'
<1> SUFFICES ASSUME NetworkIInv, [NetworkNext]_networkVars PROVE NetworkIInv'
  OBVIOUS
<1>1. ASSUME NEW k \in Keys, NEW bytes \in SignedBytes,
             SignAndPublish(k, bytes, "SIG")
      PROVE  NetworkIInv'
  <2>1. NamesAreSigned'  BY <1>1, CoreSignNames DEF NetworkIInv
  <2>2. ProofsAreOwn'  BY <1>1 DEF NetworkIInv, ProofsAreOwn, SignAndPublish
  <2>. QED  BY <2>1, <2>2 DEF NetworkIInv
<1>2. ASSUME NEW k \in Keys, SignerProves(k) PROVE NetworkIInv'
  <2>1. SignAndPublish(k, PublicKey(k), "POP")  BY <1>2 DEF SignerProves
  <2>2. NamesAreSigned'  BY <2>1, CoreSignNames DEF NetworkIInv
  <2>3. ProofsAreOwn'  BY <2>1 DEF NetworkIInv, ProofsAreOwn, SignAndPublish
  <2>. QED  BY <2>2, <2>3 DEF NetworkIInv
<1>3. CASE Aggregate
  <2>1. NamesAreSigned'  BY <1>3, AggregateNames DEF NetworkIInv
  <2>2. ProofsAreOwn'  BY <1>3 DEF NetworkIInv, ProofsAreOwn, Aggregate
  <2>. QED  BY <2>1, <2>2 DEF NetworkIInv
<1>4. CASE Publish
  <2>1. NamesAreSigned'
    BY <1>4, ForeignAssumption DEF NetworkIInv, NamesAreSigned, Publish
  <2>2. ProofsAreOwn'  BY <1>4 DEF NetworkIInv, ProofsAreOwn, Publish
  <2>. QED  BY <2>1, <2>2 DEF NetworkIInv
<1>5. CASE UNCHANGED networkVars
  BY <1>5 DEF networkVars, NetworkIInv, NamesAreSigned, ProofsAreOwn
<1>. QED  BY <1>1, <1>2, <1>3, <1>4, <1>5 DEF NetworkNext, SignerSigns

(* Every name in circulation was signed for, and every proof is over the   *)
(* prover's own key, whatever is signed, aggregated and published, in any  *)
(* order (bls.c:218, bls.c:312, bls.c:403).                                *)
THEOREM BlsNetworkInductive == NetworkSpec => []NetworkIInv
<1>. QED  BY InitNetworkIInv, StepNetworkIInv, PTL DEF NetworkSpec

-----------------------------------------------------------------------------
(* What a claimed key decodes to.                                          *)
LEMMA KeyPoints ==
  ASSUME NEW pk \in AllKeys
  PROVE  pk.ok /\ IsForm(pk.pt)
<1>1. PICK f \in [Names -> 0 .. R - 1] :
        pk = Encode([x \in {y \in Names : f[y] % R # 0} |-> f[x] % R])
  BY DEF AllKeys, Reduced
<1>2. R \in Nat /\ R > 1  BY GroupAssumption
<1>3. \A x \in Names : f[x] % R \in 0 .. R - 1  BY <1>2
<1>. QED  BY <1>1, <1>2, <1>3 DEF Encode, IsForm

(* A claim is a list of fewer than R such keys.                            *)
LEMMA Claimed ==
  ASSUME NEW pks \in Claims
  PROVE  \E len \in 1 .. R - 1 :
           /\ len \in Nat /\ len > 0 /\ len < R
           /\ DOMAIN pks = 1 .. len /\ Len(pks) = len
           /\ \A i \in 1 .. len : pks[i].ok /\ IsForm(pks[i].pt)
           /\ IsFiniteSet(1 .. len) /\ Cardinality(1 .. len) = len
<1>0. R \in Nat /\ R > 1  BY GroupAssumption
<1>1. PICK len \in 1 .. R - 1 : pks \in [1 .. len -> AllKeys]
  BY ClaimsAssumption
<1>2. len \in Nat /\ len > 0 /\ len < R  BY <1>0
<1>3. DOMAIN pks = 1 .. len /\ Len(pks) = len  BY <1>1, <1>2
<1>4. \A i \in 1 .. len : pks[i].ok /\ IsForm(pks[i].pt)
  BY <1>1, KeyPoints
<1>5. IsFiniteSet(1 .. len) /\ Cardinality(1 .. len) = len
  BY <1>2, FS_Interval
<1>. QED  BY <1>2, <1>3, <1>4, <1>5

(* An honest key is some signer's, and valid.                              *)
LEMMA HonestKey ==
  ASSUME NEW pk \in HonestKeys
  PROVE  /\ SignerOf(pk) \in Keys
         /\ pk.ok /\ pk.pt = PublicKey(SignerOf(pk)) /\ KeyValidate(pk)
<1>1. SignerOf(pk) \in Keys /\ pk = Encode(PublicKey(SignerOf(pk)))
  BY DEF HonestKeys, SignerOf
<1> DEFINE k == SignerOf(pk)
<1>2. pk.ok /\ pk.pt = PublicKey(k)  BY <1>1 DEF Encode
<1>3. PublicKey(k) # Infinity  BY PublicKeyIsForm
<1>. QED  BY <1>1, <1>2, <1>3 DEF KeyValidate

(* A name with a coefficient in a circulating point has been signed for.   *)
LEMMA NamedIsSigned ==
  ASSUME NamesAreSigned, NEW s \in sigs, NEW k \in Keys, NEW bytes, NEW tag,
         Coef(s, <<k, bytes, tag>>) # 0
  PROVE  <<k, bytes, tag>> \in signed
<1>1. <<k, bytes, tag>> \in DOMAIN s  BY DEF Coef
<1>2. <<k, bytes, tag>>[1] = k  OBVIOUS
<1>. QED  BY <1>1, <1>2 DEF NamesAreSigned

(* How often a signature under a sum of keys names one of them,            *)
LEMMA TimesAtName ==
  ASSUME NEW f, IsForm(f), NEW m, NEW t, NEW y
  PROVE  Coef(Times(f, m, t), <<y, m, t>>) = Coef(f, y)
<1>1. <<y, m, t>>[1] = y  OBVIOUS
<1>. QED  BY <1>1, TimesIsForm

(* and one under a single key its signer.                                  *)
LEMMA SignatureAtName ==
  ASSUME NEW k, NEW m, NEW t
  PROVE  Coef(Times(PublicKey(k), m, t), <<k, m, t>>) = 1
<1>1. IsForm(PublicKey(k)) /\ Coef(PublicKey(k), k) = 1  BY PublicKeyIsForm
<1>2. Coef(Times(PublicKey(k), m, t), <<k, m, t>>) = Coef(PublicKey(k), k)
  BY <1>1, TimesAtName
<1>. QED  BY <1>1, <1>2

(* One signature or proof, alone: it names the signer it is accepted for.  *)
LEMMA OneSignature ==
  ASSUME NamesAreSigned, NEW k \in Keys, NEW s \in sigs, NEW m, NEW tag,
         CoreVerifyRc(Encode(PublicKey(k)), m, Encode(s), tag) = "OK"
  PROVE  <<k, m, tag>> \in signed
<1>1. s = Times(PublicKey(k), m, tag)  BY CoreVerifyMeans DEF Encode
<1>2. Coef(s, <<k, m, tag>>) = 1  BY <1>1, SignatureAtName
<1>. QED  BY <1>2, NamedIsSigned

(* For ordinary bytes and for keys, with the tag of each use.              *)
LEMMA KeptApart == NetworkIInv => ProofsAndSignaturesApart
<1> SUFFICES ASSUME NetworkIInv, NEW k \in Keys, NEW s \in sigs
    PROVE  /\ \A m \in Bytes :
                CoreVerifyRc(Encode(PublicKey(k)), m, Encode(s), "SIG") = "OK"
                  => <<k, m, "SIG">> \in signed
           /\ PopVerifyRc(Encode(PublicKey(k)), Encode(s)) = "OK"
                => <<k, PublicKey(k), "POP">> \in signed
  BY Zenon DEF ProofsAndSignaturesApart
<1>1. NamesAreSigned  BY DEF NetworkIInv
<1>2. Encode(PublicKey(k)).pt = PublicKey(k)  BY DEF Encode
<1>. QED  BY Zenon, <1>1, <1>2, OneSignature DEF PopVerifyRc

(* aggregate_verify: the messages being distinct, the term of one signer   *)
(* is met in one share only.                                               *)
LEMMA AggregateIsEarned == NetworkIInv => AggregateNamesOnlySigners
<1> SUFFICES ASSUME NetworkIInv, NEW pks \in Claims, NEW s \in sigs,
                    NEW msgs \in [DOMAIN pks -> SignedBytes],
                    AggregateVerifyRc(pks, msgs, Encode(s)) = "OK",
                    NEW j \in DOMAIN pks, pks[j] \in HonestKeys
    PROVE  <<SignerOf(pks[j]), msgs[j], "SIG">> \in signed
  BY Zenon DEF AggregateNamesOnlySigners
<1>1. PICK len \in 1 .. R - 1 :
        /\ DOMAIN pks = 1 .. len /\ IsFiniteSet(1 .. len) /\ len \in Nat
        /\ \A i \in 1 .. len : IsForm(pks[i].pt)
  BY Claimed
<1> DEFINE k == SignerOf(pks[j])
           x == <<k, msgs[j], "SIG">>
           v == [i \in DOMAIN pks |-> Times(pks[i].pt, msgs[i], "SIG")]
<1>2. k \in Keys /\ pks[j].pt = PublicKey(k)  BY HonestKey
<1>3. ~HasDuplicate(msgs) /\ s = SumOver(1 .. len, v)
  BY <1>1, AggregateVerifyMeans DEF Encode
<1>4. \A i \in 1 .. len : v[i] = Times(pks[i].pt, msgs[i], "SIG")
  BY <1>1
<1>. HIDE DEF v
<1>5. FormsAt(1 .. len, v)  BY <1>1, <1>4, TimesIsForm DEF FormsAt
<1>6. Coef(v[j], x) = 1
  <2>1. v[j] = Times(PublicKey(k), msgs[j], "SIG")  BY <1>1, <1>2, <1>4
  <2>. HIDE DEF k
  <2>. QED  BY <2>1, SignatureAtName
<1>7. ASSUME NEW i \in (1 .. len) \ {j} PROVE Coef(v[i], x) = 0
  <2>1. msgs[i] # msgs[j]
    <3>1. i \in Int /\ j \in Int /\ (i < j \/ j < i)  BY <1>1
    <3>2. DOMAIN msgs = 1 .. len  BY <1>1
    <3>. QED  BY <1>1, <1>3, <3>1, <3>2 DEF HasDuplicate
  <2>2. x # <<x[1], msgs[i], "SIG">>  BY <2>1
  <2>. QED  BY <1>1, <1>4, <2>2, TimesIsForm
<1>8. Coef(s, x) = 1
  <2>1. j \in 1 .. len  BY <1>1
  <2>. HIDE DEF x
  <2>2. Coef(SumOver(1 .. len, v), x) = Coef(v[j], x)
    BY <1>1, <1>5, <1>7, <2>1, SumSingle
  <2>. QED  BY <1>3, <1>6, <2>2
<1>. QED  BY <1>2, <1>8, NamedIsSigned DEF NetworkIInv

(* fast_aggregate_verify: a key with a proof holds a signer's term only if *)
(* it is his own key, so the terms in the sum count it and do not cancel.  *)
LEMMA FastAggregateIsEarned == NetworkIInv => FastAggregateNamesOnlySigners
<1> SUFFICES ASSUME NetworkIInv, NEW pks \in Claims, NEW s \in sigs,
                    NEW m \in SignedBytes,
                    NEW pops \in [DOMAIN pks -> {Encode(p) : p \in sigs}],
                    FastAggregateVerifyRc(pks, pops, m, Encode(s)) = "OK",
                    NEW j \in DOMAIN pks, pks[j] \in HonestKeys
    PROVE  <<SignerOf(pks[j]), m, "SIG">> \in signed
  BY Zenon DEF FastAggregateNamesOnlySigners
<1>1. PICK len \in 1 .. R - 1 :
        /\ DOMAIN pks = 1 .. len /\ Len(pks) = len /\ len \in Nat /\ len < R
        /\ IsFiniteSet(1 .. len) /\ Cardinality(1 .. len) = len
        /\ \A i \in 1 .. len : IsForm(pks[i].pt)
  BY Claimed
<1> DEFINE k == SignerOf(pks[j])
           v == [i \in 1 .. len |-> pks[i].pt]
           sum == KeySum(pks, len)
<1>2. k \in Keys /\ pks[j].pt = PublicKey(k)  BY HonestKey
<1>3. /\ \A i \in 1 .. len : PopVerifyRc(pks[i], pops[i]) = "OK"
      /\ s = Times(sum, m, "SIG")
  BY <1>1, FastAggregateVerifyMeans DEF Encode
<1>4. sum = SumOver(1 .. len, v)  BY DEF KeySum
<1>5. \A i \in 1 .. len : v[i] = pks[i].pt  OBVIOUS
<1>. HIDE DEF v, sum
<1>6. FormsAt(1 .. len, v)  BY <1>1, <1>5 DEF FormsAt
<1>7. Coef(v[j], k) = 1  BY <1>1, <1>2, <1>5, PublicKeyIsForm
<1>8. ASSUME NEW i \in 1 .. len PROVE Coef(v[i], k) \in {0, 1}
  <2> SUFFICES ASSUME Coef(v[i], k) # 0 PROVE Coef(v[i], k) = 1
    OBVIOUS
  <2>1. pops[i].pt = Times(pks[i].pt, pks[i].pt, "POP")
    BY <1>3, CoreVerifyMeans DEF PopVerifyRc
  <2>2. pops[i].pt \in sigs  BY <1>1 DEF Encode
  <2>3. Coef(pops[i].pt, <<k, pks[i].pt, "POP">>) # 0
    BY <1>1, <1>5, <2>1, TimesAtName
  <2>4. <<k, pks[i].pt, "POP">> \in signed
    BY <1>2, <2>2, <2>3, NamedIsSigned DEF NetworkIInv
  <2>5. pks[i].pt = PublicKey(k)  BY <2>4 DEF NetworkIInv, ProofsAreOwn
  <2>. QED  BY <1>5, <2>5, PublicKeyIsForm
<1>9. IsForm(sum) /\ Coef(sum, k) # 0
  BY <1>1, <1>4, <1>6, <1>7, <1>8, SumIsForm, SumCounts
<1>10. Coef(s, <<k, m, "SIG">>) # 0  BY <1>3, <1>9, TimesAtName
<1>. QED  BY <1>2, <1>10, NamedIsSigned DEF NetworkIInv

(* Distinct messages: elips_bls_aggregate adds up the very shares that     *)
(* elips_bls_aggregate_verify compares with.                               *)
LEMMA HonestDistinct ==
  ASSUME NEW pks \in HonestClaims, NEW msgs \in [DOMAIN pks -> SignedBytes],
         ~HasDuplicate(msgs), Len(pks) <= MaxN
  PROVE  AggregateVerifyRc(pks, msgs, SumMade(pks, msgs)) = "OK"
<1>1. PICK len \in 1 .. R - 1 :
        DOMAIN pks = 1 .. len /\ Len(pks) = len /\ len \in Nat /\ len > 0
  BY Claimed DEF HonestClaims
<1> DEFINE v == [i \in DOMAIN pks |-> Times(pks[i].pt, msgs[i], "SIG")]
<1>2. SumMade(pks, msgs) = Encode(SumOver(DOMAIN pks, v))
  <2> DEFINE e == [j \in DOMAIN pks |->
                     Encode(Times(pks[j].pt, msgs[j], "SIG"))]
  <2>1. DOMAIN e = DOMAIN pks  OBVIOUS
  <2>2. [i \in DOMAIN pks |-> e[i].pt] = v  BY DEF Encode
  <2>3. SumMade(pks, msgs) = Encode(SigSum(e))  BY DEF SumMade
  <2>. HIDE DEF e, v
  <2>. QED  BY Zenon, <2>1, <2>2, <2>3 DEF SigSum
<1>3. \A i \in DOMAIN pks : KeyValidate(pks[i])
  BY HonestKey DEF HonestClaims
<1>4. ~(Len(pks) = 0 \/ TooMany(Len(pks)))
  BY <1>1, MaxNAssumption DEF TooMany
<1>5. SumMade(pks, msgs).ok /\ SumMade(pks, msgs).pt = SumOver(DOMAIN pks, v)
  BY <1>2 DEF Encode
<1>. QED  BY <1>3, <1>4, <1>5, AggregateVerifyMeans

(* One message: the sum of the signatures is the signature under the sum   *)
(* of the keys, which is not the identity, there being fewer than R keys.  *)
LEMMA HonestShared ==
  ASSUME NEW pks \in HonestClaims, NEW m \in SignedBytes, NEW pops,
         \A j \in DOMAIN pks :
           pops[j] = Encode(Times(pks[j].pt, pks[j].pt, "POP")),
         NEW same, same = [j \in DOMAIN pks |-> m]
  PROVE  FastAggregateVerifyRc(pks, pops, m, SumMade(pks, same)) = "OK"
<1>1. PICK len \in 1 .. R - 1 :
        /\ DOMAIN pks = 1 .. len /\ Len(pks) = len
        /\ len \in Nat /\ len > 0 /\ len < R
        /\ IsFiniteSet(1 .. len) /\ Cardinality(1 .. len) = len
        /\ \A i \in 1 .. len : IsForm(pks[i].pt)
  BY Claimed DEF HonestClaims
<1> DEFINE v == [i \in 1 .. len |-> pks[i].pt]
           w == [i \in 1 .. len |-> Times(pks[i].pt, m, "SIG")]
           sum == KeySum(pks, len)
<1>2. \A i \in 1 .. len : v[i] = pks[i].pt /\ w[i] = Times(v[i], m, "SIG")
  OBVIOUS
<1>3. sum = SumOver(1 .. len, v)  BY DEF KeySum
<1>4. SumMade(pks, same) = Encode(SumOver(1 .. len, w))
  <2> DEFINE e == [j \in DOMAIN pks |->
                     Encode(Times(pks[j].pt, same[j], "SIG"))]
  <2>1. DOMAIN e = 1 .. len  BY <1>1
  <2>2. [i \in 1 .. len |-> e[i].pt] = w  BY <1>1 DEF Encode
  <2>3. SumMade(pks, same) = Encode(SigSum(e))  BY DEF SumMade
  <2>. HIDE DEF e, w
  <2>. QED  BY Zenon, <2>1, <2>2, <2>3 DEF SigSum
<1>. HIDE DEF v, w, sum
<1>5. FormsAt(1 .. len, v)  BY <1>1, <1>2 DEF FormsAt
<1>6. Times(sum, m, "SIG") = SumOver(1 .. len, w)
  BY <1>1, <1>2, <1>3, <1>5, TimesOfSum
<1>7. \A i \in 1 .. len : PopVerifyRc(pks[i], pops[i]) = "OK"
  <2> SUFFICES ASSUME NEW i \in 1 .. len
      PROVE  PopVerifyRc(pks[i], pops[i]) = "OK"
    OBVIOUS
  <2>1. KeyValidate(pks[i])  BY <1>1, HonestKey DEF HonestClaims
  <2>2. pops[i].ok /\ pops[i].pt = Times(pks[i].pt, pks[i].pt, "POP")
    <3>1. pops[i] = Encode(Times(pks[i].pt, pks[i].pt, "POP"))  BY <1>1
    <3>. QED  BY <3>1 DEF Encode
  <2>. QED  BY <2>1, <2>2, CoreVerifyMeans DEF PopVerifyRc
<1>8. sum # Infinity
  <2> DEFINE k == SignerOf(pks[1])
  <2>1. \A i \in 1 .. len : v[i] = PublicKey(SignerOf(pks[i]))
    BY <1>1, <1>2, HonestKey DEF HonestClaims
  <2>2. \A y : Coef(PublicKey(y), k) \in {0, 1} /\ Coef(PublicKey(k), k) = 1
    <3>. HIDE DEF k
    <3>1. Coef(PublicKey(k), k) = 1  BY PublicKeyIsForm
    <3>2. ASSUME NEW y, y # k PROVE Coef(PublicKey(y), k) = 0
      BY <3>2, PublicKeyIsForm
    <3>. QED  BY <3>1, <3>2
  <2>3. 1 \in 1 .. len /\ Coef(v[1], k) = 1  BY <1>1, <2>1, <2>2
  <2>. HIDE DEF k
  <2>4. \A i \in 1 .. len : Coef(v[i], k) \in {0, 1}  BY <2>1, <2>2
  <2>5. Coef(sum, k) # 0
    BY <1>1, <1>3, <1>5, <2>3, <2>4, SumCounts
  <2>. QED  BY <2>5, InfinityIsForm
<1>9. SumMade(pks, same).ok /\ SumMade(pks, same).pt = Times(sum, m, "SIG")
  BY <1>4, <1>6 DEF Encode
<1>. QED  BY <1>1, <1>7, <1>8, <1>9, FastAggregateVerifyMeans DEF sum

-----------------------------------------------------------------------------
(* A signature that elips_bls_verify accepts was made by elips_bls_sign    *)
(* with that key over those bytes, and a proof that elips_bls_pop_verify   *)
(* accepts by elips_bls_pop_prove: neither is ever the other, even for a   *)
(* message that is the encoding of a key (bls.c:266-276, bls.c:403-420).   *)
THEOREM BlsNetworkKeepsApart == NetworkSpec => []ProofsAndSignaturesApart
<1>. QED  BY BlsNetworkInductive, KeptApart, PTL

(* An aggregate that either aggregate verification accepts was signed, for *)
(* each honest key named in it, by that key's owner over that message,     *)
(* whatever other keys it is claimed with and whatever was added up to     *)
(* make it (bls.c:330-364, bls.c:366-399).                                 *)
THEOREM BlsNetworkNamesOnlySigners == NetworkSpec => []ClaimsNameOnlySigners
<1>1. NetworkIInv => ClaimsNameOnlySigners
  BY AggregateIsEarned, FastAggregateIsEarned DEF ClaimsNameOnlySigners
<1>. QED  BY <1>1, BlsNetworkInductive, PTL

(* Fewer than R honest signers always verify: with distinct messages, up   *)
(* to the bound MAXN on their number, and with one message and the proofs  *)
(* that elips_bls_pop_prove makes (bls.c:312-399).                         *)
THEOREM BlsNetworkAcceptsHonest == NetworkSpec => []HonestAggregatesVerify
<1>1. HonestAggregatesVerify
  BY HonestDistinct, HonestShared DEF HonestAggregatesVerify
<1>. QED  BY <1>1, PTL
=============================================================================
