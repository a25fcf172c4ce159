---------------------------- MODULE SyncDepsProofs ----------------------------
(***************************************************************************)
(* Proofs about xk6 sync, for any set of modules and versions, any go.mod  *)
(* of k6 and any number of commands, edits, kills and failing calls.       *)
(***************************************************************************)
EXTENDS SyncDeps, WellFoundedInduction, TLAPS

LEMMA Bounds ==
    /\ MaxVersion \in Nat /\ MaxVersion >= 1
    /\ MaxRuns \in Nat /\ MaxEdits \in Nat /\ MaxFaults \in Nat
    /\ K6 \in Modules
    /\ K6Mods \in [Versions -> Requirements]
    /\ \A v \in Versions : K6Mods[v][K6] = 0
    /\ Needs \in [Modules -> [Versions -> Requirements]]
BY BoundsAssumption, ModulesAssumption, K6ModsAssumption, NeedsAssumption

USE Bounds DEF Versions, Requirements

\* The numbers all of this is about.
LEMMA Numbers ==
    /\ \A m \in Requirements, d \in Modules : m[d] \in 0..MaxVersion /\ m[d] \in Nat
    /\ \A x, d \in Modules, v \in Versions :
         Needs[x][v][d] \in 0..MaxVersion /\ Needs[x][v][d] \in Nat
    /\ \A v \in Versions, d \in Modules : K6Mods[v][d] \in 0..MaxVersion /\ K6Mods[v][d] \in Nat
    /\ \A n \in 0..MaxVersion : n > 0 => n \in Versions
<1>1. \A m \in Requirements, d \in Modules : m[d] \in 0..MaxVersion
  OBVIOUS
<1>2. \A x \in Modules, v \in Versions :
        Needs[x][v] \in Requirements /\ K6Mods[v] \in Requirements
  OBVIOUS
<1>3. \A n \in 0..MaxVersion : n \in Nat
  OBVIOUS
<1>4. \A n \in 0..MaxVersion : n > 0 => n \in Versions
  OBVIOUS
<1>5. QED
  BY ONLY <1>1, <1>2, <1>3, <1>4, Bounds

------------------------------------------------------------------------------
(* What go get makes of go.mod.                                              *)

\* Of numbers up to a bound there is a greatest one.
LEMMA Newest ==
    ASSUME NEW n \in Nat, NEW S \in SUBSET (0..n), S # {}
    PROVE  Max(S) \in S /\ \A w \in S : w <= Max(S)
<1> DEFINE T == {n - v : v \in S}
<1>1. T \subseteq Nat /\ T # {}
  <2>1. \A v \in S : v \in Int /\ v <= n
    OBVIOUS
  <2>2. \A v \in S : n - v \in Nat
    BY <2>1
  <2>3. QED
    BY <2>2
<1>2. PICK x \in T : \A y \in T : ~(<<y, x>> \in OpToRel(<, Nat))
  BY <1>1, NatLessThanWellFounded, WFMin
<1>3. \A y \in T : ~(y < x)
  BY <1>1, <1>2 DEF OpToRel
<1>4. PICK v \in S : x = n - v
  OBVIOUS
<1>5. ASSUME NEW w \in S
      PROVE  v >= w
  <2>1. n - w \in T /\ ~(n - w < n - v)
    BY <1>3, <1>4
  <2>2. v \in Int /\ w \in Int
    OBVIOUS
  <2>3. QED
    BY ONLY <2>1, <2>2, n \in Nat
<1>6. Max(S) \in S /\ \A w \in S : Max(S) >= w
  BY <1>5 DEF Max
<1>7. ASSUME NEW w \in S
      PROVE  w <= Max(S)
  <2>1. \A i \in 0..n : i \in Int
    OBVIOUS
  <2>2. Max(S) \in 0..n /\ w \in 0..n /\ Max(S) >= w
    BY <1>6
  <2>3. QED
    BY ONLY <2>1, <2>2
<1>8. QED
  BY <1>6, <1>7

Named(cs, d) == \E c \in cs : c.module = d
To(cs, d) == (CHOOSE c \in cs : c.module = d).to

\* Version v of d may stay beside what is asked for.
Fits(cs, d, v) == \A c \in cs : Needs[d][v][c.module] <= c.to

LEMMA RootsAre ==
    ASSUME NEW m \in Requirements, NEW cs \in SUBSET Change
    PROVE  /\ Roots(m, cs) \in Requirements
           /\ \A d \in Modules : Named(cs, d) => Roots(m, cs)[d] = To(cs, d)
           /\ \A d \in Modules : ~Named(cs, d) =>
                /\ Roots(m, cs)[d] <= m[d]
                /\ Roots(m, cs)[d] > 0 => Fits(cs, d, Roots(m, cs)[d])
                /\ m[d] > 0 /\ Fits(cs, d, m[d]) => Roots(m, cs)[d] = m[d]
<1> DEFINE r == Roots(m, cs)
           F(d) == {0} \cup {v \in 1..m[d] : Fits(cs, d, v)}
<1>1. r = [d \in Modules |-> IF Named(cs, d) THEN To(cs, d) ELSE Max(F(d))]
  BY DEF Roots, Named, To, Fits
<1> HIDE DEF r
<1>2. ASSUME NEW d \in Modules
      PROVE  Max(F(d)) \in F(d) /\ \A w \in F(d) : w <= Max(F(d))
  <2>1. m[d] \in Nat
    BY Numbers
  <2>2. F(d) \in SUBSET (0..m[d]) /\ F(d) # {}
    BY <2>1
  <2> HIDE DEF F
  <2>3. QED
    BY ONLY <2>1, <2>2, Newest
<1>3. ASSUME NEW d \in Modules, Named(cs, d)
      PROVE  r[d] = To(cs, d) /\ r[d] \in 0..MaxVersion
  <2>1. (CHOOSE c \in cs : c.module = d) \in cs
    BY <1>3 DEF Named
  <2>2. To(cs, d) \in 1..MaxVersion
    BY <2>1 DEF To, Change
  <2>3. QED
    BY <1>1, <1>3, <2>2
<1>4. ASSUME NEW d \in Modules, ~Named(cs, d)
      PROVE  /\ r[d] \in 0..MaxVersion
             /\ r[d] <= m[d]
             /\ r[d] > 0 => Fits(cs, d, r[d])
             /\ m[d] > 0 /\ Fits(cs, d, m[d]) => r[d] = m[d]
  <2>1. r[d] = Max(F(d)) /\ m[d] \in 0..MaxVersion /\ m[d] \in Nat
    BY <1>1, <1>4, Numbers
  <2>2. r[d] \in F(d) /\ \A w \in F(d) : w <= r[d]
    BY <1>2, <2>1
  <2>3. r[d] \in 0..m[d]
    BY <2>1, <2>2
  <2>4. r[d] > 0 => Fits(cs, d, r[d])
    BY <2>2
  <2>5. m[d] > 0 /\ Fits(cs, d, m[d]) => m[d] \in F(d)
    BY <2>1
  <2> HIDE DEF F
  <2>6. r[d] \in Nat /\ r[d] <= m[d] /\ r[d] \in 0..MaxVersion
    BY ONLY <2>1, <2>3, Bounds
  <2>7. m[d] > 0 /\ Fits(cs, d, m[d]) => m[d] <= r[d]
    BY ONLY <2>2, <2>5
  <2>8. m[d] > 0 /\ Fits(cs, d, m[d]) => r[d] = m[d]
    BY ONLY <2>1, <2>6, <2>7
  <2>9. QED
    BY <2>4, <2>6, <2>8
<1>5. r \in Requirements
  BY <1>1, <1>3, <1>4
<1>6. QED
  BY <1>3, <1>4, <1>5 DEF r

LEMMA SelectedIs ==
    ASSUME NEW r \in Requirements, NEW d \in Modules
    PROVE  /\ Selected(r, d) \in 0..MaxVersion
           /\ r[d] <= Selected(r, d)
           /\ \A e \in Modules : r[e] > 0 => Needs[e][r[e]][d] <= Selected(r, d)
           /\ \/ Selected(r, d) = r[d]
              \/ \E e \in Modules : r[e] > 0 /\ Selected(r, d) = Needs[e][r[e]][d]
<1> DEFINE W == {r[d]} \cup {Needs[e][r[e]][d] : e \in {e \in Modules : r[e] > 0}}
<1>1. \A e \in Modules : r[e] > 0 => r[e] \in Versions
  BY Numbers
<1>2. W \in SUBSET (0..MaxVersion) /\ W # {}
  <2>1. \A e \in Modules : r[e] > 0 => Needs[e][r[e]][d] \in 0..MaxVersion
    BY <1>1, Numbers
  <2>2. r[d] \in 0..MaxVersion
    BY Numbers
  <2>3. QED
    BY ONLY <2>1, <2>2
<1>3. Selected(r, d) = Max(W)
  BY DEF Selected
<1>4. \A e \in Modules : r[e] > 0 => Needs[e][r[e]][d] \in W
  OBVIOUS
<1>5. r[d] \in W
  OBVIOUS
<1>6. \A w \in W : w = r[d] \/ \E e \in Modules : r[e] > 0 /\ w = Needs[e][r[e]][d]
  OBVIOUS
<1> HIDE DEF W
<1>7. Max(W) \in W /\ \A w \in W : w <= Max(W)
  BY ONLY <1>2, Newest, Bounds
<1>8. QED
  BY ONLY <1>2, <1>3, <1>4, <1>5, <1>6, <1>7

\* A line of the new go.mod is the version selected, if it is there.
LEMMA GoGetIs ==
    ASSUME NEW m \in Requirements, NEW cs \in SUBSET Change, NEW g \in AfterGoGet(m, cs)
    PROVE  /\ g \in Requirements
           /\ \A d \in Modules :
                /\ Roots(m, cs)[d] > 0 => g[d] = Selected(Roots(m, cs), d)
                /\ g[d] > 0 => g[d] = Selected(Roots(m, cs), d)
<1> DEFINE r == Roots(m, cs)
<1>1. PICK used \in SUBSET {d \in Modules : r[d] = 0} :
        g = [d \in Modules |-> IF r[d] > 0 \/ d \in used THEN Selected(r, d) ELSE 0]
  BY DEF AfterGoGet
<1>2. r \in Requirements
  BY RootsAre
<1> HIDE DEF r
<1>3. \A d \in Modules : Selected(r, d) \in 0..MaxVersion
  BY <1>2, SelectedIs
<1>4. g \in Requirements
  BY <1>1, <1>3
<1>5. \A d \in Modules : (r[d] > 0 => g[d] = Selected(r, d)) /\ (g[d] > 0 => g[d] = Selected(r, d))
  <2>1. ~(0 > 0)
    OBVIOUS
  <2>2. QED
    BY <1>1, <2>1
<1>6. QED
  BY <1>4, <1>5 DEF r

\* go get leaves a go.mod that the go command accepts.
LEMMA GoGetIsConsistent ==
    ASSUME NEW m \in Requirements, NEW cs \in SUBSET Change, NEW g \in AfterGoGet(m, cs)
    PROVE  Consistent(g)
<1> DEFINE r == Roots(m, cs)
<1>1. r \in Requirements /\ g \in Requirements
  BY RootsAre, GoGetIs
<1>2. SUFFICES ASSUME NEW x \in Modules, NEW d \in Modules, g[x] > 0, g[d] > 0
               PROVE  g[d] >= Needs[x][g[x]][d]
  BY DEF Consistent
<1>3. g[x] = Selected(r, x) /\ g[d] = Selected(r, d)
  BY <1>2, GoGetIs
<1>4. /\ \A e \in Modules : r[e] > 0 => Needs[e][r[e]][d] <= g[d]
      /\ \/ g[x] = r[x]
         \/ \E e \in Modules : r[e] > 0 /\ g[x] = Needs[e][r[e]][x]
  <2>1. r \in Requirements
    BY <1>1
  <2> HIDE DEF r
  <2>2. \A e \in Modules : r[e] > 0 => Needs[e][r[e]][d] <= Selected(r, d)
    BY ONLY <2>1, SelectedIs
  <2>3. \/ Selected(r, x) = r[x]
        \/ \E e \in Modules : r[e] > 0 /\ Selected(r, x) = Needs[e][r[e]][x]
    BY ONLY <2>1, SelectedIs
  <2>4. QED
    BY ONLY <1>3, <2>2, <2>3
<1> HIDE DEF r
<1>5. \A e \in Modules : r[e] > 0 => r[e] \in Versions
  BY <1>1, Numbers
<1>6. g[x] \in Versions /\ g[d] \in Nat
  BY <1>1, <1>2, Numbers
<1>7. Needs[x][g[x]][d] <= g[d]
  <2>1. CASE g[x] = r[x]
    BY <1>2, <1>4, <2>1
  <2>2. CASE \E e \in Modules : r[e] > 0 /\ g[x] = Needs[e][r[e]][x]
    <3>1. PICK e \in Modules : r[e] > 0 /\ g[x] = Needs[e][r[e]][x]
      BY <2>2
    <3>2. r[e] \in Versions /\ Needs[e][r[e]][x] > 0
      BY <1>2, <1>5, <3>1
    <3>3. Needs[x][Needs[e][r[e]][x]][d] <= Needs[e][r[e]][d]
      BY <3>2, NeedsAssumption
    <3>4. Needs[x][g[x]][d] <= Needs[e][r[e]][d] /\ Needs[e][r[e]][d] <= g[d]
      BY <1>4, <3>1, <3>3
    <3>5. Needs[x][g[x]][d] \in Nat /\ Needs[e][r[e]][d] \in Nat
      BY <1>6, <3>2, Numbers
    <3>6. QED
      BY ONLY <1>6, <3>4, <3>5
  <2>3. QED
    BY <1>4, <2>1, <2>2
<1>8. Needs[x][g[x]][d] \in Nat
  BY <1>6, Numbers
<1>9. QED
  BY ONLY <1>6, <1>7, <1>8

\* What is asked for is what both require and k6 in another version.
LEMMA ChangesAre ==
    ASSUME NEW e \in Requirements, NEW k \in Versions,
           NEW cs, cs = DiffRequires(e, K6Mods[k])
    PROVE  /\ cs \subseteq Change
           /\ \A d \in Modules : Named(cs, d) <=>
                e[d] > 0 /\ K6Mods[k][d] > 0 /\ e[d] # K6Mods[k][d]
           /\ \A c \in cs : /\ c.module \in Modules /\ c.from = e[c.module]
                          /\ c.to = K6Mods[k][c.module] /\ c.from # c.to /\ c.to > 0 /\ c.from > 0
           /\ \A d \in Modules : Named(cs, d) => To(cs, d) = K6Mods[k][d]
<1> DEFINE D == {d \in Modules : e[d] > 0 /\ K6Mods[k][d] > 0 /\ e[d] # K6Mods[k][d]}
<1>1. cs = {[module |-> d, from |-> e[d], to |-> K6Mods[k][d]] : d \in D}
  BY DEF DiffRequires
<1>2. \A c \in cs : /\ c.module \in D
                    /\ c = [module |-> c.module, from |-> e[c.module], to |-> K6Mods[k][c.module]]
  BY <1>1
<1>3. \A d \in D : e[d] \in 1..MaxVersion /\ K6Mods[k][d] \in 1..MaxVersion
  <2>1. \A d \in D : /\ e[d] \in 0..MaxVersion /\ K6Mods[k][d] \in 0..MaxVersion
                     /\ e[d] > 0 /\ K6Mods[k][d] > 0
    BY Numbers
  <2>2. QED
    BY ONLY <2>1, Numbers DEF Versions
<1>4. cs \subseteq Change
  BY <1>1, <1>3 DEF Change
<1>5. \A d \in Modules : Named(cs, d) <=> d \in D
  <2>1. \A d \in D : \E c \in cs : c.module = d
    <3>1. \A d \in D : [module |-> d, from |-> e[d], to |-> K6Mods[k][d]] \in cs
      BY <1>1
    <3>2. QED
      BY <3>1
  <2>2. QED
    BY <1>2, <2>1 DEF Named
<1>6. ASSUME NEW d \in Modules, Named(cs, d)
      PROVE  To(cs, d) = K6Mods[k][d]
  <2>1. \E c \in cs : c.module = d
    BY <1>6 DEF Named
  <2>2. PICK c \in cs : c = (CHOOSE x \in cs : x.module = d) /\ c.module = d
    BY <2>1
  <2>3. QED
    BY <1>2, <2>2 DEF To
<1>7. \A c \in cs : /\ c.module \in Modules /\ c.from = e[c.module]
                    /\ c.to = K6Mods[k][c.module] /\ c.from # c.to /\ c.to > 0 /\ c.from > 0
  BY <1>2
<1>8. QED
  BY <1>4, <1>5, <1>6, <1>7

\* k6's own versions stand beside each other, and beside k6.
LEMMA OneK6 ==
    ASSUME NEW k \in Versions, NEW a \in Modules, K6Mods[k][a] > 0, NEW d \in Modules
    PROVE  /\ Needs[a][K6Mods[k][a]][d] <= Needs[K6][k][d]
           /\ K6Mods[k][d] > 0 => Needs[a][K6Mods[k][a]][d] <= K6Mods[k][d]
<1>1. Needs[K6][k][a] = K6Mods[k][a] /\ (K6Mods[k][d] > 0 => Needs[K6][k][d] = K6Mods[k][d])
  BY ONLY NeedsAssumption, K6Mods[k][a] > 0
<1>2. Needs[K6][k][a] > 0
  BY <1>1
<1>3. Needs[a][Needs[K6][k][a]][d] <= Needs[K6][k][d]
  BY ONLY <1>2, NeedsAssumption, Bounds
<1>4. QED
  BY ONLY <1>1, <1>3

\* What go get makes of a go.mod follows k6.
LEMMA GoGetFollows ==
    ASSUME NEW b \in Requirements, NEW k \in Versions,
           NEW cs, cs = DiffRequires(b, K6Mods[k]), NEW g \in AfterGoGet(b, cs)
    PROVE  Follows(g, b, k)
<1> DEFINE r == Roots(b, cs)
<1>0. /\ cs \subseteq Change
      /\ \A d \in Modules : Named(cs, d) <=>
           b[d] > 0 /\ K6Mods[k][d] > 0 /\ b[d] # K6Mods[k][d]
      /\ \A c \in cs : /\ c.module \in Modules /\ c.from = b[c.module]
                     /\ c.to = K6Mods[k][c.module] /\ c.from # c.to /\ c.to > 0 /\ c.from > 0
      /\ \A d \in Modules : Named(cs, d) => To(cs, d) = K6Mods[k][d]
  BY ONLY ChangesAre, b \in Requirements, k \in Versions, cs = DiffRequires(b, K6Mods[k])
<1>1. cs \in SUBSET Change
  BY <1>0
<1>2. SUFFICES ASSUME NEW d \in Modules, b[d] > 0, K6Mods[k][d] > 0
               PROVE  IF b[d] = K6Mods[k][d] THEN g[d] >= b[d] ELSE g[d] = K6Mods[k][d]
  BY DEF Follows
<1>3. r \in Requirements
  BY <1>1, RootsAre
<1>4. \A c \in cs : c.module \in Modules /\ c.to = K6Mods[k][c.module] /\ c.to > 0
  BY <1>0
<1>5. /\ b[d] \in Versions /\ b[d] \in Nat /\ K6Mods[k][d] \in Versions /\ K6Mods[k][d] \in Nat
      /\ g[d] \in Nat
  BY <1>1, <1>2, Numbers, GoGetIs
<1>6. CASE b[d] = K6Mods[k][d]
  <2>1. ~Named(cs, d)
    BY <1>6, <1>0
  <2>2. Fits(cs, d, b[d])
    <3>1. SUFFICES ASSUME NEW c \in cs
                   PROVE  Needs[d][K6Mods[k][d]][c.module] <= c.to
      BY <1>6 DEF Fits
    <3>2. c.module \in Modules /\ c.to = K6Mods[k][c.module] /\ K6Mods[k][c.module] > 0
      BY <1>4
    <3>3. QED
      BY ONLY <1>2, <3>2, OneK6, k \in Versions
  <2>3. r[d] = b[d]
    BY <1>1, <1>2, <2>1, <2>2, RootsAre
  <2>4. g[d] = Selected(r, d)
    BY <1>1, <1>2, <2>3, GoGetIs
  <2> HIDE DEF r
  <2>5. r[d] <= Selected(r, d)
    BY ONLY <1>3, SelectedIs
  <2>6. g[d] >= b[d]
    BY ONLY <1>5, <2>3, <2>4, <2>5
  <2>7. QED
    BY <1>6, <2>6
<1>7. CASE b[d] # K6Mods[k][d]
  <2>1. Named(cs, d) /\ To(cs, d) = K6Mods[k][d]
    BY <1>2, <1>7, <1>0
  <2>2. r[d] = K6Mods[k][d]
    BY <1>1, <2>1, RootsAre
  <2>3. g[d] = Selected(r, d)
    BY <1>1, <1>2, <2>2, GoGetIs
  <2>4. PICK c \in cs : c.module = d /\ c.to = K6Mods[k][d]
    BY <1>4, <2>1 DEF Named
  <2>5. ASSUME NEW e \in Modules, r[e] > 0
        PROVE  Needs[e][r[e]][d] <= K6Mods[k][d]
    <3>1. CASE Named(cs, e)
      <4>1. r[e] = K6Mods[k][e]
        BY <1>1, <3>1, RootsAre, <1>0
      <4>2. K6Mods[k][e] > 0
        BY <2>5, <4>1
      <4>3. QED
        BY ONLY <1>2, <4>1, <4>2, OneK6, k \in Versions, e \in Modules
    <3>2. CASE ~Named(cs, e)
      <4>1. Fits(cs, e, r[e])
        BY <1>1, <2>5, <3>2, RootsAre
      <4>2. QED
        BY <2>4, <4>1 DEF Fits
    <3>3. QED
      BY <3>1, <3>2
  <2> HIDE DEF r
  <2>6. /\ r[d] <= Selected(r, d)
        /\ \/ Selected(r, d) = r[d]
           \/ \E e \in Modules : r[e] > 0 /\ Selected(r, d) = Needs[e][r[e]][d]
    BY ONLY <1>3, SelectedIs
  <2>7. g[d] >= K6Mods[k][d] /\ g[d] <= K6Mods[k][d]
    <3>1. K6Mods[k][d] <= g[d]
      BY ONLY <2>2, <2>3, <2>6
    <3>2. CASE g[d] = r[d]
      BY ONLY <1>5, <2>2, <3>2
    <3>3. CASE \E e \in Modules : r[e] > 0 /\ g[d] = Needs[e][r[e]][d]
      BY ONLY <1>5, <2>5, <3>1, <3>3
    <3>4. QED
      BY ONLY <1>5, <2>3, <2>6, <3>1, <3>2, <3>3
  <2>8. g[d] = K6Mods[k][d]
    BY ONLY <1>5, <2>7
  <2>9. QED
    BY <1>7, <2>8
<1>8. QED
  BY <1>6, <1>7

\* Asked for what is there already, go get changes no line.
LEMMA GoGetAgain ==
    ASSUME NEW m \in Requirements, Consistent(m), NEW cs \in SUBSET Change,
           \A c \in cs : m[c.module] = c.to, NEW g \in AfterGoGet(m, cs),
           NEW d \in Modules, m[d] > 0
    PROVE  g[d] = m[d]
<1> DEFINE r == Roots(m, cs)
<1>1. \A c \in cs : c.module \in Modules /\ c.to \in Versions
  BY DEF Change
<1>2. ASSUME NEW e \in Modules
      PROVE  r[e] = m[e]
  <2>1. CASE Named(cs, e)
    <3>1. (CHOOSE c \in cs : c.module = e) \in cs /\ (CHOOSE c \in cs : c.module = e).module = e
      BY <2>1 DEF Named
    <3>2. To(cs, e) = m[e]
      BY <3>1 DEF To
    <3>3. QED
      BY <2>1, <3>2, RootsAre
  <2>2. CASE ~Named(cs, e) /\ m[e] > 0
    <3>1. SUFFICES ASSUME NEW c \in cs
                   PROVE  Needs[e][m[e]][c.module] <= c.to
      BY <2>2, RootsAre DEF Fits
    <3>2. c.module \in Modules /\ c.to > 0 /\ m[c.module] = c.to
      <4>1. \A n \in Versions : n > 0
        OBVIOUS
      <4>2. c.module \in Modules /\ c.to \in Versions
        BY ONLY <1>1
      <4>3. QED
        BY ONLY <4>1, <4>2, \A x \in cs : m[x.module] = x.to
    <3>3. m[c.module] >= Needs[e][m[e]][c.module]
      BY <2>2, <3>2 DEF Consistent
    <3>4. m[e] \in Versions /\ Needs[e][m[e]][c.module] \in Nat /\ m[c.module] \in Nat
      BY <2>2, <3>2, Numbers
    <3>5. QED
      BY ONLY <3>2, <3>3, <3>4
  <2>3. CASE ~Named(cs, e) /\ ~(m[e] > 0)
    <3>1. r[e] \in Nat /\ m[e] \in Nat /\ r[e] <= m[e]
      BY <2>3, RootsAre, Numbers
    <3> HIDE DEF r
    <3>2. QED
      BY ONLY <2>3, <3>1
  <2>4. QED
    BY <2>1, <2>2, <2>3
<1>3. r \in Requirements
  BY RootsAre
<1>4. g[d] = Selected(r, d)
  BY <1>2, GoGetIs
<1> HIDE DEF r
<1>5. /\ r[d] <= Selected(r, d) /\ Selected(r, d) \in 0..MaxVersion
      /\ \/ Selected(r, d) = r[d]
         \/ \E e \in Modules : r[e] > 0 /\ Selected(r, d) = Needs[e][r[e]][d]
  BY ONLY <1>3, SelectedIs
<1>6. CASE \E e \in Modules : r[e] > 0 /\ Selected(r, d) = Needs[e][r[e]][d]
  <2>1. PICK e \in Modules : m[e] > 0 /\ Selected(r, d) = Needs[e][m[e]][d]
    BY <1>2, <1>6
  <2>2. m[d] >= Selected(r, d)
    BY <2>1 DEF Consistent
  <2>3. m[d] <= Selected(r, d)
    BY <1>2, <1>5
  <2>4. m[d] \in Nat /\ Selected(r, d) \in Nat
    BY ONLY <1>5, Numbers, Bounds, m \in Requirements, d \in Modules
  <2>5. m[d] = Selected(r, d)
    BY ONLY <2>2, <2>3, <2>4
  <2>6. QED
    BY <1>4, <2>5
<1>7. QED
  BY <1>2, <1>4, <1>5, <1>6

\* What go get moves without being asked to, it has a reason for.
LEMMA GoGetMoves ==
    ASSUME NEW m \in Requirements, Consistent(m), changes \in SUBSET Change,
           NEW g \in AfterGoGet(m, changes),
           NEW d \in Modules, m[d] > 0, g[d] # m[d], ~Named(changes, d)
    PROVE  \/ Clashes(m, d)
           \/ /\ g[d] > m[d]
              /\ \/ Pulled(m, d, g[d])
                 \/ \E c \in changes : Needs[c.module][c.to][d] = g[d]
<1> DEFINE r == Roots(m, changes)
<1>1. ASSUME NEW x \in Modules, m[x] > 0, ~Fits(changes, x, m[x])
      PROVE  Clashes(m, x)
  <2>1. PICK c \in changes : ~(Needs[x][m[x]][c.module] <= c.to)
    BY <1>1 DEF Fits
  <2>2. c.module \in Modules /\ c.to \in 1..MaxVersion /\ m[x] \in Versions
    BY <1>1, Numbers DEF Change
  <2>3. Needs[x][m[x]][c.module] \in Nat
    BY <2>2, Numbers
  <2>4. Needs[x][m[x]][c.module] > c.to
    BY ONLY <2>1, <2>2, <2>3
  <2>5. QED
    BY <1>1, <2>4 DEF Clashes
<1>2. SUFFICES ASSUME Fits(changes, d, m[d])
               PROVE  /\ g[d] > m[d]
                      /\ \/ Pulled(m, d, g[d])
                         \/ \E c \in changes : Needs[c.module][c.to][d] = g[d]
  BY <1>1
<1>3. r[d] = m[d] /\ r \in Requirements /\ g[d] = Selected(r, d)
  BY <1>2, RootsAre, GoGetIs
<1>4. PICK e \in Modules : r[e] > 0 /\ g[d] = Needs[e][r[e]][d]
  BY <1>3, SelectedIs
<1>5. g[d] > m[d]
  <2>1. m[d] <= g[d] /\ m[d] \in Nat /\ g[d] \in Nat
    BY <1>3, SelectedIs, Numbers, GoGetIs
  <2>2. QED
    BY ONLY <2>1, g[d] # m[d]
<1>6. CASE Named(changes, e)
  <2>1. /\ (CHOOSE c \in changes : c.module = e) \in changes
        /\ (CHOOSE c \in changes : c.module = e).module = e
    BY <1>6 DEF Named
  <2>2. r[e] = To(changes, e)
    BY <1>6, RootsAre
  <2>3. \E c \in changes : c.module = e /\ r[e] = c.to
    BY <2>1, <2>2 DEF To
  <2>4. \E c \in changes : Needs[c.module][c.to][d] = g[d]
    BY <1>4, <2>3
  <2>5. QED
    BY <1>5, <2>4
<1>7. CASE ~Named(changes, e)
  <2>1. r[e] <= m[e] /\ r[e] \in Nat /\ m[e] \in Nat /\ r[e] > 0
    BY <1>3, <1>4, <1>7, RootsAre, Numbers
  <2>2. m[e] > 0
    BY ONLY <2>1
  <2>3. r[e] # m[e]
    <3>1. SUFFICES ASSUME r[e] = m[e]
                   PROVE  FALSE
      OBVIOUS
    <3>2. m[d] >= g[d]
      BY <1>4, <2>2, <3>1 DEF Consistent
    <3>3. m[d] \in Nat /\ g[d] \in Nat
      BY Numbers, GoGetIs
    <3>4. QED
      BY ONLY <1>5, <3>2, <3>3
  <2>4. r[e] \in 1..(m[e] - 1)
    BY ONLY <2>1, <2>3
  <2>5. ~Fits(changes, e, m[e])
    BY <1>7, <2>2, <2>3, RootsAre
  <2>6. Clashes(m, e)
    BY <1>1, <2>2, <2>5
  <2>7. Pulled(m, d, g[d])
    BY <1>4, <2>4, <2>6 DEF Pulled
  <2>8. QED
    BY <1>5, <2>7
<1>8. QED
  BY <1>6, <1>7

\* When go.mod's own k6 is followed, it is not lowered, and what is asked for
\* raises nothing.
KeepsOthers(g) ==
    /\ g[K6] >= before[K6]
    /\ \A d \in Modules :
         before[d] > 0 /\ g[d] # before[d] =>
             \/ \E c \in changes : c.module = d
             \/ Clashes(before, d)
             \/ g[d] > before[d] /\ Pulled(before, d, g[d])

LEMMA GoGetKeepsOthers ==
    ASSUME before \in Requirements, Consistent(before), before[K6] > 0,
           changes = DiffRequires(before, K6Mods[before[K6]]),
           NEW g \in AfterGoGet(before, changes)
    PROVE  KeepsOthers(g)
<1> DEFINE k == before[K6]
<1>1. k \in Versions
  BY Numbers
<1>2. /\ changes \subseteq Change
      /\ \A c \in changes : /\ c.module \in Modules /\ c.from = before[c.module]
                          /\ c.to = K6Mods[k][c.module] /\ c.from # c.to /\ c.to > 0 /\ c.from > 0
      /\ \A d \in Modules : Named(changes, d) <=>
           before[d] > 0 /\ K6Mods[k][d] > 0 /\ before[d] # K6Mods[k][d]
  BY ONLY <1>1, ChangesAre, before \in Requirements, changes = DiffRequires(before, K6Mods[k])
<1>3. changes \in SUBSET Change
  BY <1>2
<1>4. g[K6] >= before[K6]
  <2>1. ~Named(changes, K6)
    BY <1>1, <1>2
  <2>2. Fits(changes, K6, before[K6])
    <3>1. SUFFICES ASSUME NEW c \in changes
                   PROVE  Needs[K6][before[K6]][c.module] <= c.to
      BY DEF Fits
    <3>2. c.module \in Modules /\ c.to = K6Mods[k][c.module] /\ K6Mods[k][c.module] > 0
      BY <1>2
    <3>3. Needs[K6][k][c.module] = c.to
      BY ONLY <1>1, <3>2, NeedsAssumption
    <3>4. Needs[K6][k][c.module] \in Nat
      BY <1>1, <3>2, Numbers
    <3>5. QED
      BY ONLY <3>3, <3>4
  <2>3. Roots(before, changes)[K6] = before[K6] /\ Roots(before, changes) \in Requirements
    BY <1>3, <2>1, <2>2, RootsAre
  <2>4. g[K6] = Selected(Roots(before, changes), K6) /\ g \in Requirements
    BY <1>3, <2>3, GoGetIs
  <2>5. Roots(before, changes)[K6] <= Selected(Roots(before, changes), K6)
    BY ONLY <2>3, SelectedIs, Bounds
  <2>6. g[K6] \in Nat /\ before[K6] \in Nat
    BY ONLY <2>4, Numbers, Bounds, before \in Requirements
  <2>7. QED
    BY ONLY <2>3, <2>4, <2>5, <2>6
<1>5. ASSUME NEW d \in Modules, before[d] > 0, g[d] # before[d], ~Named(changes, d)
      PROVE  Clashes(before, d) \/ (g[d] > before[d] /\ Pulled(before, d, g[d]))
  <2>1. \/ Clashes(before, d)
        \/ /\ g[d] > before[d]
           /\ \/ Pulled(before, d, g[d])
              \/ \E c \in changes : Needs[c.module][c.to][d] = g[d]
    BY <1>3, <1>5, GoGetMoves
  <2>2. ASSUME NEW c \in changes, Needs[c.module][c.to][d] = g[d]
        PROVE  ~(g[d] > before[d])
    <3>1. c.module \in Modules /\ c.to = K6Mods[k][c.module] /\ K6Mods[k][c.module] > 0
      BY <1>2
    <3>2. g[d] <= Needs[K6][k][d]
      BY ONLY <1>1, <2>2, <3>1, OneK6, d \in Modules
    <3>3. before[d] >= Needs[K6][k][d]
      BY <1>5 DEF Consistent
    <3>4. before[d] \in Nat /\ g[d] \in Nat /\ Needs[K6][k][d] \in Nat
      BY <1>1, <1>3, Numbers, GoGetIs
    <3>5. QED
      BY ONLY <3>2, <3>3, <3>4
  <2>3. QED
    BY <2>1, <2>2
<1>6. QED
  BY <1>4, <1>5 DEF KeepsOthers, Named

------------------------------------------------------------------------------
(* The inductive invariant.                                                  *)

\* What was read is what was there, and what was compared is what was read, as
\* long as nobody else writes.
Snapshot ==
    ~disturbed =>
        /\ pc \in {"load", "resolve", "fetch", "goget"} => mod = before
        /\ pc \in {"resolve", "fetch", "goget", "report", "done"} => ext = before
        /\ changes # {} \/ pc \in {"goget", "report", "done"} =>
             changes = DiffRequires(before, K6Mods[k6])
        /\ opts.k6version = "unset" /\ k6 > 0 /\ before[K6] > 0 => k6 = before[K6]

\* How far a command is.
Progress ==
    /\ pc \in {"fetch", "goget", "report", "done"} \/ changes # {} => k6 \in Versions
    /\ pc \in {"load", "resolve", "fetch"} => changes = {}
    /\ pc = "load" \/ pc = "resolve" => k6 = 0
    /\ pc = "goget" => changes # {} /\ ~opts.dryRun
    /\ {} \notin orphans

\* What it has done.
Done ==
    pc \in {"report", "done"} /\ ~disturbed =>
        IF opts.dryRun THEN mod = before ELSE Follows(mod, before, k6)

IInv ==
    /\ TypeOK
    /\ Snapshot
    /\ Progress
    /\ Consistent(mod) /\ Consistent(before)
    /\ Done
    /\ AllOrNothing
    /\ DefaultKeepsOthers

LEMMA InitIInv == Init => IInv
<1> SUFFICES ASSUME Init
             PROVE  IInv
  OBVIOUS
<1>1. TypeOK
  <2>1. opts \in Options
    BY DEF Init, Options
  <2>2. mod \in Requirements /\ ext \in Requirements /\ before \in Requirements
    BY DEF Init
  <2>3. disturbed \in BOOLEAN /\ orphans \subseteq SUBSET Change /\ changes \subseteq Change
    BY DEF Init
  <2>4. QED
    BY <2>1, <2>2, <2>3 DEF Init, TypeOK, Labels
<1>2. /\ Snapshot /\ Progress /\ Consistent(mod) /\ Consistent(before)
      /\ Done /\ AllOrNothing /\ DefaultKeepsOthers
  <2>1. mod[K6] \in Nat
    BY <1>1, Numbers DEF TypeOK
  <2>2. QED
    BY <2>1
       DEF Init, Snapshot, Progress, Consistent, Done, AllOrNothing, DefaultKeepsOthers
<1>3. QED
  BY <1>1, <1>2 DEF IInv

\* The go get of the command itself, or of its orphan, which may come second.
LEMMA Gets ==
    ASSUME IInv, ~disturbed, changes # {}, NEW g \in AfterGoGet(mod, changes)
    PROVE  /\ k6 > 0 /\ Follows(g, before, k6)
           /\ opts.k6version = "unset" /\ before[K6] > 0 => KeepsOthers(g)
<1>1. /\ mod \in Requirements /\ before \in Requirements /\ k6 \in Versions /\ k6 > 0
      /\ changes = DiffRequires(before, K6Mods[k6]) /\ changes \in SUBSET Change
      /\ Consistent(mod) /\ Consistent(before)
      /\ opts.k6version = "unset" /\ before[K6] > 0 => k6 = before[K6]
  <2>1. mod \in Requirements /\ before \in Requirements /\ changes \in SUBSET Change
    BY DEF IInv, TypeOK
  <2>2. Consistent(mod) /\ Consistent(before)
    BY DEF IInv
  <2>3. k6 \in Versions /\ k6 > 0
    BY DEF IInv, Progress
  <2>4. /\ changes = DiffRequires(before, K6Mods[k6])
        /\ opts.k6version = "unset" /\ before[K6] > 0 => k6 = before[K6]
    BY <2>3 DEF IInv, Snapshot
  <2>5. QED
    BY <2>1, <2>2, <2>3, <2>4
<1>2. CASE mod = before
  <2>1. Follows(g, before, k6)
    BY <1>1, <1>2, GoGetFollows
  <2>2. opts.k6version = "unset" /\ before[K6] > 0 => KeepsOthers(g)
    BY <1>1, <1>2, GoGetKeepsOthers
  <2>3. QED
    BY <1>1, <2>1, <2>2
<1>3. CASE mod # before
  <2>1. Follows(mod, before, k6)
    BY <1>3 DEF IInv, AllOrNothing
  <2>2. \A c \in changes : mod[c.module] = c.to
    <3>1. \A c \in changes : /\ c.module \in Modules /\ c.from = before[c.module]
                           /\ c.to = K6Mods[k6][c.module] /\ c.from # c.to /\ c.to > 0 /\ c.from > 0
      BY ONLY <1>1, ChangesAre
    <3>2. QED
      BY ONLY <2>1, <3>1 DEF Follows
  <2>3. \A d \in Modules : mod[d] > 0 => g[d] = mod[d]
    BY ONLY <1>1, <2>2, GoGetAgain, g \in AfterGoGet(mod, changes)
  <2>4. Follows(g, before, k6)
    <3>1. SUFFICES ASSUME NEW d \in Modules, before[d] > 0, K6Mods[k6][d] > 0
                   PROVE  IF before[d] = K6Mods[k6][d] THEN g[d] >= before[d]
                          ELSE g[d] = K6Mods[k6][d]
      BY DEF Follows
    <3>2. IF before[d] = K6Mods[k6][d] THEN mod[d] >= before[d] ELSE mod[d] = K6Mods[k6][d]
      BY <2>1, <3>1 DEF Follows
    <3>3. mod[d] \in Nat /\ before[d] \in Nat
      BY <1>1, Numbers
    <3>4. mod[d] > 0
      BY ONLY <3>1, <3>2, <3>3
    <3>5. g[d] = mod[d]
      BY <2>3, <3>4
    <3>6. QED
      BY <3>2, <3>5
  <2>5. ASSUME opts.k6version = "unset", before[K6] > 0
        PROVE  KeepsOthers(g)
    <3>1. KeepsOthers(mod)
      BY <2>5 DEF IInv, DefaultKeepsOthers, KeepsOthers
    <3>2. g[K6] >= before[K6]
      <4>1. mod[K6] \in Nat /\ before[K6] \in Nat /\ mod[K6] >= before[K6]
        BY <1>1, <3>1, Numbers DEF KeepsOthers
      <4>2. mod[K6] > 0
        BY ONLY <2>5, <4>1
      <4>3. QED
        BY <2>3, <4>1, <4>2
    <3>3. ASSUME NEW d \in Modules, before[d] > 0, g[d] # before[d]
          PROVE  \/ \E c \in changes : c.module = d
                 \/ Clashes(before, d)
                 \/ g[d] > before[d] /\ Pulled(before, d, g[d])
      <4>1. CASE mod[d] > 0
        BY <2>3, <3>1, <3>3, <4>1 DEF KeepsOthers
      <4>2. CASE ~(mod[d] > 0)
        <5>1. mod[d] \in Nat /\ before[d] \in Nat
          BY <1>1, Numbers
        <5>2. mod[d] # before[d] /\ ~(mod[d] > before[d])
          BY ONLY <3>3, <4>2, <5>1
        <5>3. QED
          BY <3>1, <3>3, <5>2 DEF KeepsOthers
      <4>3. QED
        BY <4>1, <4>2
    <3>4. QED
      BY <3>2, <3>3 DEF KeepsOthers
  <2>6. QED
    BY <1>1, <2>4, <2>5
<1>4. QED
  BY <1>2, <1>3

LEMMA StepTypeOK ==
    ASSUME IInv, Next
    PROVE  TypeOK'
<1> USE DEF IInv, TypeOK, Labels, Ended, counters, history
<1>1. CASE Start
  <2>1. opts' \in Options /\ runs' \in 0..MaxRuns
    BY <1>1 DEF Start
  <2>2. changes' \subseteq Change /\ disturbed' \in BOOLEAN
    BY <1>1 DEF Start
  <2>3. QED
    BY <1>1, <2>1, <2>2 DEF Start
<1>2. CASE LoadModfile
  BY <1>2 DEF LoadModfile
<1>3. CASE NoSuchVersion
  BY <1>3 DEF NoSuchVersion
<1>4. CASE ResolveK6Module
  <2>1. k6' \in 0..MaxVersion
    BY <1>4 DEF ResolveK6Module, Options
  <2>2. QED
    BY <1>4, <2>1 DEF ResolveK6Module
<1>5. CASE GetModule
  <2>1. k6 \in Versions
    BY <1>5 DEF GetModule, Progress
  <2>2. changes' \subseteq Change
    <3>1. ext \in Requirements /\ changes' = DiffRequires(ext, K6Mods[k6])
      BY <1>5 DEF GetModule
    <3>2. QED
      BY ONLY <2>1, <3>1, ChangesAre
  <2>3. QED
    BY <1>5, <2>2 DEF GetModule
<1>6. CASE GoGet
  <2>1. mod' \in Requirements
    BY <1>6, GoGetIs DEF GoGet
  <2>2. QED
    BY <1>6, <2>1 DEF GoGet
<1>7. CASE Report
  BY <1>7 DEF Report
<1>8. CASE Fail
  BY <1>8 DEF Fail
<1>9. CASE Kill
  BY <1>9 DEF Kill
<1>10. CASE OrphanWrites
  <2>1. PICK cs \in orphans : mod' \in AfterGoGet(mod, cs) /\ orphans' = orphans \ {cs}
    BY <1>10 DEF OrphanWrites
  <2>2. mod' \in Requirements
    BY <2>1, GoGetIs
  <2>3. disturbed' \in BOOLEAN
    BY <1>10 DEF OrphanWrites
  <2>4. QED
    BY <1>10, <2>1, <2>2, <2>3 DEF OrphanWrites
<1>11. CASE Edit
  BY <1>11 DEF Edit
<1>12. QED
  BY <1>1, <1>2, <1>3, <1>4, <1>5, <1>6, <1>7, <1>8, <1>9, <1>10, <1>11 DEF Next

LEMMA StepPlan ==
    ASSUME IInv, Next
    PROVE  (Snapshot /\ Progress)'
<1> USE DEF IInv, TypeOK, Labels, Options, Ended, counters, history, Snapshot, Progress
<1>1. CASE Start
  BY <1>1 DEF Start
<1>2. CASE LoadModfile
  BY <1>2 DEF LoadModfile
<1>3. CASE NoSuchVersion
  BY <1>3 DEF NoSuchVersion
<1>4. CASE ResolveK6Module
  BY <1>4 DEF ResolveK6Module
<1>5. CASE GetModule
  BY <1>5 DEF GetModule
<1>6. CASE GoGet
  BY <1>6 DEF GoGet
<1>7. CASE Report
  BY <1>7 DEF Report
<1>8. CASE Fail
  BY <1>8 DEF Fail
<1>9. CASE Kill
  BY <1>9 DEF Kill
<1>10. CASE OrphanWrites
  BY <1>10 DEF OrphanWrites
<1>11. CASE Edit
  BY <1>11 DEF Edit
<1>12. QED
  BY <1>1, <1>2, <1>3, <1>4, <1>5, <1>6, <1>7, <1>8, <1>9, <1>10, <1>11 DEF Next

LEMMA StepDone ==
    ASSUME IInv, Next
    PROVE  (Done /\ AllOrNothing /\ DefaultKeepsOthers)'
<1> USE DEF IInv, TypeOK, Labels, Options, Ended, counters, history, Snapshot, Progress,
           Done, AllOrNothing, DefaultKeepsOthers
<1>1. CASE Start
  BY <1>1 DEF Start
<1>2. CASE LoadModfile
  BY <1>2 DEF LoadModfile
<1>3. CASE NoSuchVersion
  BY <1>3 DEF NoSuchVersion
<1>4. CASE ResolveK6Module
  BY <1>4 DEF ResolveK6Module
<1>5. CASE GetModule
  <2>1. CASE ~disturbed
    <3>1. /\ mod = before /\ ext = before /\ k6 \in Versions
          /\ changes' = DiffRequires(before, K6Mods[k6])
          /\ UNCHANGED <<mod, before, k6, opts, disturbed>>
      BY <1>5, <2>1 DEF GetModule
    <3>2. changes' = {} => Follows(before, before, k6)
      <4>1. before \in Requirements
        OBVIOUS
      <4>2. \A d \in Modules : Named(changes', d) <=>
              before[d] > 0 /\ K6Mods[k6][d] > 0 /\ before[d] # K6Mods[k6][d]
        BY ONLY <3>1, <4>1, ChangesAre
      <4>3. \A d \in Modules : before[d] \in Nat
        BY <4>1, Numbers
      <4>4. \A d \in Modules : before[d] >= before[d]
        BY ONLY <4>3
      <4>5. QED
        BY <4>2, <4>4 DEF Named, Follows
    <3>3. Done'
      BY <1>5, <3>1, <3>2 DEF GetModule, Follows
    <3>4. AllOrNothing' /\ DefaultKeepsOthers'
      BY <3>1
    <3>5. QED
      BY <3>3, <3>4
  <2>2. CASE disturbed
    BY <1>5, <2>2 DEF GetModule
  <2>3. QED
    BY <2>1, <2>2
<1>6. CASE GoGet
  <2>1. ~opts.dryRun /\ changes # {} /\ mod' \in AfterGoGet(mod, changes)
        /\ UNCHANGED <<opts, k6, before, disturbed, changes>>
    BY <1>6 DEF GoGet
  <2>2. CASE disturbed
    BY <2>1, <2>2
  <2>3. CASE ~disturbed
    <3>1. /\ k6 > 0 /\ Follows(mod', before, k6)
          /\ opts.k6version = "unset" /\ before[K6] > 0 => KeepsOthers(mod')
      BY <2>1, <2>3, Gets
    <3>2. Done' /\ AllOrNothing'
      BY <2>1, <3>1 DEF Follows
    <3>3. DefaultKeepsOthers'
      BY <2>1, <3>1 DEF KeepsOthers, Clashes, Pulled
    <3>4. QED
      BY <3>2, <3>3
  <2>4. QED
    BY <2>2, <2>3
<1>7. CASE Report
  <2>1. UNCHANGED <<mod, opts, k6, before, disturbed, changes>>
    BY <1>7 DEF Report
  <2>2. AllOrNothing' /\ DefaultKeepsOthers'
    BY <2>1 DEF Follows, Clashes, Pulled
  <2>3. Done'
    BY <1>7, <2>1 DEF Report, Follows
  <2>4. QED
    BY <2>2, <2>3
<1>8. CASE Fail
  <2>1. UNCHANGED <<mod, opts, k6, before, disturbed, changes>>
    BY <1>8 DEF Fail
  <2>2. AllOrNothing' /\ DefaultKeepsOthers'
    BY <2>1 DEF Follows, Clashes, Pulled
  <2>3. Done'
    BY <1>8, <2>1 DEF Fail, Follows
  <2>4. QED
    BY <2>2, <2>3
<1>9. CASE Kill
  <2>1. UNCHANGED <<mod, opts, k6, before, disturbed, changes>>
    BY <1>9 DEF Kill
  <2>2. AllOrNothing' /\ DefaultKeepsOthers'
    BY <2>1 DEF Follows, Clashes, Pulled
  <2>3. Done'
    BY <1>9, <2>1 DEF Kill, Follows
  <2>4. QED
    BY <2>2, <2>3
<1>10. CASE OrphanWrites
  <2>1. PICK cs \in orphans :
           /\ mod' \in AfterGoGet(mod, cs)
           /\ disturbed' = (disturbed \/ pc # "killed" \/ cs # changes)
    BY <1>10 DEF OrphanWrites
  <2>2. UNCHANGED <<pc, opts, k6, before, changes>>
    BY <1>10 DEF OrphanWrites
  <2>3. CASE disturbed'
    BY <2>3
  <2>4. CASE ~disturbed'
    <3>1. ~disturbed /\ pc = "killed" /\ changes # {} /\ mod' \in AfterGoGet(mod, changes)
      BY <2>1, <2>4
    <3>2. /\ k6 > 0 /\ Follows(mod', before, k6)
          /\ opts.k6version = "unset" /\ before[K6] > 0 => KeepsOthers(mod')
      BY <3>1, Gets
    <3>3. Done' /\ AllOrNothing'
      BY <2>2, <3>1, <3>2 DEF Follows
    <3>4. DefaultKeepsOthers'
      BY <2>2, <3>2 DEF KeepsOthers, Clashes, Pulled
    <3>5. QED
      BY <3>3, <3>4
  <2>5. QED
    BY <2>3, <2>4
<1>11. CASE Edit
  BY <1>11 DEF Edit
<1>12. QED
  BY <1>1, <1>2, <1>3, <1>4, <1>5, <1>6, <1>7, <1>8, <1>9, <1>10, <1>11 DEF Next

\* No step leaves a go.mod that the go command would not take.
LEMMA StepConsistent ==
    ASSUME IInv, Next
    PROVE  (Consistent(mod) /\ Consistent(before))'
<1>1. CASE GoGet \/ OrphanWrites
  <2>1. PICK cs \in SUBSET Change : mod' \in AfterGoGet(mod, cs)
    BY <1>1 DEF IInv, TypeOK, GoGet, OrphanWrites
  <2>2. Consistent(mod')
    BY <2>1, GoGetIsConsistent DEF IInv, TypeOK
  <2>3. before' = before
    BY <1>1 DEF GoGet, OrphanWrites, history
  <2>4. QED
    BY <2>2, <2>3 DEF IInv, Consistent
<1>2. CASE Edit
  BY <1>2 DEF IInv, Edit, Consistent
<1>3. CASE Start
  BY <1>3 DEF IInv, Start, Consistent
<1>4. CASE LoadModfile \/ NoSuchVersion \/ ResolveK6Module \/ GetModule \/ Report \/ Fail \/ Kill
  <2>1. UNCHANGED <<mod, before>>
    BY <1>4
       DEF LoadModfile, NoSuchVersion, ResolveK6Module, GetModule, Report, Fail, Kill, history
  <2>2. QED
    BY <2>1 DEF IInv, Consistent
<1>5. QED
  BY <1>1, <1>2, <1>3, <1>4 DEF Next

LEMMA StepIInv == IInv /\ [Next]_vars => IInv'
<1>1. IInv /\ Next => IInv'
  BY StepTypeOK, StepPlan, StepDone, StepConsistent DEF IInv
<1>2. IInv /\ UNCHANGED vars => IInv'
  BY DEF IInv, vars, counters, history, TypeOK, Snapshot, Progress, Done, AllOrNothing,
         DefaultKeepsOthers, Follows, Clashes, Pulled, Consistent
<1>3. QED
  BY <1>1, <1>2

LEMMA Invariance == Spec => []IInv
<1>1. QED
  BY InitIInv, StepIInv, PTL DEF Spec

------------------------------------------------------------------------------
\* Type correctness: go get, also that of a killed command, leaves versions
\* that exist.
THEOREM TypeCorrect == Spec => []TypeOK
<1>1. IInv => TypeOK
  BY DEF IInv
<1>2. QED
  BY <1>1, Invariance, PTL

\* Killed or failed anywhere, a command leaves go.mod as it was or synchronized.
THEOREM NothingInBetween == Spec => []AllOrNothing
<1>1. IInv => AllOrNothing
  BY DEF IInv
<1>2. QED
  BY <1>1, Invariance, PTL

\* What a command reports as done is what it has done.
THEOREM TrueReport == Spec => []ReportIsTrue
<1>1. IInv => ReportIsTrue
  <2> SUFFICES ASSUME IInv, pc = "done", ~disturbed
               PROVE  /\ \A c \in changes : before[c.module] = c.from
                      /\ IF opts.dryRun THEN mod = before ELSE Follows(mod, before, k6)
                      /\ \A d \in Modules :
                           before[d] > 0 /\ K6Mods[k6][d] > 0 =>
                               (before[d] # K6Mods[k6][d] <=> \E c \in changes : c.module = d)
    BY DEF ReportIsTrue
  <2>1. k6 \in Versions /\ before \in Requirements /\ changes = DiffRequires(before, K6Mods[k6])
    BY DEF IInv, TypeOK, Snapshot, Progress
  <2>2. \A c \in changes : /\ c.module \in Modules /\ c.from = before[c.module]
                           /\ c.to = K6Mods[k6][c.module] /\ c.from # c.to /\ c.to > 0 /\ c.from > 0
    BY ONLY <2>1, ChangesAre
  <2>3. \A d \in Modules : Named(changes, d) <=>
          before[d] > 0 /\ K6Mods[k6][d] > 0 /\ before[d] # K6Mods[k6][d]
    BY ONLY <2>1, ChangesAre
  <2>4. QED
    BY <2>2, <2>3 DEF IInv, Done, Named
<1>2. QED
  BY <1>1, Invariance, PTL

\* Without -k the extension's own k6 is not lowered, and what no change names
\* moves only if it cannot stay, or if something that cannot stay pulls it up.
THEOREM OthersKept == Spec => []DefaultKeepsOthers
<1>1. IInv => DefaultKeepsOthers
  BY DEF IInv
<1>2. QED
  BY <1>1, Invariance, PTL

\* What somebody else has written while the command ran is still there after its
\* go get, unless it is asked for, cannot stay, or is pulled up.
THEOREM EditsAreKept == Spec => EditsSurvive
<1>1. IInv /\ [Next]_vars =>
        [pc = "goget" /\ pc' = "report" =>
           \A d \in Modules :
               mod[d] > 0 /\ mod'[d] # mod[d] =>
                   \/ \E c \in changes : c.module = d
                   \/ Clashes(mod, d)
                   \/ /\ mod'[d] > mod[d]
                      /\ \/ Pulled(mod, d, mod'[d])
                         \/ \E c \in changes : Needs[c.module][c.to][d] = mod'[d]]_vars
  <2> SUFFICES ASSUME IInv, Next, pc = "goget", pc' = "report",
                      NEW d \in Modules, mod[d] > 0, mod'[d] # mod[d], ~Named(changes, d)
               PROVE  \/ Clashes(mod, d)
                      \/ /\ mod'[d] > mod[d]
                         /\ \/ Pulled(mod, d, mod'[d])
                            \/ \E c \in changes : Needs[c.module][c.to][d] = mod'[d]
    BY DEF Named
  <2>1. GoGet
    BY DEF Next, Start, LoadModfile, NoSuchVersion, ResolveK6Module, GetModule, Report, Fail, Kill,
           OrphanWrites, Edit, Ended
  <2>2. mod' \in AfterGoGet(mod, changes)
    BY <2>1 DEF GoGet
  <2>3. mod \in Requirements /\ changes \in SUBSET Change /\ Consistent(mod)
    BY DEF IInv, TypeOK
  <2>4. QED
    BY <2>2, <2>3, GoGetMoves
<1>2. QED
  BY <1>1, Invariance, PTL DEF Spec, EditsSurvive

------------------------------------------------------------------------------
(* A sync after a sync.                                                      *)

\* What a sync that wrote go.mod leaves for the next one with the same k6.
NothingLeftToSync ==
    pc \in {"report", "done"} /\ ~disturbed /\ ~opts.dryRun =>
        /\ \A c \in DiffRequires(mod, K6Mods[k6]) :
             before[c.module] = 0 \/ (before[c.module] = c.to /\ c.from > c.to)
        /\ opts.k6version = "unset" /\ before[K6] > 0 => mod[K6] >= k6

\* One xk6 sync is enough, but for what its own go get has moved: where go.mod
\* still differs from the k6 followed, go get has listed the module, or has
\* raised it from k6's own version.  Nothing that was a difference is one again.
THEOREM SyncIsIdempotent == Spec => []NothingLeftToSync
<1>1. ASSUME IInv, pc \in {"report", "done"}, ~disturbed, ~opts.dryRun
      PROVE  /\ \A c \in DiffRequires(mod, K6Mods[k6]) :
                  before[c.module] = 0 \/ (before[c.module] = c.to /\ c.from > c.to)
             /\ opts.k6version = "unset" /\ before[K6] > 0 => mod[K6] >= k6
  <2>1. mod \in Requirements /\ before \in Requirements /\ k6 \in Versions /\ k6 > 0
    BY <1>1 DEF IInv, TypeOK, Progress
  <2>2. Follows(mod, before, k6)
    BY <1>1 DEF IInv, Done
  <2>3. ASSUME NEW c \in DiffRequires(mod, K6Mods[k6]), before[c.module] # 0
        PROVE  before[c.module] = c.to /\ c.from > c.to
    <3>1. /\ c.module \in Modules /\ c.from = mod[c.module]
          /\ c.to = K6Mods[k6][c.module] /\ c.from # c.to /\ c.to > 0
      BY ONLY <2>1, <2>3, ChangesAre
    <3>2. before[c.module] \in Nat /\ mod[c.module] \in Nat
      BY <2>1, <3>1, Numbers
    <3>3. before[c.module] > 0
      BY ONLY <2>3, <3>2
    <3>4. IF before[c.module] = c.to THEN c.from >= before[c.module] ELSE c.from = c.to
      BY <2>2, <3>1, <3>3 DEF Follows
    <3>5. QED
      BY ONLY <3>1, <3>2, <3>4
  <2>4. ASSUME opts.k6version = "unset", before[K6] > 0
        PROVE  mod[K6] >= k6
    <3>1. k6 = before[K6]
      BY <1>1, <2>1, <2>4 DEF IInv, Snapshot
    <3>2. QED
      BY <1>1, <2>4, <3>1 DEF IInv, DefaultKeepsOthers
  <2>5. QED
    BY <2>3, <2>4
<1>2. IInv => NothingLeftToSync
  BY <1>1 DEF NothingLeftToSync
<1>3. QED
  BY <1>2, Invariance, PTL

===============================================================================
