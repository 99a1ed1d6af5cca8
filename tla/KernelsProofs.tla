---------------------------- MODULE KernelsProofs ----------------------------
(***************************************************************************)
(* No kernel of Kernels has a race: RaceFree(Kernel(l)) for every call l   *)
(* that an operator supports, on every device.                             *)
(*                                                                         *)
(* The barriers of a thread cut its code into phases. The footprint of a   *)
(* thread says, for each phase, what it may write and read. A kernel is    *)
(* free of races if footprints of two threads do not meet: of the same     *)
(* phase, for threads of a block, and of any phases, for others.           *)
(***************************************************************************)
EXTENDS Kernels, WellFoundedInduction, TLAPS

\* The order of two instructions matters.
Collide(x, y) ==
  /\ x.to = y.to \/ x.to \in Range(y.from) \/ y.to \in Range(x.from)
  /\ ~(x.op = "add" /\ y.op = "add")

IsCode(code)  == \E S : code \in Seq(S)
IsAccess(x)   == x.op \in {"put", "add"}

\* ph[i] is the phase after i instructions of code, from phase p to phase q.
Phases(code, ph, p, q) ==
  /\ ph \in [0..Len(code) -> Nat] /\ ph[0] = p /\ ph[Len(code)] = q
  /\ \A i \in 1..Len(code) :
       ph[i] = ph[i - 1] + (IF code[i].op = "barrier" THEN 1 ELSE 0)

\* Threads that are in the same phase, or in different blocks, do not collide.
NoneCollide(k, ph) ==
  \A s, t \in DOMAIN k.code : \A i \in 1..Len(k.code[s]), j \in 1..Len(k.code[t]) :
    /\ s # t /\ IsAccess(k.code[s][i]) /\ IsAccess(k.code[t][j])
    /\ s[1] = t[1] => ph[s][i - 1] = ph[t][j - 1]
    => ~Collide(k.code[s][i], k.code[t][j])

RaceFree(k) ==
  \E ph, q : /\ \A th \in DOMAIN k.code :
                  IsCode(k.code[th]) /\ Phases(k.code[th], ph[th], 0, q)
             /\ NoneCollide(k, ph)

\* Code from phase p to phase q writes and reads what footprint fp lists.
Within(x, f) ==
  /\ x.op = f.op
  /\ f.op = "put" => /\ x.to \in f.to
                     /\ \A i \in DOMAIN x.from : x.from[i][1] = "in" \/ x.from[i] \in f.from
Stays(code, ph, fp) ==
  \A i \in 1..Len(code) : IsAccess(code[i]) => Within(code[i], fp[ph[i - 1]])
Does(code, p, q, fp) ==
  IsCode(code) /\ \E ph : Phases(code, ph, p, q) /\ Stays(code, ph, fp)

\* No access within f collides with one within g.
Apart(f, g) ==
  \/ f.op = "add" /\ g.op = "add"
  \/ /\ f.op = "put" /\ g.op = "put"
     /\ f.to \cap g.to = {} /\ f.to \cap g.from = {} /\ f.from \cap g.to = {}
     /\ \A e \in f.to \union g.to : e[1] # "in"

Writes(to, from) == [op |-> "put", to |-> to, from |-> from]

(***************************************************************************)
(* Induction, for sets of numbers, and what recursive functions are.       *)
(***************************************************************************)

LEMMA SetInduction ==
  ASSUME NEW T \in SUBSET Nat, 0 \in T, \A n \in T : n + 1 \in T
  PROVE  T = Nat
<1> DEFINE R == OpToRel(<, Nat)
           U == Nat \ T
<1>1. IsWellFoundedOn(R, Nat)
  BY NatLessThanWellFounded
<1>2. \A x, y \in Nat : y < x => <<y, x>> \in R
  BY DEF OpToRel
<1> HIDE DEF R
<1>3. SUFFICES ASSUME U # {} PROVE FALSE
  OBVIOUS
<1>4. PICK x \in U : \A y \in U : ~ (<<y, x>> \in R)
  BY <1>1, <1>3, WFMin
<1>5. x # 0 /\ x \in Nat /\ x - 1 \in Nat /\ x - 1 < x
  BY <1>4
<1>6. x - 1 \in T
  BY <1>2, <1>4, <1>5
<1> QED
  BY <1>4, <1>5, <1>6

\* A recursion over 0..n, each of whose steps stays in S, defines a function.
Recursive(f, base, n, step) ==
  f[0] = base /\ \A k \in 1..n : f[k] = step[k][f[k - 1]]

LEMMA Recursion ==
  ASSUME NEW S, NEW base, NEW n \in Nat, NEW step,
         base \in S, \A k \in 1..n : \A v \in S : step[k][v] \in S
  PROVE  \E f \in [0..n -> S] : Recursive(f, base, n, step)
<1> DEFINE Good(m) == \E f \in [0..m -> S] : Recursive(f, base, m, step)
           T == {m \in Nat : m <= n => Good(m)}
<1>1. 0 \in T
  <2> DEFINE f == [k \in 0..0 |-> base]
  <2>1. f \in [0..0 -> S] /\ Recursive(f, base, 0, step)
    BY DEF Recursive
  <2> HIDE DEF f
  <2> QED
    BY <2>1
<1>2. ASSUME NEW m \in T PROVE m + 1 \in T
  <2>1. CASE ~(m + 1 <= n)
    BY <2>1
  <2>2. CASE m + 1 <= n
    <3>1. m \in Nat /\ Good(m) /\ m + 1 \in 1..n
      BY <2>2
    <3>2. PICK f \in [0..m -> S] : Recursive(f, base, m, step)
      BY <3>1
    <3> DEFINE v == step[m + 1][f[m]]
               g == [k \in 0..(m + 1) |-> IF k = m + 1 THEN v ELSE f[k]]
    <3>3. f[m] \in S /\ v \in S
      <4>1. f[m] \in S
        BY <3>1, <3>2
      <4> QED
        BY <3>1, <4>1
    <3>4. g \in [0..(m + 1) -> S] /\ g[0] = base /\ g[m + 1] = v /\ \A k \in 0..m : g[k] = f[k]
      BY <3>1, <3>2, <3>3 DEF Recursive
    <3> HIDE DEF g
    <3>5. \A k \in 1..(m + 1) : g[k] = step[k][g[k - 1]]
      <4> TAKE k \in 1..(m + 1)
      <4>1. k - 1 \in 0..m /\ g[k - 1] = f[k - 1]
        BY <3>1, <3>4
      <4>2. CASE k = m + 1
        BY <3>1, <3>4, <4>1, <4>2
      <4>3. CASE k # m + 1
        <5>1. k \in 1..m /\ k \in 0..m
          BY <3>1, <4>3
        <5> QED
          BY <3>2, <3>4, <4>1, <5>1 DEF Recursive
      <4> QED
        BY <4>2, <4>3
    <3>6. Good(m + 1)
      BY <3>4, <3>5 DEF Recursive
    <3> HIDE DEF Good
    <3> QED
      BY <3>1, <3>6
  <2> QED
    BY <2>1, <2>2
<1> HIDE DEF T
<1>3. T = Nat
  <2>1. T \in SUBSET Nat
    BY DEF T
  <2> QED
    BY <1>1, <1>2, <2>1, SetInduction
<1> QED
  BY <1>3 DEF T

(***************************************************************************)
(* Code in order.                                                          *)
(***************************************************************************)

LEMMA IsSequence ==
  ASSUME NEW S, NEW n \in Nat, NEW s \in [1..n -> S]
  PROVE  s \in Seq(S) /\ Len(s) = n
OBVIOUS

LEMMA ConcatenationIs ==
  ASSUME NEW S, NEW c \in Seq(S), NEW d \in Seq(S)
  PROVE  /\ c \o d \in Seq(S) /\ Len(c \o d) = Len(c) + Len(d)
         /\ \A i \in 1..Len(c) : (c \o d)[i] = c[i]
         /\ \A i \in 1..Len(d) : (c \o d)[Len(c) + i] = d[i]
OBVIOUS

\* The recursion of InOrder.
UpTo(f, n, codes) == f = [k \in 0..n |-> IF k = 0 THEN <<>> ELSE f[k - 1] \o codes[k]]

LEMMA Concatenations ==
  ASSUME NEW S, NEW n \in Nat, NEW codes, \A k \in 1..n : codes[k] \in Seq(S)
  PROVE  \E f : UpTo(f, n, codes)
<1> DEFINE Q == Seq(S)
           step == [k \in 1..n |-> [v \in Q |-> v \o codes[k]]]
<1>1. <<>> \in Q
  OBVIOUS
<1>2. \A v, w \in Q : v \o w \in Q
  OBVIOUS
<1>3. \A k \in 1..n : codes[k] \in Q
  OBVIOUS
<1> HIDE DEF Q
<1>4. \A k \in 1..n : \A v \in Q : step[k][v] = v \o codes[k]
  OBVIOUS
<1> HIDE DEF step
<1>5. \A k \in 1..n : \A v \in Q : step[k][v] \in Q
  BY <1>2, <1>3, <1>4
<1>6. PICK f \in [0..n -> Q] : Recursive(f, <<>>, n, step)
  BY <1>1, <1>5, Recursion
<1>7. ASSUME NEW k \in 0..n PROVE f[k] = IF k = 0 THEN <<>> ELSE f[k - 1] \o codes[k]
  <2>1. CASE k = 0
    BY <1>6, <2>1 DEF Recursive
  <2>2. CASE k # 0
    <3>1. k \in 1..n /\ k - 1 \in 0..n
      BY <2>2
    <3>2. f[k - 1] \in Q
      BY <1>6, <3>1
    <3> QED
      BY <1>4, <1>6, <2>2, <3>1, <3>2 DEF Recursive
  <2> QED
    BY <2>1, <2>2
<1>8. f = [k \in 0..n |-> IF k = 0 THEN <<>> ELSE f[k - 1] \o codes[k]]
  BY <1>6, <1>7
<1> QED
  BY <1>8 DEF UpTo

LEMMA InOrderDef ==
  ASSUME NEW S, NEW codes \in Seq(Seq(S))
  PROVE  \E u : /\ InOrder(codes) = u[Len(codes)] /\ u[0] = <<>>
                /\ \A k \in 1..Len(codes) : u[k] = u[k - 1] \o codes[k]
<1> DEFINE n == Len(codes)
           u == CHOOSE g : UpTo(g, n, codes)
<1>1. n \in Nat /\ \A k \in 1..n : codes[k] \in Seq(S)
  OBVIOUS
<1>2. InOrder(codes) = u[n]
  BY DEF InOrder, UpTo
<1> HIDE DEF n
<1>3. \E f : UpTo(f, n, codes)
  BY <1>1, Concatenations
<1>4. UpTo(u, n, codes)
  BY <1>3
<1> HIDE DEF u
<1> DEFINE W(v, k) == IF k = 0 THEN <<>> ELSE v[k - 1] \o codes[k]
<1>5. \A k \in 0..n : u[k] = W(u, k)
  <2>1. u = [k \in 0..n |-> W(u, k)]
    BY <1>4 DEF UpTo
  <2> HIDE DEF W
  <2> QED
    BY <2>1
<1>6. 0 \in 0..n /\ \A k \in 1..n : k \in 0..n /\ k # 0
  BY <1>1
<1>7. u[0] = <<>> /\ \A k \in 1..n : u[k] = u[k - 1] \o codes[k]
  BY <1>5, <1>6
<1> QED
  BY <1>2, <1>7 DEF n

\* The two codes of a concatenation as sequences over one set.
LEMMA CommonSet ==
  ASSUME NEW c, NEW d, IsCode(c), IsCode(d)
  PROVE  \E S : c \in Seq(S) /\ d \in Seq(S)
<1>1. PICK S : c \in Seq(S)
  BY DEF IsCode
<1>2. PICK T : d \in Seq(T)
  BY DEF IsCode
<1>3. c \in Seq(S \union T) /\ d \in Seq(S \union T)
  BY <1>1, <1>2
<1> QED
  BY <1>3

LEMMA DoesNothing ==
  ASSUME NEW fp, NEW p \in Nat PROVE Does(<<>>, p, p, fp)
<1> DEFINE ph == [i \in 0..0 |-> p]
<1>1. <<>> \in Seq({}) /\ Len(<<>>) = 0
  OBVIOUS
<1>2. Phases(<<>>, ph, p, p) /\ Stays(<<>>, ph, fp)
  BY <1>1 DEF Phases, Stays
<1> QED
  BY <1>1, <1>2 DEF Does, IsCode

\* One instruction.
LEMMA DoesOne ==
  ASSUME NEW fp, NEW p \in Nat, NEW x, IsAccess(x) => Within(x, fp[p]), x.op # "barrier"
  PROVE  Does(<<x>>, p, p, fp)
<1> DEFINE ph == [i \in 0..1 |-> p]
<1>1. <<x>> \in Seq({x}) /\ Len(<<x>>) = 1 /\ <<x>>[1] = x
  OBVIOUS
<1>2. Phases(<<x>>, ph, p, p)
  BY <1>1 DEF Phases
<1>3. Stays(<<x>>, ph, fp)
  BY <1>1 DEF Stays
<1> QED
  BY <1>1, <1>2, <1>3 DEF Does, IsCode

LEMMA DoesSync ==
  ASSUME NEW fp, NEW p \in Nat PROVE Does(SyncThreads, p, p + 1, fp)
<1> DEFINE ph == [i \in 0..1 |-> p + i]
           c  == SyncThreads
<1>1. IsCode(c) /\ Len(c) = 1 /\ c[1].op = "barrier"
  <2> DEFINE x == [op |-> "barrier", to |-> <<"none", 0, 0>>, from |-> <<>>]
  <2>1. <<x>> \in Seq({x}) /\ Len(<<x>>) = 1 /\ <<x>>[1].op = "barrier"
    OBVIOUS
  <2> HIDE DEF x
  <2> QED
    BY <2>1 DEF IsCode, SyncThreads, x
<1> HIDE DEF c
<1>2. Phases(c, ph, p, p + 1)
  BY <1>1 DEF Phases
<1>3. Stays(c, ph, fp)
  BY <1>1 DEF Stays, IsAccess
<1> QED
  BY <1>1, <1>2, <1>3 DEF Does, c

LEMMA DoesBoth ==
  ASSUME NEW fp, NEW c, NEW d, NEW p, NEW q, NEW r, Does(c, p, q, fp), Does(d, q, r, fp)
  PROVE  Does(c \o d, p, r, fp)
<1>1. PICK S : c \in Seq(S) /\ d \in Seq(S)
  BY CommonSet DEF Does
<1>2. PICK f : Phases(c, f, p, q) /\ Stays(c, f, fp)
  BY DEF Does
<1>3. PICK g : Phases(d, g, q, r) /\ Stays(d, g, fp)
  BY DEF Does
<1> DEFINE m == Len(c)
           n == Len(d)
           e == c \o d
           ph == [i \in 0..(m + n) |-> IF i <= m THEN f[i] ELSE g[i - m]]
<1>4. /\ e \in Seq(S) /\ Len(e) = m + n /\ m \in Nat /\ n \in Nat
      /\ \A i \in 1..m : e[i] = c[i]
      /\ \A i \in 1..n : e[m + i] = d[i]
  BY <1>1, ConcatenationIs
<1> HIDE DEF e
<1>5. f \in [0..m -> Nat] /\ g \in [0..n -> Nat] /\ f[0] = p /\ f[m] = q /\ g[0] = q /\ g[n] = r
  BY <1>2, <1>3 DEF Phases
<1>6. /\ ph \in [0..(m + n) -> Nat] /\ ph[0] = p /\ ph[m + n] = r
      /\ \A i \in 0..m : ph[i] = f[i]
      /\ \A i \in 0..n : ph[m + i] = g[i]
  BY <1>4, <1>5
<1> HIDE DEF ph, m, n
<1>7. ASSUME NEW i \in 1..(m + n)
      PROVE  /\ ph[i] = ph[i - 1] + (IF e[i].op = "barrier" THEN 1 ELSE 0)
             /\ IsAccess(e[i]) => Within(e[i], fp[ph[i - 1]])
  <2>1. CASE i <= m
    <3>1. i \in 1..m /\ i \in 0..m /\ i - 1 \in 0..m
      BY <1>4, <2>1
    <3>2. e[i] = c[i] /\ ph[i] = f[i] /\ ph[i - 1] = f[i - 1]
      BY <1>4, <1>6, <3>1
    <3> QED
      BY <1>2, <3>1, <3>2 DEF Phases, Stays, m
  <2>2. CASE i > m
    <3> DEFINE j == i - m
    <3>1. j \in 1..n /\ j \in 0..n /\ j - 1 \in 0..n /\ i = m + j /\ i - 1 = m + (j - 1)
      BY <1>4, <2>2
    <3> HIDE DEF j
    <3>2. e[i] = d[j] /\ ph[i] = g[j] /\ ph[i - 1] = g[j - 1]
      BY <1>4, <1>6, <3>1
    <3> QED
      BY <1>3, <3>1, <3>2 DEF Phases, Stays, n
  <2> QED
    BY <1>4, <2>1, <2>2
<1>8. Phases(e, ph, p, r) /\ Stays(e, ph, fp)
  BY <1>4, <1>6, <1>7 DEF Phases, Stays
<1> QED
  BY <1>4, <1>8 DEF Does, IsCode, e

\* Pieces of code that each stay in a phase.
LEMMA DoesInOrder ==
  ASSUME NEW fp, NEW p \in Nat, NEW codes, IsCode(codes),
         \A k \in 1..Len(codes) : Does(codes[k], p, p, fp)
  PROVE  Does(InOrder(codes), p, p, fp)
<1> DEFINE n == Len(codes)
           S == UNION {Range(codes[k]) : k \in 1..n}
<1>1. n \in Nat
  BY DEF IsCode
<1>2. codes \in Seq(Seq(S))
  <2>1. \A k \in 1..n : codes[k] \in Seq(S)
    <3> TAKE k \in 1..n
    <3>1. PICK R : codes[k] \in Seq(R)
      BY DEF Does, IsCode
    <3>2. \A i \in 1..Len(codes[k]) : codes[k][i] \in S
      BY <3>1 DEF Range
    <3> HIDE DEF S
    <3> QED
      BY <3>1, <3>2
  <2> HIDE DEF S
  <2> QED
    BY <1>1, <2>1 DEF IsCode
<1> HIDE DEF S
<1>3. PICK u : /\ InOrder(codes) = u[n] /\ u[0] = <<>>
               /\ \A k \in 1..n : u[k] = u[k - 1] \o codes[k]
  BY <1>2, InOrderDef
<1> DEFINE T == {k \in Nat : k <= n => Does(u[k], p, p, fp)}
<1>4. 0 \in T
  BY <1>3, DoesNothing
<1>5. ASSUME NEW k \in T PROVE k + 1 \in T
  <2>1. CASE k + 1 <= n
    <3>1. k + 1 \in 1..n /\ k <= n /\ (k + 1) - 1 = k
      BY <1>1, <2>1
    <3>2. u[k + 1] = u[k] \o codes[k + 1]
      BY <1>3, <3>1
    <3>3. Does(u[k + 1], p, p, fp)
      BY <3>1, <3>2, DoesBoth
    <3> QED
      BY <3>3
  <2> QED
    BY <2>1
<1> HIDE DEF T
<1>6. T = Nat
  <2>1. T \in SUBSET Nat
    BY DEF T
  <2> QED
    BY <1>4, <1>5, <2>1, SetInduction
<1>7. n \in T
  BY <1>1, <1>6
<1> QED
  BY <1>1, <1>3, <1>7 DEF T


LEMMA DoesWhen ==
  ASSUME NEW fp, NEW p \in Nat, NEW test, NEW c, test => Does(c, p, p, fp)
  PROVE  Does(When(test, c), p, p, fp)
<1>1. CASE test
  BY <1>1 DEF When
<1>2. CASE ~test
  <2>1. When(test, c) = <<>>
    BY <1>2 DEF When
  <2> QED
    BY <2>1, DoesNothing
<1> QED
  BY <1>1, <1>2

LEMMA DoesPut ==
  ASSUME NEW fp, NEW p \in Nat, NEW to, NEW from, fp[p].op = "put", to \in fp[p].to,
         \A i \in DOMAIN from : from[i][1] = "in" \/ from[i] \in fp[p].from
  PROVE  Does(Put(to, from), p, p, fp)
<1> DEFINE x == [op |-> "put", to |-> to, from |-> from]
<1>1. x.op = "put" /\ x.to = to /\ x.from = from
  OBVIOUS
<1>2. Put(to, from) = <<x>>
  BY DEF Put
<1> HIDE DEF x
<1>3. IsAccess(x) => Within(x, fp[p])
  BY <1>1 DEF Within
<1> QED
  BY <1>1, <1>2, <1>3, DoesOne

LEMMA DoesAdd ==
  ASSUME NEW fp, NEW p \in Nat, NEW to, NEW from, fp[p].op = "add"
  PROVE  Does(AtomicAdd(to, from), p, p, fp)
<1> DEFINE x == [op |-> "add", to |-> to, from |-> <<to>> \o from]
<1>1. x.op = "add"
  OBVIOUS
<1>2. AtomicAdd(to, from) = <<x>>
  BY DEF AtomicAdd
<1> HIDE DEF x
<1>3. IsAccess(x) => Within(x, fp[p])
  BY <1>1 DEF Within
<1> QED
  BY <1>1, <1>2, <1>3, DoesOne

LEMMA DoesShuffle ==
  ASSUME NEW fp, NEW p \in Nat, NEW reg, NEW n
  PROVE  Does(ShuffleDown(reg, n), p, p, fp)
<1> DEFINE x == [op |-> "shuffle", to |-> reg, from |-> <<reg>>, delta |-> n]
<1>1. x.op = "shuffle"
  OBVIOUS
<1>2. ShuffleDown(reg, n) = <<x>>
  BY DEF ShuffleDown
<1> HIDE DEF x
<1> QED
  BY <1>1, <1>2, DoesOne DEF IsAccess

\* A loop whose every pass stays in a phase.
LEMMA DoesLoop ==
  ASSUME NEW fp, NEW p \in Nat, NEW n \in Nat, NEW codes, codes = [k \in 1..n |-> codes[k]],
         \A k \in 1..n : Does(codes[k], p, p, fp)
  PROVE  Does(InOrder(codes), p, p, fp)
<1>1. codes \in Seq({codes[k] : k \in 1..n}) /\ Len(codes) = n
  OBVIOUS
<1> QED
  BY <1>1, DoesInOrder DEF IsCode

\* Accesses of footprints that are apart do not collide.
LEMMA ApartDoNotCollide ==
  ASSUME NEW x, NEW y, NEW f, NEW g, IsAccess(x), IsAccess(y),
         Within(x, f), Within(y, g), Apart(f, g)
  PROVE  ~Collide(x, y)
<1>1. CASE f.op = "add" /\ g.op = "add"
  BY <1>1 DEF Within, Collide
<1>2. CASE ~(f.op = "add" /\ g.op = "add")
  <2>1. /\ x.to \in f.to /\ y.to \in g.to
        /\ \A i \in DOMAIN x.from : x.from[i][1] = "in" \/ x.from[i] \in f.from
        /\ \A i \in DOMAIN y.from : y.from[i][1] = "in" \/ y.from[i] \in g.from
        /\ f.to \cap g.to = {} /\ f.to \cap g.from = {} /\ f.from \cap g.to = {}
        /\ x.to[1] # "in" /\ y.to[1] # "in"
    BY <1>2 DEF Within, Apart
  <2>2. x.to # y.to
    BY <2>1
  <2>3. x.to \notin Range(y.from)
    BY <2>1 DEF Range
  <2>4. y.to \notin Range(x.from)
    BY <2>1 DEF Range
  <2> QED
    BY <2>2, <2>3, <2>4 DEF Collide
<1> QED
  BY <1>1, <1>2

\* The footprints FP of the threads of a kernel show that it has no races.
LEMMA Footprints ==
  ASSUME NEW k, NEW FP, NEW q,
         \A th \in DOMAIN k.code : Does(k.code[th], 0, q, FP[th]),
         \A s, t \in DOMAIN k.code : \A m, n \in Nat :
           s # t /\ (s[1] = t[1] => m = n) => Apart(FP[s][m], FP[t][n])
  PROVE  RaceFree(k)
<1> DEFINE Good(th, h) == Phases(k.code[th], h, 0, q) /\ Stays(k.code[th], h, FP[th])
           ph == [th \in DOMAIN k.code |-> CHOOSE h : Good(th, h)]
<1>1. ASSUME NEW th \in DOMAIN k.code PROVE IsCode(k.code[th]) /\ Good(th, ph[th])
  <2>1. IsCode(k.code[th]) /\ \E h : Good(th, h)
    BY DEF Does
  <2> HIDE DEF Good
  <2> QED
    BY <2>1
<1> HIDE DEF ph
<1>2. NoneCollide(k, ph)
  <2> SUFFICES ASSUME NEW s \in DOMAIN k.code, NEW t \in DOMAIN k.code,
                      NEW i \in 1..Len(k.code[s]), NEW j \in 1..Len(k.code[t]),
                      s # t, IsAccess(k.code[s][i]), IsAccess(k.code[t][j]),
                      s[1] = t[1] => ph[s][i - 1] = ph[t][j - 1]
               PROVE  ~Collide(k.code[s][i], k.code[t][j])
    BY DEF NoneCollide
  <2>1. /\ Within(k.code[s][i], FP[s][ph[s][i - 1]])
        /\ Within(k.code[t][j], FP[t][ph[t][j - 1]])
    BY <1>1 DEF Stays
  <2>2. ph[s][i - 1] \in Nat /\ ph[t][j - 1] \in Nat
    <3>1. Len(k.code[s]) \in Nat /\ Len(k.code[t]) \in Nat
      BY <1>1 DEF IsCode
    <3>2. i - 1 \in 0..Len(k.code[s]) /\ j - 1 \in 0..Len(k.code[t])
      BY <3>1
    <3> QED
      BY <1>1, <3>2 DEF Phases
  <2> QED
    BY <2>1, <2>2, ApartDoNotCollide
<1> QED
  BY <1>1, <1>2 DEF RaceFree

(***************************************************************************)
(* Arithmetic of launches.                                                 *)
(***************************************************************************)

LEMMA DivMod ==
  ASSUME NEW a \in Nat, NEW n \in Nat \ {0}
  PROVE  /\ a = n * (a \div n) + (a % n) /\ a % n \in 0..n - 1 /\ a % n \in Nat
         /\ a \div n \in Nat
OBVIOUS

\* A number has one way to be written as a row and a column.
LEMMA OneWay ==
  ASSUME NEW n \in Nat, NEW a \in Int, NEW c \in Int,
         NEW b \in 0..n - 1, NEW d \in 0..n - 1, a * n + b = c * n + d
  PROVE  a = c /\ b = d
OBVIOUS

InRow(n, a, b) == a * n + b

LEMMA OneRow ==
  ASSUME NEW n \in Nat, NEW a \in Int, NEW c \in Int,
         NEW b \in 0..n - 1, NEW d \in 0..n - 1, InRow(n, a, b) = InRow(n, c, d)
  PROVE  a = c /\ b = d
BY OneWay DEF InRow

LEMMA DivModOf ==
  ASSUME NEW n \in Nat, NEW a \in Nat, NEW b \in 0..n - 1
  PROVE  a * n + b \in Nat /\ (a * n + b) % n = b /\ (a * n + b) \div n = a
OBVIOUS

LEMMA Product == ASSUME NEW a \in Nat, NEW b \in Nat PROVE a * b \in Nat
OBVIOUS

LEMMA ModStep ==
  ASSUME NEW n \in Nat \ {0}, NEW a \in Nat, NEW b \in Nat
  PROVE  a + b * n \in Nat /\ (a + b * n) % n = a % n
<1> DEFINE q == a \div n
           r == a % n
<1>1. q \in Nat /\ r \in 0..n - 1 /\ a = n * q + r
  BY DivMod
<1> HIDE DEF q
<1> HIDE DEF r
<1>2. a + b * n = (q + b) * n + r /\ q + b \in Nat
  BY <1>1
<1>3. a + b * n \in Nat /\ (a + b * n) % n = r
  BY <1>1, <1>2, DivModOf
<1> QED
  BY <1>3 DEF r

\* A product of numbers is less than that of their bounds.
LEMMA RowAndColumn ==
  ASSUME NEW m \in Nat, NEW n \in Nat, NEW a \in 0..m - 1, NEW b \in 0..n - 1
  PROVE  a * n + b \in 0..m * n - 1
<1>1. a * n + b \in Nat /\ m * n \in Int
  BY DivModOf
<1>2. (m - 1 - a) * n >= 0
  OBVIOUS
<1>3. (m - 1 - a) * n = m * n - n - a * n
  OBVIOUS
<1> QED
  BY <1>1, <1>2, <1>3

LEMMA DivUpIs ==
  ASSUME NEW a \in Nat, NEW n \in Nat \ {0}
  PROVE  DivUp(a, n) \in Nat /\ (a > 0 => DivUp(a, n) > 0) /\ a <= n * DivUp(a, n)
                             /\ (a > 0 => n * (DivUp(a, n) - 1) < a)
<1>1. a + n - 1 \in Nat
  OBVIOUS
<1> DEFINE c == a + n - 1
           q == c \div n
           r == c % n
<1>2. c = n * q + r /\ r \in 0..n - 1 /\ q \in Nat
  BY <1>1, DivMod
<1>3. DivUp(a, n) = q
  BY DEF DivUp
<1> HIDE DEF q
<1> HIDE DEF r
<1>4. n * q = a + n - 1 - r /\ n * (q - 1) = n * q - n
  BY <1>2
<1>5. a > 0 => q > 0
  <2>1. q = 0 => n * q = 0
    OBVIOUS
  <2> QED
    BY <1>2, <1>4, <2>1
<1> QED
  BY <1>2, <1>3, <1>4, <1>5

\* The elements of a loop.
IsLoop(s, n, first, step, bound) ==
  /\ s = [k \in 1..n |-> s[k]] /\ DOMAIN s = 1..n
  /\ \A k \in 1..n : s[k] \in 0..bound - 1 /\ s[k] \in Nat /\ s[k] % step = first % step

LEMMA LoopIs ==
  ASSUME NEW first \in Nat, NEW step \in Nat \ {0}, NEW bound \in Nat
  PROVE  \E n \in Nat : IsLoop(Loop(first, step, bound), n, first, step, bound)
<1> DEFINE n == IF first < bound THEN DivUp(bound - first, step) ELSE 0
           s == Loop(first, step, bound)
<1>1. n \in Nat
  BY DivUpIs
<1>2. s = [k \in 1..n |-> first + (k - 1) * step]
  BY DEF Loop
<1>3. ASSUME NEW k \in 1..n
      PROVE  s[k] = first + (k - 1) * step /\ s[k] < bound /\ s[k] \in Nat /\ s[k] % step = first % step
  <2>1. s[k] = first + (k - 1) * step
    BY <1>2
  <2>2. first < bound /\ n = DivUp(bound - first, step) /\ bound - first \in Nat /\ bound - first > 0
    BY <1>3
  <2>3. step * (n - 1) < bound - first
    BY <2>2, DivUpIs
  <2> HIDE DEF n
  <2>4. k - 1 \in Nat /\ n - 1 \in Nat /\ n - k >= 0
    BY <1>1
  <2>5. (n - k) * step >= 0 /\ (n - k) * step = step * (n - 1) - (k - 1) * step /\ (k - 1) * step \in Nat
    BY <1>1, <2>4
  <2>6. step * (n - 1) \in Int
    BY <2>4
  <2>7. first + (k - 1) * step < bound
    BY <2>3, <2>5, <2>6
  <2> QED
    BY <2>1, <2>4, <2>7, ModStep
<1> HIDE DEF n
<1> HIDE DEF s
<1>4. DOMAIN s = 1..n /\ s = [k \in 1..n |-> s[k]]
  BY <1>2
<1>5. \A k \in 1..n : s[k] \in 0..bound - 1 /\ s[k] \in Nat /\ s[k] % step = first % step
  BY <1>3
<1> QED
  BY <1>1, <1>4, <1>5 DEF s, IsLoop

\* The place of a thread in a launch, and that no other thread has it.
InLaunch(g, b, t) ==
  /\ g.grid[1] \in Nat /\ g.grid[2] \in Nat /\ g.block[1] \in Nat /\ g.block[2] \in Nat
  /\ b \in 0..g.grid[1] * g.grid[2] - 1 /\ t \in 0..g.block[1] * g.block[2] - 1

LEMMA Place ==
  ASSUME NEW m \in Nat, NEW n \in Nat, NEW a \in 0..m * n - 1
  PROVE  /\ m # 0 /\ a % m \in 0..m - 1 /\ a \div m \in 0..n - 1
         /\ a = (a \div m) * m + (a % m)
<1>1. m # 0
  <2>1. m = 0 => m * n = 0
    OBVIOUS
  <2> QED
    BY <2>1
<1>a. m * n \in Nat /\ a \in Nat
  BY Product
<1> DEFINE q == a \div m
           r == a % m
<1>2. a = m * q + r /\ r \in 0..m - 1 /\ q \in Nat
  BY <1>1, <1>a, DivMod
<1> HIDE DEF q
<1> HIDE DEF r
<1>3. q < n
  <2>1. SUFFICES ASSUME q >= n PROVE FALSE
    BY <1>2
  <2>2. m * (q - n) >= 0 /\ m * (q - n) = m * q - m * n /\ m * q \in Int /\ m * n \in Int
    BY <1>2, <2>1
  <2> QED
    BY <1>2, <2>2
<1>4. a = q * m + r
  BY <1>2
<1> QED
  BY <1>1, <1>2, <1>3, <1>4 DEF q, r

LEMMA ThreadPlace ==
  ASSUME NEW g, NEW b, NEW t, InLaunch(g, b, t)
  PROVE  /\ ThreadAt(g, b, t).id = <<b, t>> /\ ThreadAt(g, b, t).b = b /\ ThreadAt(g, b, t).t = t
         /\ ThreadAt(g, b, t).bx \in 0..g.grid[1] - 1 /\ ThreadAt(g, b, t).by \in 0..g.grid[2] - 1
         /\ ThreadAt(g, b, t).tx \in 0..g.block[1] - 1 /\ ThreadAt(g, b, t).ty \in 0..g.block[2] - 1
         /\ b = ThreadAt(g, b, t).by * g.grid[1] + ThreadAt(g, b, t).bx
         /\ t = ThreadAt(g, b, t).ty * g.block[1] + ThreadAt(g, b, t).tx
<1> DEFINE th == ThreadAt(g, b, t)
           m == g.grid[1]
           n == g.grid[2]
           c == g.block[1]
           d == g.block[2]
<1>1. /\ th.id = <<b, t>> /\ th.b = b /\ th.t = t /\ th.bx = b % m /\ th.by = b \div m
      /\ th.tx = t % c /\ th.ty = t \div c
  BY DEF ThreadAt
<1>2. m \in Nat /\ n \in Nat /\ c \in Nat /\ d \in Nat /\ b \in 0..m * n - 1 /\ t \in 0..c * d - 1
  BY DEF InLaunch
<1> HIDE DEF th, m, n, c, d
<1>3. b % m \in 0..m - 1 /\ b \div m \in 0..n - 1 /\ b = (b \div m) * m + (b % m)
  BY <1>2, Place
<1>4. t % c \in 0..c - 1 /\ t \div c \in 0..d - 1 /\ t = (t \div c) * c + (t % c)
  BY <1>2, Place
<1>5. th.bx \in 0..m - 1 /\ th.by \in 0..n - 1 /\ b = th.by * m + th.bx
  BY <1>1, <1>3
<1>6. th.tx \in 0..c - 1 /\ th.ty \in 0..d - 1 /\ t = th.ty * c + th.tx
  BY <1>1, <1>4
<1> QED
  BY <1>1, <1>5, <1>6 DEF th, m, n, c, d

LEMMA GridPlace ==
  ASSUME NEW g, NEW b, NEW t, InLaunch(g, b, t)
  PROVE  /\ GridWidth(g) \in Nat \ {0} /\ GridHeight(g) \in Nat \ {0}
         /\ X(g, ThreadAt(g, b, t)) \in 0..GridWidth(g) - 1
         /\ Y(g, ThreadAt(g, b, t)) \in 0..GridHeight(g) - 1
<1> DEFINE th == ThreadAt(g, b, t)
<1>1. /\ th.bx \in 0..g.grid[1] - 1 /\ th.by \in 0..g.grid[2] - 1
      /\ th.tx \in 0..g.block[1] - 1 /\ th.ty \in 0..g.block[2] - 1
  BY ThreadPlace
<1> HIDE DEF th
<1>2. g.grid[1] \in Nat /\ g.grid[2] \in Nat /\ g.block[1] \in Nat /\ g.block[2] \in Nat
  BY DEF InLaunch
<1>3. th.bx * g.block[1] + th.tx \in 0..g.grid[1] * g.block[1] - 1
  BY <1>1, <1>2, RowAndColumn
<1>4. th.by * g.block[2] + th.ty \in 0..g.grid[2] * g.block[2] - 1
  BY <1>1, <1>2, RowAndColumn
<1>5. GridWidth(g) \in Nat /\ GridHeight(g) \in Nat
  BY <1>2, Product DEF GridWidth, GridHeight
<1>6. X(g, th) \in 0..GridWidth(g) - 1 /\ Y(g, th) \in 0..GridHeight(g) - 1
  BY <1>3, <1>4 DEF X, Y, GridWidth, GridHeight
<1> QED
  BY <1>5, <1>6 DEF th

LEMMA PlaceIsOwn ==
  ASSUME NEW g, NEW b, NEW t, NEW c, NEW u, InLaunch(g, b, t), InLaunch(g, c, u),
         X(g, ThreadAt(g, b, t)) = X(g, ThreadAt(g, c, u)),
         Y(g, ThreadAt(g, b, t)) = Y(g, ThreadAt(g, c, u))
  PROVE  b = c /\ t = u
<1> DEFINE v == ThreadAt(g, b, t)
           w == ThreadAt(g, c, u)
<1>1. /\ v.bx \in 0..g.grid[1] - 1 /\ v.by \in 0..g.grid[2] - 1
      /\ v.tx \in 0..g.block[1] - 1 /\ v.ty \in 0..g.block[2] - 1
      /\ w.bx \in 0..g.grid[1] - 1 /\ w.by \in 0..g.grid[2] - 1
      /\ w.tx \in 0..g.block[1] - 1 /\ w.ty \in 0..g.block[2] - 1
  BY ThreadPlace
<1>2. /\ b = v.by * g.grid[1] + v.bx /\ t = v.ty * g.block[1] + v.tx
      /\ c = w.by * g.grid[1] + w.bx /\ u = w.ty * g.block[1] + w.tx
  BY ThreadPlace
<1>3. /\ v.bx * g.block[1] + v.tx = w.bx * g.block[1] + w.tx
      /\ v.by * g.block[2] + v.ty = w.by * g.block[2] + w.ty
  BY DEF X, Y
<1>4. g.grid[1] \in Nat /\ g.grid[2] \in Nat /\ g.block[1] \in Nat /\ g.block[2] \in Nat
  BY DEF InLaunch
<1> HIDE DEF v, w
<1>b. /\ InRow(g.block[1], v.bx, v.tx) = InRow(g.block[1], w.bx, w.tx)
      /\ InRow(g.block[2], v.by, v.ty) = InRow(g.block[2], w.by, w.ty)
  BY <1>3 DEF InRow
<1>5. v.bx = w.bx /\ v.tx = w.tx
  BY <1>1, <1>4, <1>b, OneRow
<1>6. v.by = w.by /\ v.ty = w.ty
  BY <1>1, <1>4, <1>b, OneRow
<1> QED
  BY <1>2, <1>5, <1>6

LEMMA NextFactor ==
  ASSUME NEW n \in Nat, NEW q \in Int, NEW h \in Int, n * q < n * h
  PROVE  q + 1 <= h /\ n * q + n <= n * h
<1>1. n * q \in Int /\ n * h \in Int
  OBVIOUS
<1>2. q < h
  <2>1. SUFFICES ASSUME q >= h PROVE FALSE
    OBVIOUS
  <2>2. n * (q - h) >= 0
    BY <2>1
  <2>3. n * (q - h) = n * q - n * h
    OBVIOUS
  <2> QED
    BY <1>1, <2>2, <2>3
<1>3. n * (h - q - 1) >= 0
  BY <1>2
<1>4. n * (h - q - 1) = n * h - n * q - n
  OBVIOUS
<1> QED
  BY <1>1, <1>2, <1>3, <1>4

\* Of numbers up to a multiple of n, the last n - 1 are not multiples.
LEMMA MultipleBelow ==
  ASSUME NEW n \in Nat \ {0}, NEW m \in Nat, NEW j \in 0..m - 1, NEW t \in 0..n - 1,
         m % n = 0, j % n = 0
  PROVE  t + j \in 0..m - 1 /\ (t + j) % n = t
<1> DEFINE q == j \div n
           h == m \div n
<1>1. j \in Nat
  OBVIOUS
<1>2. j = n * q + (j % n) /\ q \in Nat
  BY <1>1, DivMod
<1>3. m = n * h + (m % n) /\ h \in Nat
  BY DivMod
<1> HIDE DEF q, h
<1>4. j = n * q /\ m = n * h
  <2>1. n * q \in Nat /\ n * h \in Nat
    BY <1>2, <1>3, Product
  <2> QED
    BY <1>2, <1>3, <2>1
<1>5. n * q + n <= n * h
  BY <1>2, <1>3, <1>4, NextFactor
<1>6. j + n <= m
  BY <1>4, <1>5
<1>7. (t + q * n) % n = t % n
  <2>1. t \in Nat /\ q \in Nat
    BY <1>2
  <2> QED
    BY <2>1, ModStep
<1>8. t % n = t /\ t + q * n = t + j
  BY <1>2, <1>4
<1> QED
  BY <1>1, <1>6, <1>7, <1>8

(***************************************************************************)
(* Kernels of one phase, each of whose threads writes elements of its own. *)
(***************************************************************************)

Ids(g) == (0..g.grid[1] * g.grid[2] - 1) \X (0..g.block[1] * g.block[2] - 1)

IsGeometry(g) ==
  g.grid[1] \in Nat /\ g.grid[2] \in Nat /\ g.block[1] \in Nat /\ g.block[2] \in Nat

LEMMA IdsInLaunch ==
  ASSUME NEW g, IsGeometry(g), NEW id \in Ids(g)
  PROVE  InLaunch(g, id[1], id[2]) /\ id = <<id[1], id[2]>>
BY DEF InLaunch, Ids, IsGeometry

\* What a thread whose elements are cells may do.
ToCells(cells) == [p \in Nat |-> Writes({Out(i) : i \in cells}, {})]

LEMMA OwnCells ==
  ASSUME NEW k, NEW Cells,
         \A th \in DOMAIN k.code : Does(k.code[th], 0, 0, ToCells(Cells[th])),
         \A s, t \in DOMAIN k.code : s # t => Cells[s] \cap Cells[t] = {}
  PROVE  RaceFree(k)
<1> DEFINE FP == [th \in DOMAIN k.code |-> ToCells(Cells[th])]
<1>1. \A th \in DOMAIN k.code : FP[th] = ToCells(Cells[th])
  OBVIOUS
<1>2. ASSUME NEW c, NEW d, NEW p \in Nat, NEW q \in Nat, c \cap d = {}
      PROVE  Apart(ToCells(c)[p], ToCells(d)[q])
  <2> DEFINE f == ToCells(c)[p]
             h == ToCells(d)[q]
  <2>1. /\ f.op = "put" /\ f.to = {Out(i) : i \in c} /\ f.from = {}
        /\ h.op = "put" /\ h.to = {Out(i) : i \in d} /\ h.from = {}
    BY DEF ToCells, Writes
  <2> HIDE DEF f, h
  <2>2. \A i, j : Out(i) = Out(j) => i = j
    BY DEF Out
  <2>3. f.to \cap h.to = {}
    BY <1>2, <2>1, <2>2
  <2>4. \A e \in f.to \union h.to : e[1] # "in"
    BY <2>1 DEF Out
  <2>5. Apart(f, h)
    BY <2>1, <2>3, <2>4 DEF Apart
  <2> QED
    BY <2>5 DEF f, h
<1> HIDE DEF FP
<1>3. \A th \in DOMAIN k.code : Does(k.code[th], 0, 0, FP[th])
  BY <1>1
<1>4. \A s, t \in DOMAIN k.code : \A p, q \in Nat :
        s # t /\ (s[1] = t[1] => p = q) => Apart(FP[s][p], FP[t][q])
  <2> SUFFICES ASSUME NEW s \in DOMAIN k.code, NEW t \in DOMAIN k.code,
                      NEW p \in Nat, NEW q \in Nat, s # t
               PROVE  Apart(FP[s][p], FP[t][q])
    OBVIOUS
  <2>1. Cells[s] \cap Cells[t] = {}
    OBVIOUS
  <2>2. Apart(ToCells(Cells[s])[p], ToCells(Cells[t])[q])
    BY <1>2, <2>1
  <2> QED
    BY <1>1, <2>2
<1> QED
  BY <1>3, <1>4, Footprints

\* Elements i of a thread x of a launch of W threads.
Strided(W, x) == {i \in Nat : i % W = x}

LEMMA StridedCells ==
  ASSUME NEW k, NEW g, IsGeometry(g), g.grid[2] = 1, g.block[2] = 1, DOMAIN k.code = Ids(g),
         \A id \in Ids(g) : Does(k.code[id], 0, 0,
                ToCells(Strided(GridWidth(g), X(g, ThreadAt(g, id[1], id[2])))))
  PROVE  RaceFree(k)
<1> DEFINE Cells == [id \in Ids(g) |-> Strided(GridWidth(g), X(g, ThreadAt(g, id[1], id[2])))]
<1>1. \A id \in Ids(g) : Does(k.code[id], 0, 0, ToCells(Cells[id]))
  OBVIOUS
<1>2. ASSUME NEW s \in Ids(g), NEW t \in Ids(g), s # t
      PROVE  Cells[s] \cap Cells[t] = {}
  <2> DEFINE v == ThreadAt(g, s[1], s[2])
             w == ThreadAt(g, t[1], t[2])
  <2>1. InLaunch(g, s[1], s[2]) /\ InLaunch(g, t[1], t[2]) /\ ~(s[1] = t[1] /\ s[2] = t[2])
    BY <1>2, IdsInLaunch
  <2>2. Y(g, v) = 0 /\ Y(g, w) = 0
    <3>1. Y(g, v) \in 0..GridHeight(g) - 1 /\ Y(g, w) \in 0..GridHeight(g) - 1
      BY <2>1, GridPlace
    <3> HIDE DEF v, w
    <3>2. GridHeight(g) = 1
      BY DEF GridHeight
    <3> QED
      BY <3>1, <3>2
  <2>3. X(g, v) # X(g, w)
    BY <2>1, <2>2, PlaceIsOwn
  <2>4. Cells[s] = Strided(GridWidth(g), X(g, v)) /\ Cells[t] = Strided(GridWidth(g), X(g, w))
    OBVIOUS
  <2> HIDE DEF v, w, Cells
  <2> QED
    BY <2>3, <2>4 DEF Strided
<1> HIDE DEF Cells
<1> QED
  BY <1>1, <1>2, OwnCells

LEMMA ElementwiseCode ==
  ASSUME NEW l, NEW g, IsGeometry(g), l.numel \in Nat, NEW id \in Ids(g)
  PROVE  Does(ElementwiseKernel(l, g, ThreadAt(g, id[1], id[2])), 0, 0,
                     ToCells(Strided(GridWidth(g), X(g, ThreadAt(g, id[1], id[2])))))
<1> DEFINE th == ThreadAt(g, id[1], id[2])
           fp == ToCells(Strided(GridWidth(g), X(g, th)))
           from == [k \in 1..l.arity |-> In(k, X(g, th))]
<1>1. X(g, th) \in 0..GridWidth(g) - 1 /\ GridWidth(g) \in Nat \ {0}
  BY IdsInLaunch, GridPlace
<1> HIDE DEF th
<1>2. X(g, th) % GridWidth(g) = X(g, th) /\ X(g, th) \in Nat
  BY <1>1
<1>3. fp[0].op = "put" /\ Out(X(g, th)) \in fp[0].to
  BY <1>2 DEF ToCells, Writes, Strided
<1>4. \A i \in DOMAIN from : from[i][1] = "in"
  BY DEF In
<1> HIDE DEF fp, from
<1>5. Does(Put(Out(X(g, th)), from), 0, 0, fp)
  BY <1>3, <1>4, DoesPut
<1>6. Does(When(X(g, th) < l.numel, Put(Out(X(g, th)), from)), 0, 0, fp)
  BY <1>5, DoesWhen
<1> QED
  BY <1>6 DEF ElementwiseKernel, from, fp, th

\* The geometries of these kernels.
LEMMA LineIs ==
  ASSUME NEW numel \in Nat, NEW block \in Nat \ {0}
  PROVE  /\ IsGeometry(Line(numel, block))
         /\ Line(numel, block).grid[2] = 1 /\ Line(numel, block).block[2] = 1
<1> DEFINE n == DivUp(numel, block)
<1>1. n \in Nat
  BY DivUpIs
<1>2. Line(numel, block) = [grid |-> <<n, 1>>, block |-> <<block, 1>>]
  BY DEF Line, Geometry
<1> HIDE DEF n
<1> QED
  BY <1>1, <1>2 DEF IsGeometry

LEMMA LargerOf ==
  ASSUME NEW a \in Int, NEW b \in Int
  PROVE  Max({a, b}) \in {a, b} /\ Max({a, b}) >= a /\ Max({a, b}) >= b
<1>1. \E x \in {a, b} : \A y \in {a, b} : x >= y
  <2>1. CASE a >= b
    BY <2>1
  <2>2. CASE ~(a >= b)
    BY <2>2
  <2> QED
    BY <2>1, <2>2
<1>2. Max({a, b}) = CHOOSE x \in {a, b} : \A y \in {a, b} : x >= y
  BY DEF Max
<1> QED
  BY <1>1, <1>2

LEMMA SmallerOf ==
  ASSUME NEW a \in Int, NEW b \in Int
  PROVE  Min({a, b}) \in {a, b} /\ Min({a, b}) <= a /\ Min({a, b}) <= b
<1>1. \E x \in {a, b} : \A y \in {a, b} : x =< y
  <2>1. CASE a =< b
    BY <2>1
  <2>2. CASE ~(a =< b)
    BY <2>2
  <2> QED
    BY <2>1, <2>2
<1>2. Min({a, b}) = CHOOSE x \in {a, b} : \A y \in {a, b} : x =< y
  BY DEF Min
<1> QED
  BY <1>1, <1>2

LEMMA DeviceSizes ==
  /\ Device.warp \in Nat \ {0} /\ Device.threads \in Nat \ {0} /\ Device.resident \in Nat \ {0}
  /\ Device.sms \in Nat \ {0} /\ Device.tile \in Nat \ {0} /\ Device.rows \in Nat \ {0}
  /\ Device.grid \in Nat \ {0} /\ Device.block \in Nat \ {0} /\ Device.least \in Nat \ {0}
  /\ Device.gather \in Nat \ {0} /\ Device.fill \in Nat \ {0}
BY DeviceAssumption

(***************************************************************************)
(* Powers of two.                                                          *)
(***************************************************************************)

DoublesTo(power, x) == power = [k \in 0..x |-> IF k = 0 THEN 1 ELSE 2 * power[k - 1]]

LEMMA PowersExist == ASSUME NEW x \in Nat PROVE \E power : DoublesTo(power, x)
<1> DEFINE step == [k \in 1..x |-> [v \in Nat |-> 2 * v]]
<1>1. \A k \in 1..x : \A v \in Nat : step[k][v] = 2 * v /\ step[k][v] \in Nat
  OBVIOUS
<1> HIDE DEF step
<1>2. PICK f \in [0..x -> Nat] : Recursive(f, 1, x, step)
  BY <1>1, Recursion
<1>3. ASSUME NEW k \in 0..x PROVE f[k] = IF k = 0 THEN 1 ELSE 2 * f[k - 1]
  <2>1. CASE k = 0
    BY <1>2, <2>1 DEF Recursive
  <2>2. CASE k # 0
    <3>1. k \in 1..x /\ k - 1 \in 0..x
      BY <2>2
    <3>2. f[k - 1] \in Nat
      BY <1>2, <3>1
    <3> QED
      BY <1>1, <1>2, <2>2, <3>1, <3>2 DEF Recursive
  <2> QED
    BY <2>1, <2>2
<1>4. f = [k \in 0..x |-> IF k = 0 THEN 1 ELSE 2 * f[k - 1]]
  BY <1>2, <1>3
<1> QED
  BY <1>4 DEF DoublesTo

LEMMA PowersAre ==
  ASSUME NEW x \in Nat
  PROVE  \E power \in [0..x -> Nat] :
           /\ PowersOf2(x) = {power[k] : k \in 0..x} /\ power[0] = 1
           /\ \A k \in 1..x : power[k] = 2 * power[k - 1]
           /\ \A k \in 0..x : power[k] > k
<1> DEFINE power == CHOOSE f : DoublesTo(f, x)
<1>1. PowersOf2(x) = {power[k] : k \in 0..x}
  BY DEF PowersOf2, DoublesTo
<1>2. DoublesTo(power, x)
  BY PowersExist
<1> HIDE DEF power
<1> DEFINE W(f, k) == IF k = 0 THEN 1 ELSE 2 * f[k - 1]
<1>3. DOMAIN power = 0..x /\ power = [k \in 0..x |-> power[k]] /\ \A k \in 0..x : power[k] = W(power, k)
  <2>1. power = [k \in 0..x |-> W(power, k)]
    BY <1>2 DEF DoublesTo
  <2> HIDE DEF W
  <2> QED
    BY <2>1
<1>4. power[0] = 1 /\ \A k \in 1..x : power[k] = 2 * power[k - 1]
  <2>1. 0 \in 0..x /\ \A k \in 1..x : k \in 0..x /\ k # 0
    OBVIOUS
  <2> QED
    BY <1>3, <2>1
<1> DEFINE T == {k \in Nat : k <= x => power[k] \in Nat /\ power[k] > k}
<1>5. 0 \in T
  BY <1>4
<1>6. ASSUME NEW k \in T PROVE k + 1 \in T
  <2>1. CASE k + 1 <= x
    <3>1. k \in Nat /\ power[k] \in Nat /\ power[k] > k /\ k + 1 \in 1..x
      BY <2>1
    <3>2. power[k + 1] = 2 * power[k]
      BY <1>4, <3>1
    <3> QED
      BY <3>1, <3>2
  <2> QED
    BY <2>1
<1> HIDE DEF T
<1>7. T = Nat
  <2>1. T \in SUBSET Nat
    BY DEF T
  <2> QED
    BY <1>5, <1>6, <2>1, SetInduction
<1>8. \A k \in 0..x : power[k] \in Nat /\ power[k] > k
  BY <1>7 DEF T
<1>9. power \in [0..x -> Nat]
  BY <1>3, <1>8
<1> QED
  BY <1>1, <1>4, <1>8, <1>9

\* There is a power of two not above x, and one not below it.
LEMMA PowerBelow ==
  ASSUME NEW x \in Nat \ {0}
  PROVE  \E p \in PowersOf2(x) : p \in Nat \ {0} /\ p <= x /\ x < 2 * p
<1>1. PICK power \in [0..x -> Nat] :
           /\ PowersOf2(x) = {power[k] : k \in 0..x} /\ power[0] = 1
           /\ \A k \in 1..x : power[k] = 2 * power[k - 1]
           /\ \A k \in 0..x : power[k] > k
  BY PowersAre
<1> DEFINE Found == \E k \in 0..x : power[k] <= x /\ x < 2 * power[k]
           T == {k \in Nat : k <= x => Found \/ power[k] <= x}
<1>2. 0 \in T
  BY <1>1
<1>3. ASSUME NEW k \in T PROVE k + 1 \in T
  <2>1. CASE k + 1 <= x /\ ~Found
    <3>1. k \in 0..x /\ k + 1 \in 1..x /\ power[k] <= x
      BY <2>1
    <3>2. power[k + 1] = 2 * power[k] /\ power[k] \in Nat /\ power[k + 1] \in Nat
      BY <1>1, <3>1
    <3>3. ~(x < 2 * power[k])
      BY <2>1, <3>1
    <3> QED
      BY <3>2, <3>3
  <2> QED
    BY <2>1
<1> HIDE DEF T
<1>4. T = Nat
  <2>1. T \in SUBSET Nat
    BY DEF T
  <2> QED
    BY <1>2, <1>3, <2>1, SetInduction
<1>5. Found \/ power[x] <= x
  BY <1>4 DEF T
<1>6. power[x] > x /\ power[x] \in Nat
  BY <1>1
<1>7. Found
  BY <1>5, <1>6
<1>8. PICK k \in 0..x : power[k] <= x /\ x < 2 * power[k]
  BY <1>7
<1>9. power[k] \in PowersOf2(x) /\ power[k] \in Nat \ {0}
  BY <1>1
<1> QED
  BY <1>8, <1>9

LEMMA PowerAbove ==
  ASSUME NEW x \in Nat \ {0}
  PROVE  \E p \in PowersOf2(x) : p \in Nat \ {0} /\ x <= p /\ p < 2 * x
<1>1. PICK power \in [0..x -> Nat] :
           /\ PowersOf2(x) = {power[k] : k \in 0..x} /\ power[0] = 1
           /\ \A k \in 1..x : power[k] = 2 * power[k - 1]
           /\ \A k \in 0..x : power[k] > k
  BY PowersAre
<1> DEFINE Found == \E k \in 0..x : x <= power[k] /\ power[k] < 2 * x
           T == {k \in Nat : k <= x => Found \/ power[k] < x}
<1>2. 0 \in T
  <2>1. CASE x = 1
    BY <1>1, <2>1
  <2>2. CASE x # 1
    BY <1>1, <2>2
  <2> QED
    BY <2>1, <2>2
<1>3. ASSUME NEW k \in T PROVE k + 1 \in T
  <2>1. CASE k + 1 <= x /\ ~Found
    <3>1. k \in 0..x /\ k + 1 \in 1..x /\ k + 1 \in 0..x /\ power[k] < x
      BY <2>1
    <3>2. power[k + 1] = 2 * power[k] /\ power[k] \in Nat /\ power[k + 1] \in Nat
      BY <1>1, <3>1
    <3>3. ~(x <= power[k + 1] /\ power[k + 1] < 2 * x)
      BY <2>1, <3>1
    <3> QED
      BY <3>1, <3>2, <3>3
  <2> QED
    BY <2>1
<1> HIDE DEF T
<1>4. T = Nat
  <2>1. T \in SUBSET Nat
    BY DEF T
  <2> QED
    BY <1>2, <1>3, <2>1, SetInduction
<1>5. Found \/ power[x] < x
  BY <1>4 DEF T
<1>6. power[x] > x /\ power[x] \in Nat
  BY <1>1
<1>7. Found
  BY <1>5, <1>6
<1>8. PICK k \in 0..x : x <= power[k] /\ power[k] < 2 * x
  BY <1>7
<1>9. power[k] \in PowersOf2(x) /\ power[k] \in Nat \ {0}
  BY <1>1
<1> QED
  BY <1>8, <1>9

LEMMA NextPow2Is == ASSUME NEW x \in Nat PROVE NextPow2(x) \in Nat
<1>1. CASE x = 0
  BY <1>1 DEF NextPow2
<1>2. CASE x # 0
  <2>1. \E p \in PowersOf2(x) : x <= p /\ p < 2 * x
    BY <1>2, PowerAbove
  <2>2. NextPow2(x) = CHOOSE p \in PowersOf2(x) : x <= p /\ p < 2 * x
    BY <1>2 DEF NextPow2
  <2>3. NextPow2(x) \in PowersOf2(x)
    BY <2>1, <2>2
  <2>4. PICK power \in [0..x -> Nat] : PowersOf2(x) = {power[k] : k \in 0..x}
    BY PowersAre
  <2> QED
    BY <2>3, <2>4
<1> QED
  BY <1>1, <1>2

LEMMA ElementwiseIs ==
  ASSUME NEW l, l.numel \in Nat
  PROVE  /\ IsGeometry(ElementwiseGeometry(l))
         /\ ElementwiseGeometry(l).grid[2] = 1 /\ ElementwiseGeometry(l).block[2] = 1
<1> DEFINE few  == l.numel \div (2 * Device.sms)
           many == l.numel \div (4 * Device.sms)
           num  == CASE few < Device.threads  -> NextPow2(few)
                     [] few >= Device.threads /\ many < Device.threads -> NextPow2(many)
                     [] OTHER -> Device.threads
<1>1. 2 * Device.sms \in Nat \ {0} /\ 4 * Device.sms \in Nat \ {0}
  BY DeviceSizes
<1>2. few \in Nat /\ many \in Nat
  BY <1>1, DivMod
<1> HIDE DEF few, many
<1>3. NextPow2(few) \in Nat /\ NextPow2(many) \in Nat
  BY <1>2, NextPow2Is
<1>4. num \in Nat
  BY <1>3, DeviceSizes
<1>5. ElementwiseGeometry(l) = Line(l.numel, Max({Device.least, num}))
  BY DEF ElementwiseGeometry, few, many
<1> HIDE DEF num
<1>6. Max({Device.least, num}) \in Nat \ {0}
  <2>1. Max({Device.least, num}) >= Device.least /\ Max({Device.least, num}) \in {Device.least, num}
    <3>1. num \in Int /\ Device.least \in Int
      BY <1>4, DeviceSizes
    <3> QED
      BY <3>1, LargerOf
  <2> QED
    BY <1>4, <2>1, DeviceSizes
<1> QED
  BY <1>5, <1>6, LineIs

LEMMA ElementwiseHasNoRace ==
  ASSUME NEW l, Supported(l), l.kernel = "elementwise"
  PROVE  RaceFree(Kernel(l))
<1> DEFINE g == ElementwiseGeometry(l)
           k == Kernel(l)
<1>1. l.numel \in Nat
  BY DEF Supported
<1>2. k.code = [id \in Ids(g) |-> ElementwiseKernel(l, g, ThreadAt(g, id[1], id[2]))]
  BY DEF Kernel, Ids
<1> HIDE DEF k
<1>3. IsGeometry(g) /\ g.grid[2] = 1 /\ g.block[2] = 1
  BY <1>1, ElementwiseIs
<1> HIDE DEF g
<1>4. \A id \in Ids(g) : Does(k.code[id], 0, 0, ToCells(Strided(GridWidth(g), X(g, ThreadAt(g, id[1], id[2])))))
  BY <1>1, <1>2, <1>3, ElementwiseCode
<1>5. DOMAIN k.code = Ids(g)
  BY <1>2
<1> QED
  BY <1>3, <1>4, <1>5, StridedCells DEF k

LEMMA FillHasNoRace ==
  ASSUME NEW l, Supported(l), l.kernel = "fill"
  PROVE  RaceFree(Kernel(l))
<1> DEFINE g == FillGeometry(l)
           k == Kernel(l)
<1>1. l.numel \in Nat
  BY DEF Supported
<1>2. k.code = [id \in Ids(g) |-> ElementwiseKernel(l, g, ThreadAt(g, id[1], id[2]))]
  BY DEF Kernel, Ids
<1> HIDE DEF k
<1>3. IsGeometry(g) /\ g.grid[2] = 1 /\ g.block[2] = 1
  BY <1>1, DeviceSizes, LineIs DEF FillGeometry
<1> HIDE DEF g
<1>4. \A id \in Ids(g) : Does(k.code[id], 0, 0, ToCells(Strided(GridWidth(g), X(g, ThreadAt(g, id[1], id[2])))))
  BY <1>1, <1>2, <1>3, ElementwiseCode
<1>5. DOMAIN k.code = Ids(g)
  BY <1>2
<1> QED
  BY <1>3, <1>4, <1>5, StridedCells DEF k

(***************************************************************************)
(* Sums and products over the dimensions of a tensor.                      *)
(***************************************************************************)

\* f sums s up: f[k] is the sum of the first k elements.
Sums(f, s) == f = [k \in 0..Len(s) |-> IF k = 0 THEN 0 ELSE f[k - 1] + s[k]]

LEMMA SumsExist == ASSUME NEW s \in Seq(Int) PROVE \E f \in [0..Len(s) -> Int] : Sums(f, s)
<1> DEFINE n == Len(s)
           step == [k \in 1..n |-> [v \in Int |-> v + s[k]]]
<1>1. n \in Nat /\ \A k \in 1..n : s[k] \in Int
  OBVIOUS
<1> HIDE DEF n
<1>2. \A k \in 1..n : \A v \in Int : step[k][v] = v + s[k] /\ step[k][v] \in Int
  BY <1>1
<1> HIDE DEF step
<1> DEFINE Q == Int
<1>q. 0 \in Q /\ \A k \in 1..n : \A v \in Q : step[k][v] \in Q
  BY <1>2
<1> HIDE DEF Q
<1>3. PICK f \in [0..n -> Int] : Recursive(f, 0, n, step)
  <2>1. \E f \in [0..n -> Q] : Recursive(f, 0, n, step)
    BY <1>1, <1>q, Recursion
  <2> QED
    BY <2>1 DEF Q
<1>4. ASSUME NEW k \in 0..n PROVE f[k] = IF k = 0 THEN 0 ELSE f[k - 1] + s[k]
  <2>1. CASE k = 0
    BY <1>3, <2>1 DEF Recursive
  <2>2. CASE k # 0
    <3>1. k \in 1..n /\ k - 1 \in 0..n
      BY <1>1, <2>2
    <3>2. f[k - 1] \in Int
      BY <1>3, <3>1
    <3> QED
      BY <1>2, <1>3, <2>2, <3>1, <3>2 DEF Recursive
  <2> QED
    BY <2>1, <2>2
<1>5. f = [k \in 0..n |-> IF k = 0 THEN 0 ELSE f[k - 1] + s[k]]
  BY <1>3, <1>4
<1> QED
  BY <1>3, <1>5 DEF Sums, n

IsSum(f, s, n) ==
  f[0] = 0 /\ (\A k \in 0..n : f[k] \in Int) /\ \A k \in 1..n : f[k] = f[k - 1] + s[k]

LEMMA TotalIs ==
  ASSUME NEW s \in Seq(Int)
  PROVE  \E f : Total(s) = f[Len(s)] /\ IsSum(f, s, Len(s))
<1> DEFINE n == Len(s)
           f == CHOOSE g : Sums(g, s)
<1>1. Total(s) = f[n]
  BY DEF Total, Sums
<1>2. n \in Nat /\ \A k \in 1..n : s[k] \in Int
  OBVIOUS
<1>3. Sums(f, s)
  BY SumsExist
<1> HIDE DEF f
<1> DEFINE W(g, k) == IF k = 0 THEN 0 ELSE g[k - 1] + s[k]
<1>4. \A k \in 0..n : f[k] = W(f, k)
  <2>1. f = [k \in 0..n |-> W(f, k)]
    BY <1>3 DEF Sums
  <2> HIDE DEF W, n
  <2> QED
    BY <2>1
<1> HIDE DEF n
<1>5. f[0] = 0 /\ \A k \in 1..n : f[k] = f[k - 1] + s[k]
  <2>1. 0 \in 0..n /\ \A k \in 1..n : k \in 0..n /\ k # 0
    BY <1>2
  <2> QED
    BY <1>4, <2>1
<1> DEFINE T == {k \in Nat : k <= n => f[k] \in Int}
<1>6. 0 \in T
  BY <1>5
<1>7. ASSUME NEW k \in T PROVE k + 1 \in T
  <2>1. CASE k + 1 <= n
    <3>1. k + 1 \in 1..n /\ f[k] \in Int /\ s[k + 1] \in Int
      BY <1>2, <2>1
    <3>2. f[k + 1] = f[k] + s[k + 1]
      BY <1>5, <3>1
    <3> QED
      BY <3>1, <3>2
  <2> QED
    BY <2>1
<1> HIDE DEF T
<1>8. T = Nat
  <2>1. T \in SUBSET Nat
    BY DEF T
  <2> QED
    BY <1>6, <1>7, <2>1, SetInduction
<1>9. \A k \in 0..n : f[k] \in Int
  BY <1>8 DEF T
<1>10. IsSum(f, s, n)
  BY <1>5, <1>9 DEF IsSum
<1> QED
  BY <1>1, <1>10 DEF n

\* A total of sizes is a size.
LEMMA TotalOfSizes ==
  ASSUME NEW s \in Seq(Nat)
  PROVE  Total(s) \in Nat /\ (\A i \in 1..Len(s) : s[i] <= Total(s))
<1>1. s \in Seq(Int) /\ Len(s) \in Nat /\ \A k \in 1..Len(s) : s[k] \in Nat
  OBVIOUS
<1> DEFINE n == Len(s)
<1>p. PICK f : Total(s) = f[n] /\ IsSum(f, s, n)
  BY <1>1, TotalIs
<1>2. /\ Total(s) = f[n] /\ f[0] = 0
      /\ \A k \in 0..n : f[k] \in Int
      /\ \A k \in 1..n : f[k] = f[k - 1] + s[k]
  BY <1>p DEF IsSum
<1>n. n \in Nat
  BY <1>1
<1> HIDE DEF n
<1> DEFINE T == {k \in Nat : k <= n => f[k] >= 0 /\ \A i \in 1..k : s[i] <= f[k]}
<1>3. 0 \in T
  BY <1>2
<1>4. ASSUME NEW k \in T PROVE k + 1 \in T
  <2>1. CASE k + 1 <= n
    <3>1. k + 1 \in 1..n /\ k \in 0..n /\ f[k] >= 0 /\ \A i \in 1..k : s[i] <= f[k]
      BY <1>n, <2>1
    <3>2. f[k + 1] = f[k] + s[k + 1] /\ f[k] \in Int /\ s[k + 1] \in Nat
      BY <1>1, <1>2, <3>1 DEF n
    <3>3. \A i \in 1..(k + 1) : s[i] <= f[k + 1]
      <4> TAKE i \in 1..(k + 1)
      <4>1. CASE i = k + 1
        BY <3>1, <3>2, <4>1
      <4>2. CASE i # k + 1
        <5>1. i \in 1..k /\ i \in 1..n
          BY <1>n, <2>1, <4>2
        <5>2. s[i] <= f[k] /\ s[i] \in Nat
          BY <1>1, <3>1, <5>1 DEF n
        <5> QED
          BY <3>2, <5>2
      <4> QED
        BY <4>1, <4>2
    <3> QED
      BY <3>1, <3>2, <3>3
  <2> QED
    BY <2>1
<1> HIDE DEF T
<1>5. T = Nat
  <2>1. T \in SUBSET Nat
    BY DEF T
  <2> QED
    BY <1>3, <1>4, <2>1, SetInduction
<1>6. f[n] >= 0 /\ f[n] \in Int /\ \A i \in 1..n : s[i] <= f[n]
  BY <1>1, <1>2, <1>5 DEF T, n
<1> QED
  BY <1>2, <1>6 DEF n

\* f[k] is the number of elements per index into the first k dimensions.
Sizes(f, dims) ==
  f = [k \in 0..Len(dims) |-> IF k = Len(dims) THEN 1 ELSE f[k + 1] * dims[k + 1]]

LEMMA SizesExist == ASSUME NEW dims \in Seq(Nat \ {0}) PROVE \E f : Sizes(f, dims)
<1> DEFINE n == Len(dims)
           step == [j \in 1..n |-> [v \in Nat |-> v * dims[n - j + 1]]]
<1>1. n \in Nat /\ \A k \in 1..n : dims[k] \in Nat
  OBVIOUS
<1> HIDE DEF n
<1>2. ASSUME NEW j \in 1..n, NEW v \in Nat
      PROVE  step[j][v] = v * dims[n - j + 1] /\ step[j][v] \in Nat
  <2>1. n - j + 1 \in 1..n
    BY <1>1
  <2>2. v * dims[n - j + 1] \in Nat
    BY <1>1, <2>1, Product
  <2> QED
    BY <2>2
<1> HIDE DEF step
<1>3. PICK h \in [0..n -> Nat] : Recursive(h, 1, n, step)
  BY <1>1, <1>2, Recursion
<1> DEFINE f == [k \in 0..n |-> h[n - k]]
           W(g, k) == IF k = n THEN 1 ELSE g[k + 1] * dims[k + 1]
<1>4. ASSUME NEW k \in 0..n PROVE f[k] = W(f, k)
  <2>1. CASE k = n
    BY <1>1, <1>3, <2>1 DEF Recursive
  <2>2. CASE k # n
    <3>1. n - k \in 1..n /\ k + 1 \in 0..n /\ n - (k + 1) = (n - k) - 1 /\ n - (n - k) + 1 = k + 1
          /\ (n - k) - 1 \in 0..n
      BY <1>1, <2>2
    <3>2. h[n - k] = step[n - k][h[(n - k) - 1]] /\ h[(n - k) - 1] \in Nat
      BY <1>3, <3>1 DEF Recursive
    <3>3. h[n - k] = h[(n - k) - 1] * dims[k + 1]
      BY <1>2, <3>1, <3>2
    <3>4. f[k] = h[n - k] /\ f[k + 1] = h[(n - k) - 1]
      BY <3>1
    <3> HIDE DEF f
    <3> QED
      BY <2>2, <3>3, <3>4
  <2> QED
    BY <2>1, <2>2
<1>5. f = [k \in 0..n |-> f[k]]
  OBVIOUS
<1> HIDE DEF f
<1>6. f = [k \in 0..n |-> W(f, k)]
  <2> HIDE DEF W
  <2> QED
    BY <1>4, <1>5
<1> QED
  BY <1>6 DEF Sizes, n

LEMMA AfterIs ==
  ASSUME NEW dims \in Seq(Nat \ {0})
  PROVE  /\ After(dims, Len(dims)) = 1
         /\ \A k \in 0..Len(dims) : After(dims, k) \in Nat \ {0}
         /\ \A k \in 1..Len(dims) : After(dims, k - 1) = After(dims, k) * dims[k]
<1> DEFINE n == Len(dims)
           f == CHOOSE g : Sizes(g, dims)
<1>1. \A k : After(dims, k) = f[k]
  BY DEF After, Sizes
<1>2. n \in Nat /\ \A k \in 1..n : dims[k] \in Nat \ {0}
  OBVIOUS
<1>3. Sizes(f, dims)
  BY SizesExist
<1> HIDE DEF f
<1> DEFINE W(g, k) == IF k = n THEN 1 ELSE g[k + 1] * dims[k + 1]
<1>4. \A k \in 0..n : f[k] = W(f, k)
  <2>1. f = [k \in 0..n |-> W(f, k)]
    BY <1>3 DEF Sizes
  <2> HIDE DEF W, n
  <2> QED
    BY <2>1
<1> HIDE DEF n
<1>5. f[n] = 1 /\ \A k \in 1..n : f[k - 1] = f[k] * dims[k]
  <2>1. n \in 0..n /\ \A k \in 1..n : k - 1 \in 0..n /\ k - 1 # n /\ (k - 1) + 1 = k
    BY <1>2
  <2> QED
    BY <1>4, <2>1
<1> DEFINE T == {j \in Nat : j <= n => f[n - j] \in Nat \ {0}}
<1>6. 0 \in T
  BY <1>2, <1>5
<1>7. ASSUME NEW j \in T PROVE j + 1 \in T
  <2>1. CASE j + 1 <= n
    <3>1. n - j \in 1..n /\ f[n - j] \in Nat \ {0} /\ dims[n - j] \in Nat \ {0}
          /\ n - (j + 1) = (n - j) - 1
      BY <1>2, <2>1
    <3>2. f[n - (j + 1)] = f[n - j] * dims[n - j]
      BY <1>5, <3>1
    <3>3. \A a, b \in Nat \ {0} : a * b \in Nat \ {0}
      OBVIOUS
    <3> DEFINE a == f[n - j]
               b == dims[n - j]
               c == f[n - (j + 1)]
    <3>4. a \in Nat \ {0} /\ b \in Nat \ {0} /\ c = a * b
      BY <3>1, <3>2
    <3> HIDE DEF a, b, c
    <3>5. c \in Nat \ {0}
      BY <3>3, <3>4
    <3> QED
      BY <3>5 DEF c
  <2> QED
    BY <2>1
<1> HIDE DEF T
<1>8. T = Nat
  <2>1. T \in SUBSET Nat
    BY DEF T
  <2> QED
    BY <1>6, <1>7, <2>1, SetInduction
<1>9. ASSUME NEW k \in 0..n PROVE f[k] \in Nat \ {0}
  <2>1. n - k \in Nat /\ n - k <= n /\ n - (n - k) = k
    BY <1>2
  <2> QED
    BY <1>8, <2>1 DEF T
<1> QED
  BY <1>1, <1>5, <1>9 DEF n

(***************************************************************************)
(* Gather, scatter and concat.                                             *)
(***************************************************************************)

\* A loop over the elements of a thread, each of which it writes once.
LEMMA StridedLoop ==
  ASSUME NEW W \in Nat \ {0}, NEW x \in 0..W - 1, NEW size \in Nat, NEW codes,
         codes = [k \in DOMAIN Loop(x, W, size) |-> codes[k]],
         \A k \in DOMAIN Loop(x, W, size) :
           \A fp : /\ fp[0].op = "put" /\ Out(Loop(x, W, size)[k]) \in fp[0].to
                   => Does(codes[k], 0, 0, fp)
  PROVE  Does(InOrder(codes), 0, 0, ToCells(Strided(W, x)))
<1> DEFINE s == Loop(x, W, size)
           fp == ToCells(Strided(W, x))
<1>1. PICK n \in Nat : IsLoop(s, n, x, W, size)
  <2>1. x \in Nat
    OBVIOUS
  <2> QED
    BY <2>1, LoopIs
<1>2. x % W = x
  OBVIOUS
<1> HIDE DEF s
<1>3. ASSUME NEW k \in 1..n PROVE Does(codes[k], 0, 0, fp)
  <2>1. s[k] \in Strided(W, x)
    BY <1>1, <1>2 DEF Strided, IsLoop
  <2>2. fp[0].op = "put" /\ Out(s[k]) \in fp[0].to
    BY <2>1 DEF ToCells, Writes
  <2> HIDE DEF fp
  <2> QED
    BY <1>1, <2>2 DEF s, IsLoop
<1> HIDE DEF fp
<1>4. codes = [k \in 1..n |-> codes[k]]
  BY <1>1 DEF s, IsLoop
<1> QED
  BY <1>3, <1>4, DoesLoop DEF fp

LEMMA GatherIs ==
  ASSUME NEW l, Supported(l), l.kernel \in {"gather", "scatter"}
  PROVE  /\ Len(l.indices) * SliceSize(l) \in Nat
         /\ IsGeometry(GatherGeometry(l))
         /\ GatherGeometry(l).grid[2] = 1 /\ GatherGeometry(l).block[2] = 1
<1>1. l.shape \in Seq(Nat \ {0}) /\ l.indices \in Seq(Seq(Nat)) /\ l.indices # <<>>
      /\ Len(l.indices[1]) <= Len(l.shape)
  <2>1. l.shape \in Seq(Nat \ {0}) /\ l.indices \in Seq(Seq(Nat)) /\ l.indices # <<>>
        /\ \A k \in DOMAIN l.indices : Len(l.indices[k]) <= Len(l.shape)
    BY DEF Supported
  <2>2. 1 \in DOMAIN l.indices
    BY <2>1
  <2> QED
    BY <2>1, <2>2
<1>2. EndSize(l) \in 0..Len(l.shape)
  <2>1. l.indices[1] \in Seq(Nat)
    BY <1>1
  <2> QED
    BY <1>1, <2>1 DEF EndSize
<1>3. SliceSize(l) \in Nat
  BY <1>1, <1>2, AfterIs DEF SliceSize
<1>4. Len(l.indices) \in Nat
  BY <1>1
<1>5. Len(l.indices) * SliceSize(l) \in Nat
  BY <1>3, <1>4, Product
<1> QED
  BY <1>5, DeviceSizes, LineIs DEF GatherGeometry

LEMMA GatherHasNoRace ==
  ASSUME NEW l, Supported(l), l.kernel = "gather"
  PROVE  RaceFree(Kernel(l))
<1> DEFINE g == GatherGeometry(l)
           k == Kernel(l)
           size == Len(l.indices) * SliceSize(l)
<1>1. size \in Nat /\ IsGeometry(g) /\ g.grid[2] = 1 /\ g.block[2] = 1
  BY GatherIs
<1>2. k.code = [id \in Ids(g) |-> GatherNdCUDAKernel(l, g, ThreadAt(g, id[1], id[2]))]
  BY DEF Kernel, Ids
<1> HIDE DEF k, g
<1>3. ASSUME NEW id \in Ids(g)
      PROVE  Does(k.code[id], 0, 0, ToCells(Strided(GridWidth(g), X(g, ThreadAt(g, id[1], id[2])))))
  <2> DEFINE th == ThreadAt(g, id[1], id[2])
             W == GridWidth(g)
             x == X(g, th)
             s == Loop(x, W, size)
             codes == [n \in DOMAIN s |-> Put(Out(s[n]), <<In(1, ElementOf(l, s[n]))>>)]
  <2>1. x \in 0..W - 1 /\ W \in Nat \ {0}
    BY <1>1, IdsInLaunch, GridPlace
  <2>2. k.code[id] = InOrder(codes)
    BY <1>2 DEF GatherNdCUDAKernel, ForEach
  <2> HIDE DEF th, W, x, size
  <2>3. ASSUME NEW n \in DOMAIN s, NEW fp, fp[0].op = "put", Out(s[n]) \in fp[0].to
        PROVE  Does(codes[n], 0, 0, fp)
    <3> DEFINE from == <<In(1, ElementOf(l, s[n]))>>
    <3>1. codes[n] = Put(Out(s[n]), from)
      OBVIOUS
    <3>2. \A i \in DOMAIN from : from[i][1] = "in"
      BY DEF In
    <3> HIDE DEF codes, from
    <3> QED
      BY <2>3, <3>1, <3>2, DoesPut
  <2>4. codes = [n \in DOMAIN s |-> codes[n]]
    OBVIOUS
  <2> HIDE DEF codes
  <2>5. Does(InOrder(codes), 0, 0, ToCells(Strided(W, x)))
    BY <1>1, <2>1, <2>3, <2>4, StridedLoop DEF s
  <2> QED
    BY <2>2, <2>5 DEF th, W, x
<1>4. DOMAIN k.code = Ids(g)
  BY <1>2
<1>5. \A id \in Ids(g) : Does(k.code[id], 0, 0, ToCells(Strided(GridWidth(g), X(g, ThreadAt(g, id[1], id[2])))))
  BY <1>3
<1> QED
  BY <1>1, <1>4, <1>5, StridedCells DEF k

LEMMA ScatterHasNoRace ==
  ASSUME NEW l, Supported(l), l.kernel = "scatter"
  PROVE  RaceFree(Kernel(l))
<1> DEFINE g == GatherGeometry(l)
           k == Kernel(l)
           size == Len(l.indices) * SliceSize(l)
           add == [p \in Nat |-> [op |-> "add"]]
           FP == [th \in Ids(g) |-> add]
<1>1. size \in Nat /\ IsGeometry(g)
  BY GatherIs
<1>2. k.code = [id \in Ids(g) |-> ScatterNdCUDAKernel(l, g, ThreadAt(g, id[1], id[2]))]
  BY DEF Kernel, Ids
<1> HIDE DEF k, g
<1>a. \A p \in Nat : add[p].op = "add"
  OBVIOUS
<1> HIDE DEF add
<1>3. ASSUME NEW id \in Ids(g) PROVE Does(k.code[id], 0, 0, add)
  <2> DEFINE th == ThreadAt(g, id[1], id[2])
             W == GridWidth(g)
             x == X(g, th)
             s == Loop(x, W, size)
             codes == [n \in DOMAIN s |-> AtomicAdd(Out(ElementOf(l, s[n])), <<In(1, s[n])>>)]
  <2>1. x \in 0..W - 1 /\ W \in Nat \ {0}
    BY <1>1, IdsInLaunch, GridPlace
  <2>2. k.code[id] = InOrder(codes)
    BY <1>2 DEF ScatterNdCUDAKernel, ForEach
  <2> HIDE DEF th, W, x, size
  <2>3. PICK n \in Nat : IsLoop(s, n, x, W, size)
    <3>1. x \in Nat
      BY <2>1
    <3> QED
      BY <1>1, <2>1, <3>1, LoopIs
  <2> HIDE DEF s
  <2>4. ASSUME NEW i \in 1..n PROVE Does(codes[i], 0, 0, add)
    <3> DEFINE from == <<In(1, s[i])>>
    <3>1. codes[i] = AtomicAdd(Out(ElementOf(l, s[i])), from)
      BY <2>3 DEF IsLoop
    <3> HIDE DEF codes, from
    <3> QED
      BY <1>a, <3>1, DoesAdd
  <2>5. codes = [i \in 1..n |-> codes[i]]
    BY <2>3 DEF IsLoop
  <2> HIDE DEF codes
  <2> QED
    BY <2>2, <2>4, <2>5, DoesLoop
<1>4. DOMAIN k.code = Ids(g) /\ \A th \in Ids(g) : FP[th] = add
  BY <1>2
<1> HIDE DEF FP
<1>5. \A th \in DOMAIN k.code : Does(k.code[th], 0, 0, FP[th])
  BY <1>3, <1>4
<1>6. \A s, t \in DOMAIN k.code : \A p, q \in Nat :
        s # t /\ (s[1] = t[1] => p = q) => Apart(FP[s][p], FP[t][q])
  BY <1>a, <1>4 DEF Apart
<1> QED
  BY <1>5, <1>6, Footprints DEF k

LEMMA ConcatIs ==
  ASSUME NEW l, Supported(l), l.kernel = "concat"
  PROVE  IsGeometry(ConcatGeometry(l)) /\ Total(l.widths) \in Nat \ {0} /\ l.height \in Nat
<1> DEFINE cols       == Total(l.widths)
           block_cols == IF cols < Device.threads
                         THEN DivUp(cols, Device.warp) * Device.warp ELSE Device.threads
           block_rows == Device.threads \div block_cols
           max_blocks == Max({Device.resident \div Device.threads, 1})
           grid_cols  == Min({DivUp(cols, block_cols), max_blocks})
           grid_rows  == Min({max_blocks \div grid_cols, Max({l.height \div block_rows, 1})})
<1>1. l.height \in Nat /\ l.widths \in Seq(Nat \ {0}) /\ l.widths # <<>>
  BY DEF Supported
<1>2. cols \in Nat \ {0}
  <2>1. l.widths \in Seq(Nat) /\ 1 \in 1..Len(l.widths) /\ l.widths[1] \in Nat \ {0}
    BY <1>1
  <2>2. cols \in Nat /\ l.widths[1] <= cols
    BY <2>1, TotalOfSizes
  <2> QED
    BY <2>1, <2>2
<1>3. ConcatGeometry(l) = [grid |-> <<grid_cols, grid_rows>>, block |-> <<block_cols, block_rows>>]
  BY DEF ConcatGeometry, Geometry
<1> HIDE DEF cols
<1>4. block_cols \in Nat \ {0} /\ block_cols <= Device.threads
  <2>1. DivUp(cols, Device.warp) \in Nat \ {0}
    BY <1>2, DeviceSizes, DivUpIs
  <2>2. \A a, b \in Nat \ {0} : a * b \in Nat \ {0}
    OBVIOUS
  <2>3. DivUp(cols, Device.warp) * Device.warp \in Nat \ {0}
    BY <2>1, <2>2, DeviceSizes
  <2>4. ASSUME cols < Device.threads
        PROVE  DivUp(cols, Device.warp) * Device.warp <= Device.threads
    <3> DEFINE d == DivUp(cols, Device.warp)
               q == Device.threads \div Device.warp
               w == Device.warp
    <3>1. q \in Nat /\ Device.threads = w * q + (Device.threads % w) /\ w \in Nat \ {0}
      BY DeviceSizes, DivMod
    <3>2. Device.threads = w * q
      BY <3>1, DeviceAssumption
    <3>3. d \in Nat \ {0} /\ w * (d - 1) < cols
      BY <1>2, <2>1, DeviceSizes, DivUpIs
    <3> HIDE DEF d, q, w
    <3>4. w * (d - 1) < w * q
      <4>1. w * (d - 1) \in Int /\ w * q \in Int
        BY <3>1, <3>3
      <4> QED
        BY <1>2, <2>4, <3>2, <3>3, <4>1
    <3>5. d <= q
      <4>1. SUFFICES ASSUME d - 1 >= q PROVE FALSE
        BY <3>1, <3>3
      <4>2. w * (d - 1 - q) >= 0 /\ w * (d - 1 - q) = w * (d - 1) - w * q
        BY <3>1, <3>3, <4>1
      <4> QED
        BY <3>1, <3>3, <3>4, <4>2
    <3>6. w * (q - d) >= 0 /\ w * (q - d) = w * q - d * w
      BY <3>1, <3>3, <3>5
    <3> QED
      BY <3>1, <3>2, <3>3, <3>6 DEF d, w
  <2> QED
    BY <2>3, <2>4, DeviceSizes
<1> HIDE DEF block_cols
<1>5. block_rows \in Nat \ {0}
  <2> DEFINE a == Device.threads
  <2>1. a \in Nat /\ block_cols <= a
    BY <1>4, DeviceSizes
  <2>2. block_rows \in Nat /\ a = block_cols * block_rows + (a % block_cols)
        /\ a % block_cols \in 0..block_cols - 1
    BY <1>4, <2>1, DivMod
  <2> HIDE DEF a, block_rows
  <2>3. CASE block_rows = 0
    <3>1. block_cols * block_rows = 0
      BY <1>4, <2>3
    <3> QED
      BY <1>4, <2>1, <2>2, <3>1
  <2> QED
    BY <2>2, <2>3
<1>6. max_blocks \in Nat \ {0}
  <2>1. Device.resident \div Device.threads \in Nat
    BY DeviceSizes, DivMod
  <2> DEFINE a == Device.resident \div Device.threads
  <2> HIDE DEF a
  <2>2. a \in Int /\ 1 \in Int /\ a \in Nat
    BY <2>1 DEF a
  <2>3. Max({a, 1}) \in {a, 1} /\ Max({a, 1}) >= 1
    BY <2>2, LargerOf
  <2>4. Max({a, 1}) \in Nat \ {0}
    BY <2>2, <2>3
  <2> QED
    BY <2>4 DEF a
<1> HIDE DEF max_blocks
<1>7. grid_cols \in Nat \ {0}
  <2> DEFINE a == DivUp(cols, block_cols)
  <2>1. a \in Nat \ {0}
    BY <1>2, <1>4, DivUpIs
  <2> HIDE DEF a
  <2>2. a \in Int /\ max_blocks \in Int
    BY <1>6, <2>1
  <2>3. Min({a, max_blocks}) \in {a, max_blocks}
    BY <2>2, SmallerOf
  <2> QED
    BY <1>6, <2>1, <2>3 DEF a
<1> HIDE DEF grid_cols
<1> HIDE DEF block_rows
<1>8. grid_rows \in Nat
  <2> DEFINE a == max_blocks \div grid_cols
             h == l.height \div block_rows
             b == Max({h, 1})
  <2>1. a \in Nat /\ h \in Nat
    BY <1>1, <1>5, <1>6, <1>7, DivMod
  <2> HIDE DEF a, h
  <2>2. h \in Int /\ 1 \in Int
    BY <2>1
  <2>3. b \in {h, 1}
    BY <2>2, LargerOf
  <2>4. a \in Int /\ b \in Int /\ b \in Nat
    BY <2>1, <2>3
  <2> HIDE DEF b
  <2>5. Min({a, b}) \in {a, b}
    BY <2>4, SmallerOf
  <2> QED
    BY <2>1, <2>4, <2>5 DEF a, b, h
<1> QED
  BY <1>1, <1>2, <1>3, <1>4, <1>5, <1>7, <1>8 DEF IsGeometry, cols

\* The elements of the columns and rows of a thread.
Tiled(g, th, C) ==
  {y * C + x : x \in {x \in 0..C - 1 : x % GridWidth(g) = X(g, th)},
               y \in {y \in Nat : y % GridHeight(g) = Y(g, th)}}

LEMMA ConcatColumnDoes ==
  ASSUME NEW l, NEW g, NEW th, NEW x, NEW j, NEW local, l.height \in Nat,
         GridHeight(g) \in Nat \ {0}, Y(g, th) \in 0..GridHeight(g) - 1,
         x \in 0..Total(l.widths) - 1, x % GridWidth(g) = X(g, th)
  PROVE  Does(ConcatColumn(l, g, th, x, j, local), 0, 0, ToCells(Tiled(g, th, Total(l.widths))))
<1> DEFINE C == Total(l.widths)
           H == GridHeight(g)
           v == Y(g, th)
           s == Loop(v, H, l.height)
           fp == ToCells(Tiled(g, th, C))
           codes == [n \in DOMAIN s |-> Put(Out(s[n] * C + x), <<In(j, s[n] * l.widths[j] + local)>>)]
<1>1. ConcatColumn(l, g, th, x, j, local) = InOrder(codes)
  BY DEF ConcatColumn, ForEach
<1>2. PICK n \in Nat : IsLoop(s, n, v, H, l.height)
  <2>1. v \in Nat
    OBVIOUS
  <2> QED
    BY <2>1, LoopIs
<1> HIDE DEF s
<1>3. ASSUME NEW i \in 1..n PROVE Does(codes[i], 0, 0, fp)
  <2> DEFINE from == <<In(j, s[i] * l.widths[j] + local)>>
             y == s[i]
  <2>1. codes[i] = Put(Out(y * C + x), from)
    BY <1>2 DEF IsLoop
  <2>2. \A m \in DOMAIN from : from[m][1] = "in"
    BY DEF In
  <2> HIDE DEF codes, from
  <2>3. y \in Nat /\ y % H = v
    <3>1. y \in Nat /\ y % H = v % H
      BY <1>2 DEF IsLoop
    <3>2. v % H = v
      OBVIOUS
    <3> QED
      BY <3>1, <3>2
  <2> HIDE DEF y
  <2>4. y * C + x \in Tiled(g, th, C)
    BY <2>3 DEF Tiled
  <2> DEFINE cell == y * C + x
  <2> HIDE DEF cell
  <2>5. fp[0].op = "put" /\ Out(cell) \in fp[0].to
    BY <2>4 DEF ToCells, Writes, cell
  <2> HIDE DEF fp
  <2> QED
    BY <2>1, <2>2, <2>5, DoesPut DEF cell
<1>4. codes = [i \in 1..n |-> codes[i]]
  BY <1>2 DEF IsLoop
<1> HIDE DEF codes, fp
<1> QED
  BY <1>1, <1>3, <1>4, DoesLoop DEF fp

LEMMA ConcatCodeDoes ==
  ASSUME NEW l, NEW g, NEW th, l.height \in Nat, Total(l.widths) \in Nat,
         GridHeight(g) \in Nat \ {0}, Y(g, th) \in 0..GridHeight(g) - 1,
         GridWidth(g) \in Nat \ {0}, X(g, th) \in 0..GridWidth(g) - 1
  PROVE  Does(ConcatCode(l, g, th), 0, 0, ToCells(Tiled(g, th, Total(l.widths))))
<1> DEFINE C == Total(l.widths)
           fp == ToCells(Tiled(g, th, C))
           s == Loop(X(g, th), GridWidth(g), C)
<1>1. PICK n \in Nat : IsLoop(s, n, X(g, th), GridWidth(g), C)
  <2>1. X(g, th) \in Nat
    OBVIOUS
  <2> QED
    BY <2>1, LoopIs
<1>2. ASSUME NEW i \in 1..n, NEW j, NEW local
      PROVE  Does(ConcatColumn(l, g, th, s[i], j, local), 0, 0, fp)
  <2>1. s[i] \in 0..C - 1 /\ s[i] % GridWidth(g) = X(g, th) % GridWidth(g)
    BY <1>1 DEF IsLoop
  <2>2. X(g, th) % GridWidth(g) = X(g, th)
    OBVIOUS
  <2> HIDE DEF s
  <2> QED
    BY <2>1, <2>2, ConcatColumnDoes
<1> HIDE DEF s, fp
<1>3. Does(ConcatKernelDetail(l, g, th), 0, 0, fp)
  <2> DEFINE codes == [i \in DOMAIN s |-> ConcatColumn(l, g, th, s[i], s[i] \div l.widths[1] + 1,
                                                       s[i] % l.widths[1])]
  <2>1. ConcatKernelDetail(l, g, th) = InOrder(codes)
    BY DEF ConcatKernelDetail, ForEach, s
  <2>2. DOMAIN s = 1..n
    BY <1>1 DEF IsLoop
  <2>3. \A i \in 1..n : Does(codes[i], 0, 0, fp)
    BY <1>2, <2>2
  <2>4. codes = [i \in 1..n |-> codes[i]]
    BY <2>2
  <2> HIDE DEF codes
  <2> QED
    BY <2>1, <2>3, <2>4, DoesLoop
<1>4. Does(ConcatKernel(l, g, th), 0, 0, fp)
  <2> DEFINE at == CHOOSE at : at = [m \in 0..Len(s) |-> IF m = 0 THEN [segment |-> 1, offset |-> 0]
                                                         ELSE Walk(l, at[m - 1], s[m])]
             k(i) == at[i].segment
             local(i) == s[i] - at[i].offset
             codes == [i \in DOMAIN s |-> ConcatColumn(l, g, th, s[i], k(i), local(i))]
  <2>1. ConcatKernel(l, g, th) = InOrder(codes)
    <3> HIDE DEF at
    <3> DEFINE id == [m \in DOMAIN s |-> m]
    <3>1. DOMAIN id = DOMAIN s /\ \A i \in DOMAIN s : id[i] = i
      OBVIOUS
    <3> HIDE DEF id
    <3>2. codes = [i \in DOMAIN id |-> ConcatColumn(l, g, th, s[id[i]], k(id[i]), local(id[i]))]
      BY <3>1
    <3>3. ConcatKernel(l, g, th)
            = InOrder([i \in DOMAIN id |-> ConcatColumn(l, g, th, s[id[i]], k(id[i]), local(id[i]))])
      BY DEF ConcatKernel, ForEach, s, id, at
    <3> QED
      BY <3>2, <3>3
  <2>2. DOMAIN s = 1..n
    BY <1>1 DEF IsLoop
  <2> HIDE DEF at
  <2>3. \A i \in 1..n : Does(codes[i], 0, 0, fp)
    BY <1>2, <2>2
  <2>4. codes = [i \in 1..n |-> codes[i]]
    BY <2>2
  <2> HIDE DEF codes
  <2> QED
    BY <2>1, <2>3, <2>4, DoesLoop
<1> QED
  BY <1>3, <1>4 DEF ConcatCode, fp

LEMMA ConcatHasNoRace ==
  ASSUME NEW l, Supported(l), l.kernel = "concat"
  PROVE  RaceFree(Kernel(l))
<1> DEFINE g == ConcatGeometry(l)
           k == Kernel(l)
           C == Total(l.widths)
           at(id) == ThreadAt(g, id[1], id[2])
           Cells == [id \in Ids(g) |-> Tiled(g, at(id), C)]
<1>1. C \in Nat /\ IsGeometry(g) /\ l.height \in Nat
  BY ConcatIs
<1>2. k.code = [id \in Ids(g) |-> ConcatCode(l, g, at(id))]
  BY DEF Kernel, Ids
<1> HIDE DEF k, g
<1>3. ASSUME NEW id \in Ids(g)
      PROVE  /\ InLaunch(g, id[1], id[2]) /\ id = <<id[1], id[2]>>
             /\ GridWidth(g) \in Nat \ {0} /\ GridHeight(g) \in Nat \ {0}
             /\ X(g, at(id)) \in 0..GridWidth(g) - 1 /\ Y(g, at(id)) \in 0..GridHeight(g) - 1
  BY <1>1, IdsInLaunch, GridPlace
<1>4. DOMAIN k.code = Ids(g) /\ \A id \in Ids(g) : Cells[id] = Tiled(g, at(id), C)
  BY <1>2
<1>5. ASSUME NEW id \in Ids(g) PROVE Does(k.code[id], 0, 0, ToCells(Cells[id]))
  <2>1. Does(ConcatCode(l, g, at(id)), 0, 0, ToCells(Tiled(g, at(id), C)))
    BY <1>1, <1>3, ConcatCodeDoes
  <2> QED
    BY <1>2, <1>4, <2>1
<1> HIDE DEF C, Cells
<1>6. ASSUME NEW s \in Ids(g), NEW t \in Ids(g), s # t
      PROVE  Cells[s] \cap Cells[t] = {}
  <2> DEFINE v == at(s)
             w == at(t)
  <2>1. ~(s[1] = t[1] /\ s[2] = t[2])
    BY <1>3, <1>6
  <2>2. ~(X(g, v) = X(g, w) /\ Y(g, v) = Y(g, w))
    BY <1>3, <2>1, PlaceIsOwn
  <2>3. Cells[s] = Tiled(g, v, C) /\ Cells[t] = Tiled(g, w, C)
    BY <1>4
  <2> HIDE DEF v, w
  <2>4. SUFFICES ASSUME NEW x \in 0..C - 1, NEW y \in Nat, NEW z \in 0..C - 1, NEW u \in Nat,
                        y * C + x = u * C + z,
                        x % GridWidth(g) = X(g, v), y % GridHeight(g) = Y(g, v),
                        z % GridWidth(g) = X(g, w), u % GridHeight(g) = Y(g, w)
                 PROVE  FALSE
    BY <2>3 DEF Tiled
  <2>5. x = z /\ y = u
    <3>1. C \in Nat /\ y \in Int /\ u \in Int
      BY <1>1
    <3> QED
      BY <2>4, <3>1, OneWay
  <2> QED
    BY <2>2, <2>4, <2>5
<1>7. \A th \in DOMAIN k.code : Does(k.code[th], 0, 0, ToCells(Cells[th]))
  BY <1>4, <1>5
<1> QED
  BY <1>4, <1>6, <1>7, OwnCells DEF k

(***************************************************************************)
(* The transpose of matrices, by tiles.                                    *)
(***************************************************************************)

\* The rows of a tile that a thread of row ty of a block copies.
RowsOf(ty) == {r \in 0..Device.tile - 1 : r % Device.rows = ty}

LEMMA RowsAre ==
  ASSUME NEW ty \in 0..Device.rows - 1, NEW j \in 0..Device.tile - 1, j % Device.rows = 0
  PROVE  ty + j \in RowsOf(ty)
<1>1. Device.rows \in Nat \ {0} /\ Device.tile \in Nat /\ Device.tile % Device.rows = 0
  BY DeviceSizes, DeviceAssumption
<1> DEFINE m == Device.tile
           n == Device.rows
<1>2. n \in Nat \ {0} /\ m \in Nat /\ m % n = 0 /\ ty \in 0..n - 1 /\ j \in 0..m - 1 /\ j % n = 0
  BY <1>1
<1> HIDE DEF m, n
<1>3. ty + j \in 0..m - 1 /\ (ty + j) % n = ty
  BY <1>2, MultipleBelow
<1> QED
  BY <1>3 DEF RowsOf, m, n

\* What a thread may do before and after the barrier.
TileFootprint(g, th) ==
  [p \in Nat |->
     IF p = 0
     THEN Writes({Tile(th.b, r, th.tx) : r \in RowsOf(th.ty)}, {})
     ELSE Writes({Out((th.bx * Device.tile + r) * (g.grid[1] * Device.tile)
                       + (th.by * Device.tile + th.tx)) : r \in RowsOf(th.ty)},
                 {Tile(th.b, th.tx, r) : r \in RowsOf(th.ty)})]

\* A thread in a grid of the blocks of a square matrix.
InSquare(g, th) ==
  /\ g.grid[1] \in Nat /\ th.bx \in 0..g.grid[1] - 1 /\ th.by \in 0..g.grid[1] - 1
  /\ th.tx \in 0..Device.tile - 1 /\ th.ty \in 0..Device.rows - 1

LEMMA TransposeTileDoes ==
  ASSUME NEW l, NEW g, NEW th, InSquare(g, th)
  PROVE  Does(TransposeKernel2D(l, g, th), 0, 1, TileFootprint(g, th))
<1> DEFINE fp == TileFootprint(g, th)
           width == g.grid[1] * Device.tile
           rows  == Loop(0, Device.rows, Device.tile)
           in(j)  == In(1, (th.by * Device.tile + th.ty + j) * width + th.bx * Device.tile + th.tx)
           out(j) == Out((th.bx * Device.tile + th.ty + j) * width + th.by * Device.tile + th.tx)
           read  == [k \in DOMAIN rows |-> Put(Tile(th.b, th.ty + rows[k], th.tx), <<in(rows[k])>>)]
           write == [k \in DOMAIN rows |-> Put(out(rows[k]), <<Tile(th.b, th.tx, th.ty + rows[k])>>)]
<1>1. TransposeKernel2D(l, g, th) = InOrder(read) \o SyncThreads \o InOrder(write)
  BY DEF TransposeKernel2D, ForEach
<1>2. PICK n \in Nat : IsLoop(rows, n, 0, Device.rows, Device.tile)
  BY DeviceSizes, LoopIs
<1>3. ASSUME NEW k \in 1..n
      PROVE  th.ty + rows[k] \in RowsOf(th.ty) /\ rows[k] \in Nat
  <2>1. rows[k] \in 0..Device.tile - 1 /\ rows[k] \in Nat /\ rows[k] % Device.rows = 0 % Device.rows
    BY <1>2 DEF IsLoop
  <2>2. 0 % Device.rows = 0
    BY DeviceSizes
  <2>3. th.ty \in 0..Device.rows - 1
    BY DEF InSquare
  <2> HIDE DEF rows
  <2> QED
    BY <2>1, <2>2, <2>3, RowsAre
<1>4. DOMAIN rows = 1..n
  BY <1>2 DEF IsLoop
<1> HIDE DEF rows
<1>5. Does(InOrder(read), 0, 0, fp)
  <2>1. ASSUME NEW k \in 1..n PROVE Does(read[k], 0, 0, fp)
    <3> DEFINE from == <<in(rows[k])>>
               r == th.ty + rows[k]
    <3>1. read[k] = Put(Tile(th.b, r, th.tx), from)
      BY <1>4
    <3>2. \A i \in DOMAIN from : from[i][1] = "in"
      BY DEF In
    <3>3. r \in RowsOf(th.ty)
      BY <1>3
    <3> HIDE DEF read, from, r
    <3>4. fp[0].op = "put" /\ Tile(th.b, r, th.tx) \in fp[0].to
      BY <3>3 DEF TileFootprint, Writes
    <3> HIDE DEF fp
    <3> QED
      BY <3>1, <3>2, <3>4, DoesPut
  <2>2. read = [k \in 1..n |-> read[k]]
    BY <1>4
  <2> HIDE DEF read
  <2> QED
    BY <2>1, <2>2, DoesLoop
<1>6. Does(SyncThreads, 0, 1, fp)
  BY DoesSync
<1>7. Does(InOrder(write), 1, 1, fp)
  <2>1. ASSUME NEW k \in 1..n PROVE Does(write[k], 1, 1, fp)
    <3> DEFINE r == th.ty + rows[k]
               at(x) == (th.bx * Device.tile + x) * width + (th.by * Device.tile + th.tx)
               from == <<Tile(th.b, th.tx, r)>>
    <3>1. r \in RowsOf(th.ty) /\ rows[k] \in Nat
      BY <1>3
    <3>2. out(rows[k]) = Out(at(r))
      <4>1. th.bx \in Nat /\ th.by \in Nat /\ th.tx \in Nat /\ th.ty \in Nat /\ Device.tile \in Nat
            /\ g.grid[1] \in Nat
        BY DeviceSizes DEF InSquare
      <4>2. th.bx * Device.tile \in Nat /\ th.by * Device.tile \in Nat /\ width \in Nat
        BY <4>1, Product
      <4> DEFINE a == th.bx * Device.tile
                 b == th.by * Device.tile
      <4> HIDE DEF a, b, width
      <4>3. a + th.ty + rows[k] = a + (th.ty + rows[k]) /\ a + (th.ty + rows[k]) \in Nat
        BY <3>1, <4>1, <4>2 DEF a
      <4> DEFINE c == (a + (th.ty + rows[k])) * width
      <4>4. c \in Nat
        BY <4>2, <4>3, Product
      <4> HIDE DEF c
      <4>5. c + b + th.tx = c + (b + th.tx)
        BY <4>1, <4>2, <4>4 DEF b
      <4> QED
        BY <4>3, <4>5 DEF a, b, c, width
    <3>3. write[k] = Put(Out(at(r)), from)
      BY <1>4, <3>2
    <3> HIDE DEF write
    <3>4. DOMAIN from = {1} /\ from[1] = Tile(th.b, th.tx, r)
      OBVIOUS
    <3> HIDE DEF from, r
    <3>5. fp[1].op = "put" /\ Out(at(r)) \in fp[1].to /\ Tile(th.b, th.tx, r) \in fp[1].from
      BY <3>1 DEF TileFootprint, Writes
    <3> HIDE DEF fp, at
    <3> QED
      BY <3>3, <3>4, <3>5, DoesPut
  <2>2. write = [k \in 1..n |-> write[k]]
    BY <1>4
  <2> HIDE DEF write
  <2> QED
    BY <2>1, <2>2, DoesLoop
<1> HIDE DEF fp, read, write
<1>8. Does(InOrder(read) \o SyncThreads, 0, 1, fp)
  BY <1>5, <1>6, DoesBoth
<1>9. Does((InOrder(read) \o SyncThreads) \o InOrder(write), 0, 1, fp)
  BY <1>7, <1>8, DoesBoth
<1> QED
  BY <1>1, <1>9 DEF fp

LEMMA TilesApart ==
  ASSUME NEW g, NEW v, NEW w, NEW p \in Nat, NEW q \in Nat, InSquare(g, v), InSquare(g, w),
         v.b = v.by * g.grid[1] + v.bx, w.b = w.by * g.grid[1] + w.bx,
         ~(v.b = w.b /\ v.tx = w.tx /\ v.ty = w.ty), v.b = w.b => p = q
  PROVE  Apart(TileFootprint(g, v)[p], TileFootprint(g, w)[q])
<1> DEFINE m == Device.tile
           width == g.grid[1] * m
           e == TileFootprint(g, v)[p]
           f == TileFootprint(g, w)[q]
           at(th, r) == (th.bx * m + r) * width + (th.by * m + th.tx)
           tiles(th) == {Tile(th.b, r, th.tx) : r \in RowsOf(th.ty)}
           turned(th) == {Tile(th.b, th.tx, r) : r \in RowsOf(th.ty)}
           outs(th) == {Out(at(th, r)) : r \in RowsOf(th.ty)}
<1>1. /\ e.op = "put" /\ f.op = "put"
      /\ p = 0 => e.to = tiles(v) /\ e.from = {}
      /\ q = 0 => f.to = tiles(w) /\ f.from = {}
      /\ p # 0 => e.to = outs(v) /\ e.from = turned(v)
      /\ q # 0 => f.to = outs(w) /\ f.from = turned(w)
  BY DEF TileFootprint, Writes
<1> HIDE DEF e, f
<1>2. /\ m \in Nat /\ g.grid[1] \in Nat /\ width \in Nat
      /\ v.bx \in 0..g.grid[1] - 1 /\ v.by \in 0..g.grid[1] - 1 /\ v.tx \in 0..m - 1
      /\ w.bx \in 0..g.grid[1] - 1 /\ w.by \in 0..g.grid[1] - 1 /\ w.tx \in 0..m - 1
  BY DeviceSizes, Product DEF InSquare
<1>3. outs(v) \cap outs(w) = {}
  <2> SUFFICES ASSUME NEW r \in RowsOf(v.ty), NEW s \in RowsOf(w.ty), Out(at(v, r)) = Out(at(w, s))
               PROVE  FALSE
    OBVIOUS
  <2>1. r \in 0..m - 1 /\ s \in 0..m - 1 /\ r % Device.rows = v.ty /\ s % Device.rows = w.ty
    BY DEF RowsOf
  <2>2. at(v, r) = at(w, s)
    BY DEF Out
  <2> DEFINE a == v.bx * m + r
             b == v.by * m + v.tx
             c == w.bx * m + s
             d == w.by * m + w.tx
  <2>3. a \in 0..width - 1 /\ b \in 0..width - 1 /\ c \in 0..width - 1 /\ d \in 0..width - 1
    BY <1>2, <2>1, RowAndColumn
  <2>4. a * width + b = c * width + d
    BY <2>2
  <2> HIDE DEF width, a, b, c, d, at
  <2>5. a = c /\ b = d
    <3>1. a \in Int /\ c \in Int
      BY <1>2, <2>3
    <3> QED
      BY <1>2, <2>3, <2>4, <3>1, OneWay
  <2> HIDE DEF m
  <2>6. InRow(m, v.bx, r) = InRow(m, w.bx, s) /\ InRow(m, v.by, v.tx) = InRow(m, w.by, w.tx)
    BY <2>5 DEF a, b, c, d, InRow
  <2>7. v.bx = w.bx /\ r = s
    BY <1>2, <2>1, <2>6, OneRow
  <2>8. v.by = w.by /\ v.tx = w.tx
    BY <1>2, <2>1, <2>6, OneRow
  <2> QED
    BY <2>1, <2>7, <2>8
<1> HIDE DEF at, m, width
<1>4. ASSUME p = 0, q = 0 PROVE tiles(v) \cap tiles(w) = {}
  <2> SUFFICES ASSUME NEW r \in RowsOf(v.ty), NEW s \in RowsOf(w.ty),
                      Tile(v.b, r, v.tx) = Tile(w.b, s, w.tx)
               PROVE  FALSE
    OBVIOUS
  <2>1. v.b = w.b /\ r = s /\ v.tx = w.tx
    BY DEF Tile
  <2>2. v.ty = w.ty
    BY <2>1 DEF RowsOf
  <2> QED
    BY <2>1, <2>2
<1>5. \A i, b, r, c : Out(i) # Tile(b, r, c)
  BY DEF Out, Tile
<1>6. v.b # w.b => tiles(v) \cap turned(w) = {} /\ turned(v) \cap tiles(w) = {} /\ tiles(v) \cap tiles(w) = {}
  BY DEF Tile
<1>7. outs(v) \cap turned(w) = {} /\ turned(v) \cap outs(w) = {}
      /\ outs(v) \cap tiles(w) = {} /\ tiles(v) \cap outs(w) = {}
  BY <1>5
<1>8. \A x \in tiles(v) \union tiles(w) \union outs(v) \union outs(w) : x[1] # "in"
  BY DEF Tile, Out
<1> HIDE DEF tiles, turned, outs
<1>9. e.to \cap f.to = {}
  BY <1>1, <1>3, <1>4, <1>7
<1>10. e.to \cap f.from = {}
  BY <1>1, <1>6, <1>7
<1>11. e.from \cap f.to = {}
  BY <1>1, <1>6, <1>7
<1>12. \A x \in e.to \union f.to : x[1] # "in"
  BY <1>1, <1>8
<1> QED
  BY <1>1, <1>9, <1>10, <1>11, <1>12 DEF Apart, e, f

LEMMA TileTransposeHasNoRace ==
  ASSUME NEW l, Supported(l), l.kernel = "transpose", Len(l.dims) = 2
  PROVE  RaceFree(Kernel(l))
<1> DEFINE g == TransposeGeometry(l)
           k == Kernel(l)
           n == l.shape[1] \div Device.tile
           at(id) == ThreadAt(g, id[1], id[2])
           FP == [id \in Ids(g) |-> TileFootprint(g, at(id))]
<1>1. l.shape \in Seq(Nat \ {0}) /\ l.shape[1] = l.shape[2]
      /\ l.dims \in Bijection(DOMAIN l.shape, DOMAIN l.shape)
  BY DEF Supported
<1>2. n \in Nat
  <2>1. DOMAIN l.shape = 1..Len(l.shape) /\ DOMAIN l.dims = DOMAIN l.shape /\ Len(l.shape) \in Nat
    BY <1>1 DEF Bijection, Injection
  <2>2. l.dims \in Seq(1..Len(l.shape))
    BY <1>1, <2>1 DEF Bijection, Injection
  <2>3. Len(l.shape) = 2
    BY <2>1, <2>2
  <2>4. l.shape[1] \in Nat
    BY <1>1, <2>3
  <2> QED
    BY <2>4, DeviceSizes, DivMod
<1>3. g = [grid |-> <<n, n>>, block |-> <<Device.tile, Device.rows>>]
  BY <1>1 DEF TransposeGeometry, Geometry
<1>4. k.code = [id \in Ids(g) |-> TransposeCode(l, g, at(id))]
  BY DEF Kernel, Ids
<1> HIDE DEF k, g, n
<1>5. IsGeometry(g) /\ g.grid[1] = n /\ g.grid[2] = n /\ g.block[1] = Device.tile
      /\ g.block[2] = Device.rows
  BY <1>2, <1>3, DeviceSizes DEF IsGeometry
<1>6. ASSUME NEW id \in Ids(g)
      PROVE  /\ InSquare(g, at(id)) /\ at(id).b = id[1] /\ id = <<id[1], id[2]>>
             /\ at(id).b = at(id).by * g.grid[1] + at(id).bx
             /\ id[2] = at(id).ty * g.block[1] + at(id).tx
  <2> DEFINE th == at(id)
  <2>1. InLaunch(g, id[1], id[2]) /\ id = <<id[1], id[2]>>
    BY <1>5, IdsInLaunch
  <2>2. /\ th.b = id[1]
        /\ th.bx \in 0..g.grid[1] - 1 /\ th.by \in 0..g.grid[2] - 1
        /\ th.tx \in 0..g.block[1] - 1 /\ th.ty \in 0..g.block[2] - 1
        /\ id[1] = th.by * g.grid[1] + th.bx
        /\ id[2] = th.ty * g.block[1] + th.tx
    BY <2>1, ThreadPlace
  <2> HIDE DEF th
  <2>3. InSquare(g, th)
    BY <1>2, <1>5, <2>2 DEF InSquare
  <2> QED
    BY <2>1, <2>2, <2>3 DEF th
<1>7. DOMAIN k.code = Ids(g) /\ \A id \in Ids(g) : FP[id] = TileFootprint(g, at(id))
  BY <1>4
<1> HIDE DEF FP
<1>8. ASSUME NEW id \in Ids(g) PROVE Does(k.code[id], 0, 1, FP[id])
  <2>1. Does(TransposeKernel2D(l, g, at(id)), 0, 1, TileFootprint(g, at(id)))
    BY <1>6, TransposeTileDoes
  <2>2. k.code[id] = TransposeKernel2D(l, g, at(id))
    BY <1>4 DEF TransposeCode
  <2> QED
    BY <1>7, <2>1, <2>2
<1>9. ASSUME NEW s \in Ids(g), NEW t \in Ids(g), NEW p \in Nat, NEW q \in Nat,
             s # t, s[1] = t[1] => p = q
      PROVE  Apart(FP[s][p], FP[t][q])
  <2> DEFINE v == at(s)
             w == at(t)
  <2>1. /\ InSquare(g, v) /\ v.b = s[1] /\ s = <<s[1], s[2]>>
        /\ v.b = v.by * g.grid[1] + v.bx /\ s[2] = v.ty * g.block[1] + v.tx
    BY <1>6
  <2>2. /\ InSquare(g, w) /\ w.b = t[1] /\ t = <<t[1], t[2]>>
        /\ w.b = w.by * g.grid[1] + w.bx /\ t[2] = w.ty * g.block[1] + w.tx
    BY <1>6
  <2> HIDE DEF v, w
  <2>3. ~(v.b = w.b /\ v.tx = w.tx /\ v.ty = w.ty)
    BY <1>9, <2>1, <2>2
  <2>4. v.b = w.b => p = q
    BY <1>9, <2>1, <2>2
  <2>5. Apart(TileFootprint(g, v)[p], TileFootprint(g, w)[q])
    BY <2>1, <2>2, <2>3, <2>4, TilesApart
  <2> QED
    BY <1>7, <2>5 DEF v, w
<1>10. \A th \in DOMAIN k.code : Does(k.code[th], 0, 1, FP[th])
  BY <1>7, <1>8
<1>11. \A s, t \in DOMAIN k.code : \A p, q \in Nat :
         s # t /\ (s[1] = t[1] => p = q) => Apart(FP[s][p], FP[t][q])
  BY <1>7, <1>9
<1> QED
  BY <1>10, <1>11, Footprints DEF k

(***************************************************************************)
(* The transpose of other tensors: two elements do not go to one place.    *)
(***************************************************************************)

LEMMA StrideDivides ==
  ASSUME NEW dims \in Seq(Nat \ {0}), NEW k \in 0..Len(dims), NEW j \in 0..k
  PROVE  \E w \in Nat : After(dims, j) = After(dims, k) * w
<1> DEFINE A(i) == After(dims, i)
           n == Len(dims)
<1>1. /\ \A i \in 0..n : A(i) \in Nat
      /\ \A i \in 1..n : A(i - 1) = A(i) * dims[i]
  BY AfterIs
<1>2. n \in Nat /\ \A i \in 1..n : dims[i] \in Nat
  OBVIOUS
<1> HIDE DEF A, n
<1> DEFINE T == {i \in Nat : i <= k => \E w \in Nat : A(k - i) = A(k) * w}
<1>3. 0 \in T
  <2>1. k - 0 = k /\ A(k) = A(k) * 1
    BY <1>1, <1>2 DEF n
  <2> QED
    BY <2>1
<1>4. ASSUME NEW i \in T PROVE i + 1 \in T
  <2>1. CASE i + 1 <= k
    <3>1. PICK w \in Nat : A(k - i) = A(k) * w
      BY <2>1
    <3>2. k - i \in 1..n /\ k - (i + 1) = (k - i) - 1 /\ k \in 0..n
      BY <1>2, <2>1 DEF n
    <3>3. A(k - (i + 1)) = A(k - i) * dims[k - i] /\ dims[k - i] \in Nat /\ A(k) \in Nat
      BY <1>1, <1>2, <3>2
    <3> DEFINE a == A(k)
               d == dims[k - i]
               b == A(k - (i + 1))
    <3>4. a \in Nat /\ d \in Nat /\ b = (a * w) * d
      BY <3>1, <3>3
    <3> HIDE DEF a, d, b
    <3>5. b = a * (w * d) /\ w * d \in Nat
      BY <3>4
    <3> QED
      BY <3>5 DEF a, b
  <2> QED
    BY <2>1
<1> HIDE DEF T
<1>5. T = Nat
  <2>1. T \in SUBSET Nat
    BY DEF T
  <2> QED
    BY <1>3, <1>4, <2>1, SetInduction
<1>6. k - j \in T /\ k - j <= k /\ k - (k - j) = j
  BY <1>2, <1>5 DEF n
<1> QED
  BY <1>6 DEF T, A

LEMMA MultiplesAdd ==
  ASSUME NEW a \in Int, NEW c \in Int, NEW z \in Int, NEW w \in Int, NEW x \in Int
  PROVE  a * (c * z + x) + a * (c * w) = a * (c * (z + w) + x)
OBVIOUS

LEMMA RestAdds ==
  ASSUME NEW a \in Int, NEW c \in Int, NEW z \in Int, NEW x \in Int
  PROVE  a * (c * z + 0) + a * x = a * (c * z + x)
OBVIOUS

\* The terms of two sums differ by multiples of a * c, but for term m, where
\* they differ by a * x.
DifferBy(s, t, n, m, a, c, x) ==
  /\ \A k \in 1..n : s[k] \in Int /\ t[k] \in Int
  /\ s[m] - t[m] = a * x
  /\ \A k \in 1..n : k # m => \E w \in Int : s[k] - t[k] = a * (c * w)

SumsDifferBy(f, h, n, a, c, x) == \E z \in Int : f[n] - h[n] = a * (c * z + x)

LEMMA SumsDiffer ==
  ASSUME NEW n \in Nat, NEW f, NEW h, NEW s, NEW t, IsSum(f, s, n), IsSum(h, t, n),
         NEW m \in 1..n, NEW a \in Int, NEW c \in Int, NEW x \in Int,
         DifferBy(s, t, n, m, a, c, x)
  PROVE  SumsDifferBy(f, h, n, a, c, x)
<1> DEFINE Rest(i) == IF m <= i THEN x ELSE 0
           Part(i) == \E z \in Int : f[i] - h[i] = a * (c * z + Rest(i))
           V == {i \in Nat : i <= n => Part(i)}
<1>1. 0 \in V
  <2>1. Rest(0) = 0 /\ f[0] - h[0] = 0
    BY DEF IsSum
  <2>2. a * (c * 0 + 0) = 0
    OBVIOUS
  <2> QED
    BY <2>1, <2>2
<1>2. ASSUME NEW i \in V PROVE i + 1 \in V
  <2> SUFFICES ASSUME i + 1 <= n PROVE Part(i + 1)
    OBVIOUS
  <2> DEFINE k == i + 1
             y == Rest(i)
             df == f[i] - h[i]
             ds == s[k] - t[k]
             dn == f[k] - h[k]
  <2>1. i \in Nat /\ Part(i) /\ k \in 1..n /\ i \in 0..n /\ k - 1 = i /\ i < k /\ i <= n
    OBVIOUS
  <2>2. PICK z \in Int : df = a * (c * z + y)
    BY <2>1
  <2>3. dn = df + ds
    <3>1. f[k] = f[i] + s[k] /\ h[k] = h[i] + t[k] /\ f[i] \in Int /\ h[i] \in Int
      BY <2>1 DEF IsSum
    <3>2. s[k] \in Int /\ t[k] \in Int
      BY <2>1 DEF DifferBy
    <3> QED
      BY <3>1, <3>2
  <2>4. CASE k = m
    <3>1. y = 0 /\ Rest(k) = x
      BY <2>1, <2>4
    <3>2. ds = a * x
      BY <2>4 DEF DifferBy
    <3> HIDE DEF Rest, df, ds, dn, y, k
    <3>3. dn = a * (c * z + x)
      BY <2>2, <2>3, <3>1, <3>2, RestAdds
    <3> QED
      BY <3>1, <3>3 DEF dn, k
  <2>5. CASE k # m
    <3>1. Rest(k) = y /\ y \in Int
      BY <2>1, <2>5
    <3>2. PICK w \in Int : ds = a * (c * w)
      BY <2>1, <2>5 DEF DifferBy
    <3> HIDE DEF Rest, df, ds, dn, y, k
    <3>3. dn = a * (c * (z + w) + y) /\ z + w \in Int
      BY <2>2, <2>3, <3>1, <3>2, MultiplesAdd
    <3> QED
      BY <3>1, <3>3 DEF dn, k
  <2> QED
    BY <2>4, <2>5
<1> HIDE DEF V
<1>3. V = Nat
  <2>1. V \in SUBSET Nat
    BY DEF V
  <2> QED
    BY <1>1, <1>2, <2>1, SetInduction
<1>4. Rest(n) = x /\ n <= n
  OBVIOUS
<1> HIDE DEF Rest
<1>5. Part(n)
  <2> HIDE DEF Part
  <2> QED
    BY <1>3, <1>4 DEF V
<1> QED
  BY <1>4, <1>5 DEF SumsDifferBy

\* Digits d with their places, and their total: digit n has place pos[n] of a
\* tensor of dimensions P.
IsPlacing(pos, P) ==
  /\ P \in Seq(Nat \ {0}) /\ pos \in [1..Len(P) -> 1..Len(P)]
  /\ \A m, n \in 1..Len(P) : pos[m] = pos[n] => m = n
  /\ \A k \in 1..Len(P) : \E n \in 1..Len(P) : pos[n] = k

Placed(s, d, pos, P) ==
  /\ s \in Seq(Int) /\ Len(s) = Len(P)
  /\ \A n \in 1..Len(P) : d[n] \in 0..P[pos[n]] - 1 /\ s[n] = After(P, pos[n]) * d[n]

LEMMA PlacingIs ==
  ASSUME NEW pos, NEW P, IsPlacing(pos, P)
  PROVE  /\ Len(P) \in Nat /\ \A n \in 1..Len(P) : pos[n] \in 1..Len(P)
         /\ \A k \in 1..Len(P) : P[k] \in Nat \ {0}
         /\ \A k \in 0..Len(P) : After(P, k) \in Nat \ {0}
         /\ \A k \in 1..Len(P) : After(P, k - 1) = After(P, k) * P[k]
<1>1. P \in Seq(Nat \ {0}) /\ pos \in [1..Len(P) -> 1..Len(P)]
  BY DEF IsPlacing
<1>2. Len(P) \in Nat /\ \A k \in 1..Len(P) : P[k] \in Nat \ {0}
  BY <1>1
<1>3. \A n \in 1..Len(P) : pos[n] \in 1..Len(P)
  BY <1>1
<1>4. /\ \A k \in 0..Len(P) : After(P, k) \in Nat \ {0}
      /\ \A k \in 1..Len(P) : After(P, k - 1) = After(P, k) * P[k]
  BY <1>1, AfterIs
<1> QED
  BY <1>2, <1>3, <1>4

LEMMA DigitDiffers ==
  ASSUME NEW a \in Int, NEW b \in Int, NEW w \in Int, NEW c \in Int, NEW d \in Int, NEW e \in Int,
         b = (a * c) * w
  PROVE  b * d - b * e = a * (c * (w * (d - e)))
OBVIOUS

\* Digits agree at a place if they do at those with smaller strides, and the
\* totals are equal.
LEMMA NextDigit ==
  ASSUME NEW pos, NEW P, IsPlacing(pos, P), NEW s, NEW t, NEW d, NEW e,
         Placed(s, d, pos, P), Placed(t, e, pos, P), Total(s) = Total(t), NEW m \in 1..Len(P),
         \A n \in 1..Len(P) : pos[n] > pos[m] => d[n] = e[n]
  PROVE  d[m] = e[m]
<1> DEFINE N == Len(P)
           K == pos[m]
           a == After(P, K)
           c == P[K]
           x == d[m] - e[m]
<1>1. N \in Nat /\ K \in 1..N /\ c \in Nat \ {0}
  BY PlacingIs
<1>2. a \in Nat \ {0} /\ After(P, K - 1) = a * c
  <2>1. K \in 0..N
    BY <1>1
  <2> QED
    BY <1>1, <2>1, PlacingIs
<1>3. d[m] \in 0..c - 1 /\ e[m] \in 0..c - 1 /\ x \in Int
  BY DEF Placed
<1>4. ASSUME NEW n \in 1..N
      PROVE  /\ s[n] = After(P, pos[n]) * d[n] /\ t[n] = After(P, pos[n]) * e[n]
             /\ d[n] \in Int /\ e[n] \in Int /\ pos[n] \in 1..N /\ After(P, pos[n]) \in Int
             /\ s[n] \in Int /\ t[n] \in Int
  <2>1. pos[n] \in 1..N /\ pos[n] \in 0..N
    BY <1>1, PlacingIs
  <2>2. After(P, pos[n]) \in Int
    BY <2>1, PlacingIs
  <2> DEFINE b == After(P, pos[n])
             u == d[n]
             v == e[n]
  <2>3. s[n] = b * u /\ t[n] = b * v /\ u \in Int /\ v \in Int
    BY DEF Placed
  <2> HIDE DEF b, u, v
  <2>4. b * u \in Int /\ b * v \in Int
    BY <2>2, <2>3 DEF b
  <2> QED
    BY <2>1, <2>2, <2>3, <2>4 DEF b, u, v
<1> HIDE DEF a, c
<1>5. DifferBy(s, t, N, m, a, c, x)
  <2>1. s[m] - t[m] = a * x
    <3> DEFINE u == d[m]
               v == e[m]
    <3>1. s[m] = a * u /\ t[m] = a * v /\ u \in Int /\ v \in Int
      BY <1>4 DEF a
    <3> HIDE DEF u, v
    <3>2. s[m] - t[m] = a * (u - v)
      BY <1>2, <3>1
    <3> QED
      BY <3>2 DEF u, v
  <2>2. ASSUME NEW n \in 1..N, n # m PROVE \E w \in Int : s[n] - t[n] = a * (c * w)
    <3>1. CASE pos[n] > K
      <4>1. s[n] = t[n] /\ s[n] \in Int
        BY <1>4, <3>1
      <4>2. s[n] - t[n] = 0 /\ 0 \in Int
        BY <4>1
      <4>3. a * (c * 0) = 0
        BY <1>1, <1>2
      <4> QED
        BY <4>2, <4>3
    <3>2. CASE ~(pos[n] > K)
      <4>1. pos[n] # K
        BY <1>1, <2>2 DEF IsPlacing
      <4>2. K - 1 \in 0..Len(P) /\ pos[n] \in 0..(K - 1)
        <5>1. pos[n] \in 1..N
          BY <1>4
        <5> QED
          BY <1>1, <3>2, <4>1, <5>1
      <4>3. PICK w \in Nat : After(P, pos[n]) = After(P, K - 1) * w
        <5>1. P \in Seq(Nat \ {0})
          BY DEF IsPlacing
        <5> HIDE DEF K
        <5> QED
          BY <4>2, <5>1, StrideDivides
      <4> DEFINE b == After(P, pos[n])
                 u == d[n]
                 v == e[n]
      <4>4. b = (a * c) * w /\ w \in Int /\ c \in Int /\ a \in Int
        BY <1>1, <1>2, <4>3
      <4>5. s[n] - t[n] = b * u - b * v /\ b \in Int /\ u \in Int /\ v \in Int
        BY <1>4
      <4> HIDE DEF b, u, v
      <4>6. b * u - b * v = a * (c * (w * (u - v)))
        BY <4>4, <4>5, DigitDiffers
      <4>7. w * (u - v) \in Int
        BY <4>4, <4>5
      <4> QED
        BY <4>5, <4>6, <4>7
    <3> QED
      BY <3>1, <3>2
  <2> HIDE DEF N, x
  <2>3. \A n \in 1..N : s[n] \in Int /\ t[n] \in Int
    BY <1>4
  <2> QED
    BY <2>1, <2>2, <2>3 DEF DifferBy
<1>6. PICK f : Total(s) = f[N] /\ IsSum(f, s, N)
  BY TotalIs DEF Placed
<1>7. PICK h : Total(t) = h[N] /\ IsSum(h, t, N)
  BY TotalIs DEF Placed
<1>x. x \in Int
  BY <1>3
<1> HIDE DEF x, N, K
<1>8. PICK z \in Int : f[N] - h[N] = a * (c * z + x)
  <2>1. N \in Nat /\ m \in 1..N /\ a \in Int /\ c \in Int /\ x \in Int
    BY <1>1, <1>2, <1>x DEF N
  <2>2. SumsDifferBy(f, h, N, a, c, x)
    BY <1>5, <1>6, <1>7, <2>1, SumsDiffer
  <2> QED
    BY <2>2 DEF SumsDifferBy
<1>9. f[N] - h[N] = 0
  <2>1. N \in 0..N
    BY <1>1
  <2>2. f[N] = h[N] /\ f[N] \in Int
    BY <1>6, <1>7, <2>1 DEF IsSum
  <2> QED
    BY <2>2
<1> DEFINE u == d[m]
           v == e[m]
           y == c * z + x
<1>10. y \in Int /\ a * y = 0
  BY <1>1, <1>3, <1>8, <1>9
<1> HIDE DEF y
<1>11. y = 0
  BY <1>2, <1>10
<1>12. u \in 0..c - 1 /\ v \in 0..c - 1 /\ x = u - v
  BY <1>3 DEF x
<1> HIDE DEF u, v
<1>13. InRow(c, z, u) = InRow(c, 0, v)
  BY <1>1, <1>11, <1>12 DEF InRow, y
<1>14. u = v
  BY <1>1, <1>12, <1>13, OneRow
<1> QED
  BY <1>14 DEF u, v

LEMMA DigitsOfTotal ==
  ASSUME NEW pos, NEW P, IsPlacing(pos, P), NEW s, NEW t, NEW d, NEW e,
         Placed(s, d, pos, P), Placed(t, e, pos, P), Total(s) = Total(t)
  PROVE  \A n \in 1..Len(P) : d[n] = e[n]
<1> DEFINE N == Len(P)
           Agree(j) == \A n \in 1..N : pos[n] > N - j => d[n] = e[n]
           T == {j \in Nat : j <= N => Agree(j)}
<1>1. N \in Nat /\ \A n \in 1..N : pos[n] \in 1..N
  BY PlacingIs
<1> HIDE DEF N
<1>2. 0 \in T
  BY <1>1
<1>3. ASSUME NEW j \in T PROVE j + 1 \in T
  <2> SUFFICES ASSUME j + 1 <= N, NEW n \in 1..N, pos[n] > N - (j + 1) PROVE d[n] = e[n]
    OBVIOUS
  <2>1. j \in Nat /\ Agree(j) /\ pos[n] \in 1..N
    BY <1>1
  <2>2. CASE pos[n] > N - j
    BY <2>1, <2>2
  <2>3. CASE ~(pos[n] > N - j)
    <3>1. pos[n] = N - j
      BY <1>1, <2>1, <2>3
    <3>2. \A k \in 1..N : pos[k] > pos[n] => d[k] = e[k]
      BY <2>1, <3>1
    <3> QED
      BY <3>2, NextDigit DEF N
  <2> QED
    BY <2>2, <2>3
<1> HIDE DEF T
<1>4. T = Nat
  <2>1. T \in SUBSET Nat
    BY DEF T
  <2> QED
    BY <1>2, <1>3, <2>1, SetInduction
<1>5. N <= N
  BY <1>1
<1>6. Agree(N)
  <2> HIDE DEF Agree
  <2> QED
    BY <1>1, <1>4, <1>5 DEF T
<1>7. \A n \in 1..N : pos[n] > N - N
  BY <1>1
<1> QED
  BY <1>6, <1>7 DEF N

\* d are the digits of index idx into a tensor of shape S, most significant
\* first, and r what is left after each.
IsDigits(d, r, S, idx) ==
  /\ r[0] = idx /\ r[Len(S)] = 0
  /\ \A n \in 1..Len(S) :
       /\ d[n] \in 0..S[n] - 1 /\ r[n - 1] \in Nat /\ r[n] \in Nat
       /\ r[n - 1] = After(S, n) * d[n] + r[n]

Leaves(r, l, idx) ==
  r = [n \in 0..Len(l.dims) |-> IF n = 0 THEN idx ELSE r[n - 1] % Strides(l.shape)[n]]

LEMMA LeavesExist ==
  ASSUME NEW l, l.shape \in Seq(Nat \ {0}), Len(l.dims) = Len(l.shape), NEW idx \in Nat
  PROVE  \E r : Leaves(r, l, idx)
<1> DEFINE N == Len(l.dims)
           step == [n \in 1..N |-> [v \in Nat |-> v % Strides(l.shape)[n]]]
<1>1. N \in Nat /\ \A n \in 1..N : Strides(l.shape)[n] \in Nat \ {0}
  <2>1. DOMAIN l.shape = 1..N /\ N \in Nat
    OBVIOUS
  <2>2. \A n \in 1..N : Strides(l.shape)[n] = After(l.shape, n)
    BY <2>1 DEF Strides
  <2>3. \A n \in 0..N : After(l.shape, n) \in Nat \ {0}
    BY AfterIs
  <2>4. \A n \in 1..N : n \in 0..N
    BY <2>1
  <2> QED
    BY <2>1, <2>2, <2>3, <2>4
<1> HIDE DEF N
<1>2. ASSUME NEW n \in 1..N, NEW v \in Nat
      PROVE  step[n][v] = v % Strides(l.shape)[n] /\ step[n][v] \in Nat
  <2>1. v % Strides(l.shape)[n] \in Nat
    BY <1>1, DivMod
  <2> QED
    BY <2>1
<1> HIDE DEF step
<1>3. PICK f \in [0..N -> Nat] : Recursive(f, idx, N, step)
  BY <1>1, <1>2, Recursion
<1>4. ASSUME NEW n \in 0..N PROVE f[n] = IF n = 0 THEN idx ELSE f[n - 1] % Strides(l.shape)[n]
  <2>1. CASE n = 0
    BY <1>3, <2>1 DEF Recursive
  <2>2. CASE n # 0
    <3>1. n \in 1..N /\ n - 1 \in 0..N
      BY <1>1, <2>2
    <3>2. f[n - 1] \in Nat
      BY <1>3, <3>1
    <3> QED
      BY <1>2, <1>3, <2>2, <3>1, <3>2 DEF Recursive
  <2> QED
    BY <2>1, <2>2
<1>5. f = [n \in 0..N |-> IF n = 0 THEN idx ELSE f[n - 1] % Strides(l.shape)[n]]
  BY <1>3, <1>4
<1> QED
  BY <1>5 DEF Leaves, N

LEMMA Digit ==
  ASSUME NEW v \in Nat, NEW a \in Nat \ {0}, NEW c \in Nat, v < a * c
  PROVE  v \div a \in 0..c - 1 /\ v % a \in Nat /\ v % a < a /\ v = a * (v \div a) + (v % a)
<1> DEFINE q == v \div a
           r == v % a
<1>1. v = a * q + r /\ r \in 0..a - 1 /\ q \in Nat
  BY DivMod
<1> HIDE DEF q
<1> HIDE DEF r
<1>2. a * q < a * c
  <2>1. a * q \in Nat /\ a * c \in Nat
    BY <1>1, Product
  <2> QED
    BY <1>1, <2>1
<1>3. q + 1 <= c
  BY <1>1, <1>2, NextFactor
<1> QED
  BY <1>1, <1>3 DEF q, r

LEMMA IndexDigits ==
  ASSUME NEW l, l.shape \in Seq(Nat \ {0}), DOMAIN l.dims = DOMAIN l.shape,
         Len(l.dims) = Len(l.shape), NEW idx \in 0..Volume(l.shape) - 1
  PROVE  \E d, r : /\ IsDigits(d, r, l.shape, idx)
                   /\ OutIndex(l, idx) = Total([n \in DOMAIN l.dims |-> OutStrides(l)[n] * d[n]])
<1> DEFINE N == Len(l.shape)
           A(n) == After(l.shape, n)
           r == CHOOSE f : Leaves(f, l, idx)
           d == [n \in DOMAIN l.dims |-> r[n - 1] \div Strides(l.shape)[n]]
<1>1. DOMAIN l.shape = 1..N /\ N \in Nat /\ \A n \in 1..N : l.shape[n] \in Nat
  OBVIOUS
<1>2. /\ A(N) = 1 /\ \A n \in 0..N : A(n) \in Nat \ {0}
      /\ \A n \in 1..N : A(n - 1) = A(n) * l.shape[n]
  BY AfterIs
<1>3. \A n \in 1..N : Strides(l.shape)[n] = A(n)
  BY <1>1 DEF Strides
<1>4. OutIndex(l, idx) = Total([n \in DOMAIN l.dims |-> OutStrides(l)[n] * d[n]])
  <2> DEFINE c == [n \in DOMAIN l.dims |-> OutStrides(l)[n] * (r[n - 1] \div Strides(l.shape)[n])]
  <2>1. OutIndex(l, idx) = Total(c)
    BY DEF OutIndex, Leaves
  <2> HIDE DEF r
  <2>2. c = [n \in DOMAIN l.dims |-> OutStrides(l)[n] * d[n]]
    OBVIOUS
  <2> QED
    BY <2>1, <2>2
<1>5. Leaves(r, l, idx)
  <2>1. idx \in Nat
    <3>1. 0 \in 0..N
      BY <1>1
    <3>2. Volume(l.shape) \in Nat
      BY <1>2, <3>1 DEF Volume
    <3> QED
      BY <3>2
  <2> QED
    BY <2>1, LeavesExist
<1> HIDE DEF r
<1> DEFINE W(f, n) == IF n = 0 THEN idx ELSE f[n - 1] % Strides(l.shape)[n]
<1>6. \A n \in 0..N : r[n] = W(r, n)
  <2>1. r = [n \in 0..N |-> W(r, n)]
    BY <1>5 DEF Leaves
  <2> HIDE DEF W, N
  <2> QED
    BY <2>1
<1>7. r[0] = idx /\ \A n \in 1..N : r[n] = r[n - 1] % A(n)
  <2>1. 0 \in 0..N /\ \A n \in 1..N : n \in 0..N /\ n # 0
    BY <1>1
  <2> HIDE DEF N, A
  <2> QED
    BY <1>3, <1>6, <2>1
<1> HIDE DEF W, N, A
<1> DEFINE T == {n \in Nat : n <= N => r[n] \in Nat /\ r[n] < A(n)}
<1>8. 0 \in T
  <2>1. Volume(l.shape) = A(0) /\ 0 \in 0..N
    BY <1>1 DEF Volume, A
  <2> QED
    BY <1>2, <1>7, <2>1
<1>9. ASSUME NEW n \in T PROVE n + 1 \in T
  <2>1. CASE n + 1 <= N
    <3>1. n + 1 \in 1..N /\ n + 1 \in 0..N /\ (n + 1) - 1 = n /\ r[n] \in Nat
      BY <1>1, <2>1
    <3>2. r[n + 1] = r[n] % A(n + 1) /\ A(n + 1) \in Nat \ {0}
      BY <1>2, <1>7, <3>1
    <3>3. r[n] % A(n + 1) \in 0..A(n + 1) - 1 /\ r[n] % A(n + 1) \in Nat
      BY <3>1, <3>2, DivMod
    <3> QED
      BY <3>1, <3>2, <3>3
  <2> QED
    BY <2>1
<1> HIDE DEF T
<1>10. T = Nat
  <2>1. T \in SUBSET Nat
    BY DEF T
  <2> QED
    BY <1>8, <1>9, <2>1, SetInduction
<1>11. \A n \in 0..N : r[n] \in Nat /\ r[n] < A(n)
  BY <1>10 DEF T
<1>12. \A n \in 1..N : d[n] = r[n - 1] \div A(n)
  BY <1>1, <1>3
<1> HIDE DEF d
<1>13. ASSUME NEW n \in 1..N
       PROVE  /\ d[n] \in 0..l.shape[n] - 1 /\ r[n - 1] \in Nat /\ r[n] \in Nat
              /\ r[n - 1] = A(n) * d[n] + r[n]
  <2> DEFINE v == r[n - 1]
             a == A(n)
             c == l.shape[n]
  <2>1. n - 1 \in 0..N /\ n \in 0..N
    BY <1>1
  <2>2. v \in Nat /\ a \in Nat \ {0} /\ c \in Nat /\ v < a * c /\ r[n] \in Nat
    BY <1>1, <1>2, <1>11, <2>1
  <2>3. d[n] = v \div a /\ r[n] = v % a
    BY <1>7, <1>12
  <2> HIDE DEF v, a, c
  <2>4. v \div a \in 0..c - 1 /\ v = a * (v \div a) + (v % a)
    BY <2>2, Digit
  <2>5. d[n] \in 0..c - 1 /\ v \in Nat /\ r[n] \in Nat /\ v = a * d[n] + r[n]
    BY <2>2, <2>3, <2>4
  <2> QED
    BY <2>5 DEF v, a, c
<1>14. r[N] = 0
  BY <1>1, <1>2, <1>11
<1>15. IsDigits(d, r, l.shape, idx)
  BY <1>7, <1>13, <1>14 DEF IsDigits, N, A
<1> QED
  BY <1>4, <1>15

LEMMA SameDigits ==
  ASSUME NEW S, Len(S) \in Nat, NEW d, NEW r, NEW i, NEW e, NEW q, NEW j,
         IsDigits(d, r, S, i), IsDigits(e, q, S, j), \A n \in 1..Len(S) : d[n] = e[n]
  PROVE  i = j
<1> DEFINE N == Len(S)
           T == {k \in Nat : k <= N => r[N - k] = q[N - k]}
<1>1. 0 \in T
  BY DEF IsDigits
<1>2. ASSUME NEW k \in T PROVE k + 1 \in T
  <2>1. CASE k + 1 <= N
    <3> DEFINE n == N - k
    <3>1. n \in 1..N /\ N - (k + 1) = n - 1 /\ r[n] = q[n] /\ d[n] = e[n]
      BY <2>1
    <3> HIDE DEF n
    <3>2. r[n - 1] = After(S, n) * d[n] + r[n] /\ q[n - 1] = After(S, n) * e[n] + q[n]
      BY <3>1 DEF IsDigits
    <3>3. r[n - 1] = q[n - 1]
      BY <3>1, <3>2, Zenon
    <3> QED
      BY <3>1, <3>3
  <2> QED
    BY <2>1
<1> HIDE DEF T
<1>3. T = Nat
  <2>1. T \in SUBSET Nat
    BY DEF T
  <2> QED
    BY <1>1, <1>2, <2>1, SetInduction
<1>4. r[0] = q[0]
  <2>1. N \in T /\ N <= N /\ N - N = 0
    BY <1>3
  <2> QED
    BY <2>1 DEF T
<1> QED
  BY <1>4 DEF IsDigits

\* CopyToPosition of the generic transpose: whatever the shape and the
\* permutation of its dimensions, two elements never go to one place.
THEOREM OutIndexInjective ==
  ASSUME NEW l, l.shape \in Seq(Nat \ {0}), l.dims \in Bijection(DOMAIN l.shape, DOMAIN l.shape),
         NEW i \in 0..Volume(l.shape) - 1, NEW j \in 0..Volume(l.shape) - 1,
         OutIndex(l, i) = OutIndex(l, j)
  PROVE  i = j
<1> DEFINE N == Len(l.shape)
           P == Permuted(l)
           pos == [n \in 1..N |-> CHOOSE k \in 1..N : l.dims[k] = n]
           terms(d) == [n \in DOMAIN l.dims |-> OutStrides(l)[n] * d[n]]
<1>1. DOMAIN l.shape = 1..N /\ N \in Nat /\ \A n \in 1..N : l.shape[n] \in Nat \ {0}
  OBVIOUS
<1>2. /\ l.dims \in [1..N -> 1..N]
      /\ \A m, n \in 1..N : l.dims[m] = l.dims[n] => m = n
      /\ \A n \in 1..N : \E k \in 1..N : l.dims[k] = n
  <2>1. l.dims \in Bijection(1..N, 1..N)
    BY <1>1
  <2>2. l.dims \in [1..N -> 1..N]
    BY <2>1 DEF Bijection, Injection
  <2>3. DOMAIN l.dims = 1..N
    BY <2>2
  <2> QED
    BY <2>1, <2>2, <2>3 DEF Bijection, Injection, Surjection, IsInjective
<1>3. DOMAIN l.dims = 1..N /\ Len(l.dims) = N
  <2>1. DOMAIN l.dims = 1..N
    BY <1>2
  <2>2. N \in Nat /\ l.dims \in [1..N -> 1..N]
    BY <1>1, <1>2
  <2> HIDE DEF N
  <2>3. Len(l.dims) = N
    BY <2>2, IsSequence
  <2> QED
    BY <2>1, <2>3
<1>4. \A n \in 1..N : pos[n] \in 1..N /\ l.dims[pos[n]] = n
  BY <1>2
<1>5. P = [n \in 1..N |-> l.shape[l.dims[n]]]
  BY <1>3 DEF Permuted
<1> HIDE DEF P, N
<1>6. P \in Seq(Nat \ {0}) /\ Len(P) = N /\ DOMAIN P = 1..N
      /\ \A n \in 1..N : P[n] = l.shape[l.dims[n]]
  <2>1. \A n \in 1..N : P[n] = l.shape[l.dims[n]] /\ P[n] \in Nat \ {0}
    BY <1>1, <1>2, <1>5
  <2>2. P = [n \in 1..N |-> P[n]]
    BY <1>5, <2>1
  <2> DEFINE Q == Nat \ {0}
  <2>3. P \in [1..N -> Q]
    BY <2>1, <2>2
  <2> HIDE DEF Q
  <2>4. P \in Seq(Q) /\ Len(P) = N
    BY <1>1, <2>3, IsSequence
  <2> QED
    BY <2>1, <2>3, <2>4 DEF Q
<1>7. \A n \in 1..N : OutStrides(l)[n] = After(P, pos[n])
  <2> TAKE n \in 1..N
  <2>1. OutStrides(l)[n] = Strides(P)[CHOOSE k \in DOMAIN l.dims : l.dims[k] = n]
    BY <1>3 DEF OutStrides, P
  <2>2. OutStrides(l)[n] = Strides(P)[pos[n]]
    BY <1>3, <2>1
  <2> QED
    BY <1>4, <1>6, <2>2 DEF Strides
<1> HIDE DEF pos
<1>8. IsPlacing(pos, P)
  <2>1. pos \in [1..N -> 1..N]
    BY <1>4 DEF pos
  <2>2. \A m, n \in 1..N : pos[m] = pos[n] => m = n
    BY <1>4
  <2>3. \A k \in 1..N : \E n \in 1..N : pos[n] = k
    <3> TAKE k \in 1..N
    <3>1. l.dims[k] \in 1..N
      BY <1>2
    <3>2. l.dims[pos[l.dims[k]]] = l.dims[k] /\ pos[l.dims[k]] \in 1..N
      BY <1>4, <3>1
    <3>3. pos[l.dims[k]] = k
      BY <1>2, <3>2
    <3> QED
      BY <3>1, <3>3
  <2> QED
    BY <1>6, <2>1, <2>2, <2>3 DEF IsPlacing
<1>9. ASSUME NEW x \in 0..Volume(l.shape) - 1, NEW d, NEW r, IsDigits(d, r, l.shape, x)
      PROVE  Placed(terms(d), d, pos, P)
  <2> DEFINE s == terms(d)
  <2>1. \A n \in 1..N : d[n] \in 0..l.shape[n] - 1
    BY <1>9 DEF IsDigits, N
  <2>2. \A n \in 1..N : l.shape[n] = P[pos[n]]
    BY <1>4, <1>6
  <2>3. s = [n \in 1..N |-> OutStrides(l)[n] * d[n]]
    BY <1>3
  <2>4. ASSUME NEW n \in 1..N
        PROVE  s[n] = After(P, pos[n]) * d[n] /\ s[n] \in Int /\ d[n] \in 0..P[pos[n]] - 1
    <3>1. s[n] = After(P, pos[n]) * d[n]
      BY <1>7, <2>3
    <3>2. After(P, pos[n]) \in Nat
      <4>1. pos[n] \in 0..Len(P)
        BY <1>1, <1>4, <1>6
      <4> QED
        BY <1>8, <4>1, PlacingIs
    <3>3. d[n] \in Int
      BY <1>1, <2>1
    <3>4. d[n] \in 0..P[pos[n]] - 1
      BY <2>1, <2>2
    <3> DEFINE a == After(P, pos[n])
               b == d[n]
    <3> HIDE DEF a, b
    <3>5. a * b \in Int
      BY <3>2, <3>3 DEF a, b
    <3> QED
      BY <3>1, <3>4, <3>5 DEF a, b
  <2>5. s = [n \in 1..N |-> s[n]]
    BY <2>3
  <2> HIDE DEF s
  <2>6. s \in Seq(Int) /\ Len(s) = N
    <3>1. s \in [1..N -> Int]
      BY <2>4, <2>5
    <3> DEFINE Q == Int
    <3>2. s \in [1..N -> Q]
      BY <3>1
    <3> HIDE DEF Q
    <3>3. s \in Seq(Q) /\ Len(s) = N
      BY <1>1, <3>2, IsSequence
    <3> QED
      BY <3>3 DEF Q
  <2> QED
    BY <1>6, <2>4, <2>6 DEF Placed, s
<1>10. PICK d, r : IsDigits(d, r, l.shape, i) /\ OutIndex(l, i) = Total(terms(d))
  BY <1>1, <1>3, IndexDigits DEF N
<1>11. PICK e, q : IsDigits(e, q, l.shape, j) /\ OutIndex(l, j) = Total(terms(e))
  BY <1>1, <1>3, IndexDigits DEF N
<1>12. Placed(terms(d), d, pos, P) /\ Placed(terms(e), e, pos, P)
  BY <1>9, <1>10, <1>11
<1>13. Total(terms(d)) = Total(terms(e))
  BY <1>10, <1>11
<1> HIDE DEF terms
<1>14. \A n \in 1..Len(P) : d[n] = e[n]
  BY <1>8, <1>12, <1>13, DigitsOfTotal
<1>15. Len(l.shape) \in Nat /\ \A n \in 1..Len(l.shape) : d[n] = e[n]
  BY <1>1, <1>6, <1>14 DEF N
<1> QED
  BY <1>10, <1>11, <1>15, SameDigits

\* The places of the elements of a thread.
Moved(l, W, x) == {OutIndex(l, idx) : idx \in {i \in 0..Volume(l.shape) - 1 : i % W = x}}

LEMMA CopyDoes ==
  ASSUME NEW l, NEW W, NEW x, NEW idx \in 0..Volume(l.shape) - 1, idx % W = x
  PROVE  Does(CopyToPosition(l, idx), 0, 0, ToCells(Moved(l, W, x)))
<1> DEFINE fp == ToCells(Moved(l, W, x))
           from == <<In(1, idx)>>
<1>1. CopyToPosition(l, idx) = Put(Out(OutIndex(l, idx)), from)
  BY DEF CopyToPosition
<1>2. \A i \in DOMAIN from : from[i][1] = "in"
  BY DEF In
<1> HIDE DEF from
<1>3. OutIndex(l, idx) \in Moved(l, W, x)
  BY DEF Moved
<1>4. fp[0].op = "put" /\ Out(OutIndex(l, idx)) \in fp[0].to
  BY <1>3 DEF ToCells, Writes
<1> HIDE DEF fp
<1> QED
  BY <1>1, <1>2, <1>4, DoesPut DEF fp

LEMMA TransposeDoes ==
  ASSUME NEW l, NEW g, NEW th, Volume(l.shape) \in Nat, GridWidth(g) \in Nat \ {0},
         X(g, th) \in 0..GridWidth(g) - 1
  PROVE  Does(TransposeKernel(l, g, th), 0, 0, ToCells(Moved(l, GridWidth(g), X(g, th))))
<1> DEFINE V == Volume(l.shape)
           W == GridWidth(g)
           x == X(g, th)
           round == V \div W
           tail == x + round * W
           fp == ToCells(Moved(l, W, x))
           at == [k \in 1..round |-> x + (k - 1) * W]
           codes == [k \in DOMAIN at |-> CopyToPosition(l, at[k])]
<1>1. TransposeKernel(l, g, th) = InOrder(codes) \o When(tail < V, CopyToPosition(l, tail))
  BY DEF TransposeKernel, ForEach
<1>2. V = W * round + (V % W) /\ V % W \in Nat /\ round \in Nat
  BY DivMod
<1>3. DOMAIN at = 1..round
  OBVIOUS
<1>4. V \in Nat /\ W \in Nat \ {0} /\ x \in 0..W - 1 /\ x \in Nat /\ x % W = x
  OBVIOUS
<1> HIDE DEF V, W, x, round
<1>5. ASSUME NEW k \in 1..round
      PROVE  x + (k - 1) * W \in 0..V - 1 /\ (x + (k - 1) * W) % W = x
  <2>1. k - 1 \in 0..round - 1 /\ k - 1 \in Nat
    BY <1>2
  <2>2. (k - 1) * W + x \in 0..round * W - 1
    BY <1>2, <1>4, <2>1, RowAndColumn
  <2>3. (x + (k - 1) * W) % W = x
    BY <1>4, <2>1, ModStep
  <2>4. round * W \in Nat /\ W * round = round * W /\ (k - 1) * W \in Nat
    BY <1>2, <1>4, <2>1
  <2> DEFINE a == (k - 1) * W
             b == round * W
  <2> HIDE DEF a, b
  <2>5. x + a \in 0..V - 1
    BY <1>2, <1>4, <2>2, <2>4 DEF a, b
  <2> QED
    BY <2>3, <2>5 DEF a
<1>6. Does(InOrder(codes), 0, 0, fp)
  <2>1. ASSUME NEW k \in 1..round PROVE Does(codes[k], 0, 0, fp)
    <3>1. at[k] = x + (k - 1) * W /\ codes[k] = CopyToPosition(l, at[k])
      OBVIOUS
    <3>2. at[k] \in 0..V - 1 /\ at[k] % W = x
      BY <1>5, <3>1
    <3> HIDE DEF at, codes, fp
    <3>3. Does(CopyToPosition(l, at[k]), 0, 0, fp)
      BY <3>2, CopyDoes DEF V, fp
    <3> QED
      BY <3>1, <3>3
  <2>2. codes = [k \in 1..round |-> codes[k]]
    OBVIOUS
  <2> HIDE DEF codes, fp
  <2> QED
    BY <1>2, <2>1, <2>2, DoesLoop
<1>7. Does(When(tail < V, CopyToPosition(l, tail)), 0, 0, fp)
  <2>1. tail \in Nat /\ tail % W = x
    BY <1>2, <1>4, ModStep
  <2> HIDE DEF tail
  <2>2. tail < V => tail \in 0..V - 1
    BY <1>4, <2>1
  <2>3. tail < V => Does(CopyToPosition(l, tail), 0, 0, fp)
    BY <2>1, <2>2, CopyDoes DEF V
  <2> HIDE DEF fp
  <2> QED
    BY <2>3, DoesWhen
<1> HIDE DEF codes, fp, tail
<1>8. Does(InOrder(codes) \o When(tail < V, CopyToPosition(l, tail)), 0, 0, fp)
  BY <1>6, <1>7, DoesBoth
<1> QED
  BY <1>1, <1>8 DEF fp, W, x

LEMMA TransposeHasNoRace ==
  ASSUME NEW l, Supported(l), l.kernel = "transpose", Len(l.dims) # 2
  PROVE  RaceFree(Kernel(l))
<1> DEFINE g == TransposeGeometry(l)
           k == Kernel(l)
           W == GridWidth(g)
           at(id) == ThreadAt(g, id[1], id[2])
           Cells == [id \in Ids(g) |-> Moved(l, W, X(g, at(id)))]
<1>1. l.shape \in Seq(Nat \ {0}) /\ l.dims \in Bijection(DOMAIN l.shape, DOMAIN l.shape)
  BY DEF Supported
<1>2. Volume(l.shape) \in Nat
  <2>1. 0 \in 0..Len(l.shape)
    BY <1>1
  <2> QED
    BY <1>1, <2>1, AfterIs DEF Volume
<1>3. g = [grid |-> <<Device.grid, 1>>, block |-> <<Device.block, 1>>]
  BY DEF TransposeGeometry, Geometry
<1>4. k.code = [id \in Ids(g) |-> TransposeCode(l, g, at(id))]
  BY DEF Kernel, Ids
<1> HIDE DEF k, g
<1>5. IsGeometry(g) /\ g.grid[2] = 1 /\ g.block[2] = 1
  BY <1>3, DeviceSizes DEF IsGeometry
<1>6. ASSUME NEW id \in Ids(g)
      PROVE  /\ InLaunch(g, id[1], id[2]) /\ id = <<id[1], id[2]>>
             /\ W \in Nat \ {0} /\ GridHeight(g) = 1
             /\ X(g, at(id)) \in 0..W - 1 /\ Y(g, at(id)) \in 0..GridHeight(g) - 1
  <2>1. GridHeight(g) = 1
    BY <1>5 DEF GridHeight
  <2> QED
    BY <1>5, <2>1, IdsInLaunch, GridPlace
<1>7. DOMAIN k.code = Ids(g) /\ \A id \in Ids(g) : Cells[id] = Moved(l, W, X(g, at(id)))
  BY <1>4
<1> HIDE DEF Cells
<1>8. ASSUME NEW id \in Ids(g) PROVE Does(k.code[id], 0, 0, ToCells(Cells[id]))
  <2>1. Does(TransposeKernel(l, g, at(id)), 0, 0, ToCells(Moved(l, W, X(g, at(id)))))
    BY <1>2, <1>6, TransposeDoes
  <2>2. k.code[id] = TransposeKernel(l, g, at(id))
    BY <1>4 DEF TransposeCode
  <2> QED
    BY <1>7, <2>1, <2>2
<1>9. ASSUME NEW s \in Ids(g), NEW t \in Ids(g), s # t
      PROVE  Cells[s] \cap Cells[t] = {}
  <2> DEFINE v == at(s)
             w == at(t)
  <2>1. ~(s[1] = t[1] /\ s[2] = t[2])
    BY <1>6, <1>9
  <2>2. Y(g, v) = Y(g, w)
    <3>1. Y(g, v) \in 0..GridHeight(g) - 1 /\ Y(g, w) \in 0..GridHeight(g) - 1 /\ GridHeight(g) = 1
      BY <1>6
    <3> HIDE DEF v, w
    <3> QED
      BY <3>1
  <2>3. X(g, v) # X(g, w)
    BY <1>6, <2>1, <2>2, PlaceIsOwn
  <2>4. Cells[s] = Moved(l, W, X(g, v)) /\ Cells[t] = Moved(l, W, X(g, w))
    BY <1>7
  <2> HIDE DEF v, w, W
  <2>5. SUFFICES ASSUME NEW i \in 0..Volume(l.shape) - 1, NEW j \in 0..Volume(l.shape) - 1,
                        OutIndex(l, i) = OutIndex(l, j), i % W = X(g, v), j % W = X(g, w)
                 PROVE  FALSE
    BY <2>4 DEF Moved
  <2>6. i = j
    BY <1>1, <2>5, OutIndexInjective
  <2> QED
    BY <2>3, <2>5, <2>6
<1>10. \A th \in DOMAIN k.code : Does(k.code[th], 0, 0, ToCells(Cells[th]))
  BY <1>7, <1>8
<1> QED
  BY <1>7, <1>9, <1>10, OwnCells DEF k

(***************************************************************************)
(* Softmax: two reductions, each of three phases.                          *)
(***************************************************************************)

\* The registers of a thread, and the elements of its row it goes through.
Private(l, g, th) ==
  {Reg(th, name) : name \in {"max", "shift", "sum", "scale"}}
  \union {Out(th.bx * l.width + k) : k \in {i \in 0..l.width - 1 : i % g.block[1] = th.tx}}

ShmWritten(th, p) ==
  IF p \in {1, 6} /\ th.t < Device.warp THEN {Shm(th.b, th.t)}
  ELSE IF p \in {2, 7} /\ th.t % Device.warp = 0 THEN {Shm(th.b, th.t \div Device.warp)}
  ELSE IF p \in {3, 8} /\ th.t = 0 THEN {Shm(th.b, 0)}
  ELSE {}

ShmRead(th, p) ==
  IF p \in {3, 8} THEN {Shm(th.b, th.t)} ELSE IF p \in {4, 9} THEN {Shm(th.b, 0)} ELSE {}

SoftmaxFootprint(l, g, th) ==
  [p \in Nat |-> Writes(Private(l, g, th) \union ShmWritten(th, p),
                        Private(l, g, th) \union ShmRead(th, p))]

LEMMA SoftmaxMay ==
  ASSUME NEW l, NEW g, NEW th, NEW p \in Nat
  PROVE  /\ SoftmaxFootprint(l, g, th)[p].op = "put"
         /\ SoftmaxFootprint(l, g, th)[p].to = Private(l, g, th) \union ShmWritten(th, p)
         /\ SoftmaxFootprint(l, g, th)[p].from = Private(l, g, th) \union ShmRead(th, p)
BY DEF SoftmaxFootprint, Writes

\* An instruction of one thread that uses registers, elements and shared memory.
LEMMA DoesStep ==
  ASSUME NEW l, NEW g, NEW th, NEW p \in Nat, NEW to, NEW from,
         to \in Private(l, g, th) \union ShmWritten(th, p),
         \A i \in DOMAIN from :
           from[i][1] = "in" \/ from[i] \in Private(l, g, th) \union ShmRead(th, p)
  PROVE  Does(Put(to, from), p, p, SoftmaxFootprint(l, g, th))
<1> DEFINE fp == SoftmaxFootprint(l, g, th)
<1>1. /\ fp[p].op = "put" /\ to \in fp[p].to
      /\ \A i \in DOMAIN from : from[i][1] = "in" \/ from[i] \in fp[p].from
  BY SoftmaxMay
<1> HIDE DEF fp
<1> QED
  BY <1>1, DoesPut DEF fp

LEMMA OwnIs ==
  ASSUME NEW l, NEW g, NEW th, l.width \in Nat, g.block[1] \in Nat \ {0},
         th.tx \in 0..g.block[1] - 1
  PROVE  \E n \in Nat : /\ DOMAIN Own(l, g, th) = 1..n
                        /\ \A k \in 1..n : Out(Own(l, g, th)[k]) \in Private(l, g, th)
<1> DEFINE s == Loop(th.tx, g.block[1], l.width)
<1>1. PICK n \in Nat : IsLoop(s, n, th.tx, g.block[1], l.width)
  <2>1. th.tx \in Nat
    OBVIOUS
  <2> QED
    BY <2>1, LoopIs
<1>2. Own(l, g, th) = [k \in DOMAIN s |-> th.bx * l.width + s[k]]
  BY DEF Own
<1> HIDE DEF s
<1>3. DOMAIN s = 1..n /\ \A k \in 1..n : s[k] \in 0..l.width - 1 /\ s[k] % g.block[1] = th.tx % g.block[1]
  BY <1>1 DEF IsLoop
<1>4. th.tx % g.block[1] = th.tx
  OBVIOUS
<1>5. ASSUME NEW k \in 1..n PROVE Out(Own(l, g, th)[k]) \in Private(l, g, th)
  <2>1. Own(l, g, th)[k] = th.bx * l.width + s[k]
    BY <1>2, <1>3
  <2>2. s[k] \in {i \in 0..l.width - 1 : i % g.block[1] = th.tx}
    BY <1>3, <1>4
  <2> QED
    BY <2>1, <2>2 DEF Private
<1>6. DOMAIN Own(l, g, th) = 1..n
  BY <1>2, <1>3
<1> QED
  BY <1>5, <1>6

\* A thread of a launch of the kernel.
InRows(l, g, th) ==
  l.width \in Nat /\ g.block[1] \in Nat \ {0} /\ th.tx \in 0..g.block[1] - 1 /\ th.t \in Nat

LEMMA DoesShuffleTree ==
  ASSUME NEW fp, NEW p \in Nat, NEW reg PROVE Does(ShuffleTree(reg), p, p, fp)
<1> DEFINE s == [k \in 1..Device.warp - 1 |-> Device.warp - k]
           codes == [k \in DOMAIN s |-> When(s[k] \in PowersOf2(Device.warp), ShuffleDown(reg, s[k]))]
           n == Device.warp - 1
<1>1. ShuffleTree(reg) = InOrder(codes)
  BY DEF ShuffleTree, ForEach
<1>2. n \in Nat /\ DOMAIN s = 1..n
  BY DeviceSizes
<1> HIDE DEF s
<1>3. ASSUME NEW k \in 1..n PROVE Does(codes[k], p, p, fp)
  <2>1. codes[k] = When(s[k] \in PowersOf2(Device.warp), ShuffleDown(reg, s[k]))
    BY <1>2
  <2> HIDE DEF codes
  <2>2. Does(ShuffleDown(reg, s[k]), p, p, fp)
    BY DoesShuffle
  <2> DEFINE test == s[k] \in PowersOf2(Device.warp)
             c == ShuffleDown(reg, s[k])
  <2> HIDE DEF test, c
  <2>3. Does(When(test, c), p, p, fp)
    BY <2>2, DoesWhen DEF c
  <2> QED
    BY <2>1, <2>3 DEF test, c
<1>4. codes = [k \in 1..n |-> codes[k]]
  BY <1>2
<1> HIDE DEF codes, n
<1> QED
  BY <1>1, <1>2, <1>3, <1>4, DoesLoop

LEMMA ReduceDoes ==
  ASSUME NEW l, NEW g, NEW th, InRows(l, g, th), NEW p \in {1, 6}, NEW reg,
         reg \in Private(l, g, th)
  PROVE  Does(Reduce(th, reg), p, p + 2, SoftmaxFootprint(l, g, th))
<1> DEFINE fp == SoftmaxFootprint(l, g, th)
           c == When(th.t < Device.warp, Put(Shm(th.b, th.t), <<>>))
           d == When(th.t % Device.warp = 0, Put(Shm(th.b, th.t \div Device.warp), <<reg>>))
           load == Put(reg, <<Shm(th.b, th.t)>>)
           e == When(th.t < Device.warp, load \o ShuffleTree(reg))
           tree == ShuffleTree(reg)
<1>1. Reduce(th, reg) = ((((tree \o c) \o SyncThreads) \o d) \o SyncThreads) \o e
  BY DEF Reduce
<1>2. p \in Nat /\ p + 1 \in Nat /\ p + 2 \in Nat /\ p + 1 \in {2, 7} /\ p + 2 \in {3, 8}
      /\ (p + 1) + 1 = p + 2
  OBVIOUS
<1>3. Does(tree, p, p, fp) /\ Does(tree, p + 2, p + 2, fp)
  BY <1>2, DoesShuffleTree
<1>4. Does(c, p, p, fp)
  <2> DEFINE x == Put(Shm(th.b, th.t), <<>>)
  <2>1. ASSUME th.t < Device.warp PROVE Does(x, p, p, fp)
    <3>1. Shm(th.b, th.t) \in ShmWritten(th, p)
      BY <2>1 DEF ShmWritten
    <3>2. \A i \in DOMAIN <<>> : FALSE
      OBVIOUS
    <3> HIDE DEF fp
    <3> QED
      BY <1>2, <3>1, <3>2, DoesStep DEF fp
  <2> HIDE DEF x, fp
  <2> QED
    BY <1>2, <2>1, DoesWhen DEF x
<1>5. Does(d, p + 1, p + 1, fp)
  <2> DEFINE x == Put(Shm(th.b, th.t \div Device.warp), <<reg>>)
  <2>1. ASSUME th.t % Device.warp = 0 PROVE Does(x, p + 1, p + 1, fp)
    <3> DEFINE from == <<reg>>
               to == Shm(th.b, th.t \div Device.warp)
    <3>1. to \in ShmWritten(th, p + 1)
      BY <1>2, <2>1 DEF ShmWritten
    <3>2. \A i \in DOMAIN from : from[i] = reg
      OBVIOUS
    <3> HIDE DEF fp, from, to
    <3>3. Does(Put(to, from), p + 1, p + 1, fp)
      BY <1>2, <3>1, <3>2, DoesStep DEF fp
    <3> QED
      BY <3>3 DEF from, to
  <2> HIDE DEF x, fp
  <2> QED
    BY <1>2, <2>1, DoesWhen DEF x
<1>6. Does(e, p + 2, p + 2, fp)
  <2>1. Does(load, p + 2, p + 2, fp)
    <3> DEFINE from == <<Shm(th.b, th.t)>>
    <3>1. Shm(th.b, th.t) \in ShmRead(th, p + 2)
      BY <1>2 DEF ShmRead
    <3>2. \A i \in DOMAIN from : from[i] = Shm(th.b, th.t)
      OBVIOUS
    <3> HIDE DEF fp, from
    <3>3. Does(Put(reg, from), p + 2, p + 2, fp)
      BY <1>2, <3>1, <3>2, DoesStep DEF fp
    <3> QED
      BY <3>3 DEF from
  <2> HIDE DEF load, tree, fp
  <2>2. Does(load \o tree, p + 2, p + 2, fp)
    BY <1>3, <2>1, DoesBoth
  <2> QED
    BY <1>2, <2>2, DoesWhen DEF tree
<1>7. Does(SyncThreads, p, p + 1, fp) /\ Does(SyncThreads, p + 1, p + 2, fp)
  BY <1>2, DoesSync
<1> HIDE DEF fp, c, d, e, tree
<1>8. Does((tree \o c) \o SyncThreads, p, p + 1, fp)
  <2>1. Does(tree \o c, p, p, fp)
    BY <1>3, <1>4, DoesBoth
  <2> QED
    BY <1>7, <2>1, DoesBoth
<1>9. Does((((tree \o c) \o SyncThreads) \o d) \o SyncThreads, p, p + 2, fp)
  <2>1. Does(((tree \o c) \o SyncThreads) \o d, p, p + 1, fp)
    BY <1>5, <1>8, DoesBoth
  <2> QED
    BY <1>7, <2>1, DoesBoth
<1>10. Does(((((tree \o c) \o SyncThreads) \o d) \o SyncThreads) \o e, p, p + 2, fp)
  BY <1>6, <1>9, DoesBoth
<1> QED
  BY <1>1, <1>10 DEF fp

\* A thread goes through its elements in one phase.
LEMMA OwnDoes ==
  ASSUME NEW l, NEW g, NEW th, InRows(l, g, th), NEW p \in Nat, NEW codes,
         codes = [k \in DOMAIN Own(l, g, th) |-> codes[k]],
         \A k \in DOMAIN Own(l, g, th) :
           Out(Own(l, g, th)[k]) \in Private(l, g, th)
             => Does(codes[k], p, p, SoftmaxFootprint(l, g, th))
  PROVE  Does(InOrder(codes), p, p, SoftmaxFootprint(l, g, th))
<1> DEFINE fp == SoftmaxFootprint(l, g, th)
<1>1. PICK n \in Nat : /\ DOMAIN Own(l, g, th) = 1..n
                       /\ \A k \in 1..n : Out(Own(l, g, th)[k]) \in Private(l, g, th)
  BY OwnIs DEF InRows
<1>2. \A k \in 1..n : Does(codes[k], p, p, fp)
  BY <1>1
<1>3. codes = [k \in 1..n |-> codes[k]]
  BY <1>1
<1> HIDE DEF fp
<1>4. Does(InOrder(codes), p, p, fp)
  BY <1>2, <1>3, DoesLoop
<1> QED
  BY <1>4 DEF fp

LEMMA DoesPair ==
  ASSUME NEW l, NEW g, NEW th, NEW p \in Nat, NEW to, NEW a, NEW b,
         to \in Private(l, g, th), a[1] = "in" \/ a \in Private(l, g, th),
         b[1] = "in" \/ b \in Private(l, g, th)
  PROVE  Does(Put(to, <<a, b>>), p, p, SoftmaxFootprint(l, g, th))
<1> DEFINE from == <<a, b>>
<1>1. DOMAIN from = {1, 2} /\ from[1] = a /\ from[2] = b
  OBVIOUS
<1> HIDE DEF from
<1>2. Does(Put(to, from), p, p, SoftmaxFootprint(l, g, th))
  BY <1>1, DoesStep
<1> QED
  BY <1>2 DEF from

LEMMA Registers ==
  ASSUME NEW l, NEW g, NEW th, NEW name \in {"max", "shift", "sum", "scale"}
  PROVE  Reg(th, name) \in Private(l, g, th)
BY DEF Private

\* FindMax and ValueSum: four barriers, and the result in shared memory.
LEMMA ShareDoes ==
  ASSUME NEW l, NEW g, NEW th, InRows(l, g, th), NEW p \in {0, 5}, NEW reg,
         reg \in Private(l, g, th), NEW own, Does(own, p, p, SoftmaxFootprint(l, g, th))
  PROVE  Does(own \o SyncThreads \o Reduce(th, reg)
              \o When(th.t = 0, Put(Shm(th.b, 0), <<reg>>)) \o SyncThreads,
              p, p + 4, SoftmaxFootprint(l, g, th))
<1> DEFINE fp == SoftmaxFootprint(l, g, th)
           r == Reduce(th, reg)
           x == Put(Shm(th.b, 0), <<reg>>)
           w == When(th.t = 0, x)
<1>1. /\ p \in Nat /\ p + 1 \in {1, 6} /\ p + 3 \in {3, 8} /\ p + 1 \in Nat /\ p + 3 \in Nat
      /\ (p + 1) + 2 = p + 3 /\ (p + 3) + 1 = p + 4
  OBVIOUS
<1>2. Does(r, p + 1, p + 3, fp)
  <2> DEFINE q == p + 1
  <2>1. q \in {1, 6} /\ q + 2 = p + 3
    BY <1>1
  <2> HIDE DEF q
  <2>2. Does(r, q, q + 2, fp)
    BY <2>1, ReduceDoes
  <2> HIDE DEF r, fp
  <2>3. Does(r, q, p + 3, fp)
    BY <2>1, <2>2
  <2> QED
    BY <2>3 DEF q
<1>3. Does(w, p + 3, p + 3, fp)
  <2>1. ASSUME th.t = 0 PROVE Does(x, p + 3, p + 3, fp)
    <3> DEFINE from == <<reg>>
               to == Shm(th.b, 0)
               q == p + 3
    <3>1. q \in {3, 8} /\ q \notin {1, 2, 6, 7} /\ q \in Nat
      BY <1>1
    <3> HIDE DEF q
    <3>2. to \in ShmWritten(th, q)
      BY <2>1, <3>1 DEF ShmWritten
    <3>3. \A i \in DOMAIN from : from[i] = reg
      OBVIOUS
    <3> HIDE DEF fp, from, to
    <3>4. Does(Put(to, from), q, q, fp)
      BY <3>1, <3>2, <3>3, DoesStep DEF fp
    <3> QED
      BY <3>4 DEF from, to, q
  <2> HIDE DEF x, fp
  <2> QED
    BY <1>1, <2>1, DoesWhen DEF x
<1>4. Does(SyncThreads, p, p + 1, fp) /\ Does(SyncThreads, p + 3, p + 4, fp)
  <2>1. Does(SyncThreads, p + 3, (p + 3) + 1, fp)
    BY <1>1, DoesSync
  <2>2. (p + 3) + 1 = p + 4
    OBVIOUS
  <2> HIDE DEF fp
  <2> QED
    BY <1>1, <2>1, <2>2, DoesSync
<1>5. Does(own, p, p, fp)
  OBVIOUS
<1> HIDE DEF fp, r, w
<1>6. Does(own \o SyncThreads, p, p + 1, fp)
  BY <1>4, <1>5, DoesBoth
<1>7. Does((own \o SyncThreads) \o r, p, p + 3, fp)
  BY <1>2, <1>6, DoesBoth
<1>8. Does(((own \o SyncThreads) \o r) \o w, p, p + 3, fp)
  BY <1>3, <1>7, DoesBoth
<1>9. Does((((own \o SyncThreads) \o r) \o w) \o SyncThreads, p, p + 4, fp)
  BY <1>4, <1>8, DoesBoth
<1> QED
  BY <1>9 DEF fp, r, w

LEMMA FindMaxDoes ==
  ASSUME NEW l, NEW g, NEW th, InRows(l, g, th)
  PROVE  Does(FindMax(l, g, th), 0, 4, SoftmaxFootprint(l, g, th))
<1> DEFINE s == Own(l, g, th)
           val == Reg(th, "max")
           codes == [k \in DOMAIN s |-> Put(val, <<val, In(1, s[k])>>)]
           fp == SoftmaxFootprint(l, g, th)
           own == InOrder(codes)
<1>1. val \in Private(l, g, th)
  BY Registers
<1>2. FindMax(l, g, th)
        = own \o SyncThreads \o Reduce(th, val)
          \o When(th.t = 0, Put(Shm(th.b, 0), <<val>>)) \o SyncThreads
  BY DEF FindMax, ForEach
<1> HIDE DEF val
<1>3. \A i : In(1, i)[1] = "in"
  BY DEF In
<1>4. ASSUME NEW k \in DOMAIN s PROVE Does(codes[k], 0, 0, fp)
  <2>1. codes[k] = Put(val, <<val, In(1, s[k])>>)
    OBVIOUS
  <2> HIDE DEF codes, s
  <2> QED
    BY <1>1, <1>3, <2>1, DoesPair
<1>5. codes = [k \in DOMAIN s |-> codes[k]]
  OBVIOUS
<1> HIDE DEF codes
<1>6. Does(own, 0, 0, fp)
  BY <1>4, <1>5, OwnDoes
<1> HIDE DEF own, fp
<1>7. Does(FindMax(l, g, th), 0, 0 + 4, fp)
  BY <1>1, <1>2, <1>6, ShareDoes DEF fp
<1> QED
  BY <1>7 DEF fp

LEMMA ValueSumDoes ==
  ASSUME NEW l, NEW g, NEW th, InRows(l, g, th)
  PROVE  Does(ValueSum(l, g, th), 5, 9, SoftmaxFootprint(l, g, th))
<1> DEFINE s == Own(l, g, th)
           val == Reg(th, "sum")
           codes == [k \in DOMAIN s |-> Put(val, <<val, Out(s[k])>>)]
           fp == SoftmaxFootprint(l, g, th)
           own == InOrder(codes)
<1>1. val \in Private(l, g, th)
  BY Registers
<1>2. ValueSum(l, g, th)
        = own \o SyncThreads \o Reduce(th, val)
          \o When(th.t = 0, Put(Shm(th.b, 0), <<val>>)) \o SyncThreads
  BY DEF ValueSum, ForEach
<1> HIDE DEF val
<1>4. ASSUME NEW k \in DOMAIN s, Out(s[k]) \in Private(l, g, th) PROVE Does(codes[k], 5, 5, fp)
  <2>1. codes[k] = Put(val, <<val, Out(s[k])>>)
    OBVIOUS
  <2> HIDE DEF codes, s
  <2> QED
    BY <1>1, <1>4, <2>1, DoesPair
<1>5. codes = [k \in DOMAIN s |-> codes[k]]
  OBVIOUS
<1> HIDE DEF codes
<1>6. Does(own, 5, 5, fp)
  BY <1>4, <1>5, OwnDoes
<1> HIDE DEF own, fp
<1>7. Does(ValueSum(l, g, th), 5, 5 + 4, fp)
  BY <1>1, <1>2, <1>6, ShareDoes DEF fp
<1> QED
  BY <1>7 DEF fp

\* A value from shared memory into a register, and then the elements.
LEMMA TakeDoes ==
  ASSUME NEW l, NEW g, NEW th, NEW p \in {4, 9}, NEW reg, reg \in Private(l, g, th)
  PROVE  Does(Put(reg, <<Shm(th.b, 0)>>), p, p, SoftmaxFootprint(l, g, th))
<1> DEFINE from == <<Shm(th.b, 0)>>
<1>1. Shm(th.b, 0) \in ShmRead(th, p) /\ p \in Nat
  BY DEF ShmRead
<1>2. \A i \in DOMAIN from : from[i] = Shm(th.b, 0)
  OBVIOUS
<1> HIDE DEF from
<1>3. Does(Put(reg, from), p, p, SoftmaxFootprint(l, g, th))
  BY <1>1, <1>2, DoesStep
<1> QED
  BY <1>3 DEF from

LEMMA SubMaxAndExpDoes ==
  ASSUME NEW l, NEW g, NEW th, InRows(l, g, th)
  PROVE  Does(SubMaxAndExp(l, g, th), 4, 5, SoftmaxFootprint(l, g, th))
<1> DEFINE s == Own(l, g, th)
           reg == Reg(th, "shift")
           codes == [k \in DOMAIN s |-> Put(Out(s[k]), <<In(1, s[k]), reg>>)]
           fp == SoftmaxFootprint(l, g, th)
           own == InOrder(codes)
           take == Put(reg, <<Shm(th.b, 0)>>)
<1>1. reg \in Private(l, g, th)
  BY Registers
<1>2. SubMaxAndExp(l, g, th) = take \o own \o SyncThreads
  BY DEF SubMaxAndExp, ForEach
<1>3. \A i : In(1, i)[1] = "in"
  BY DEF In
<1> HIDE DEF reg
<1>4. ASSUME NEW k \in DOMAIN s, Out(s[k]) \in Private(l, g, th) PROVE Does(codes[k], 4, 4, fp)
  <2>1. codes[k] = Put(Out(s[k]), <<In(1, s[k]), reg>>)
    OBVIOUS
  <2> HIDE DEF codes, s
  <2> QED
    BY <1>1, <1>3, <1>4, <2>1, DoesPair
<1>5. codes = [k \in DOMAIN s |-> codes[k]]
  OBVIOUS
<1> HIDE DEF codes
<1>6. Does(own, 4, 4, fp)
  BY <1>4, <1>5, OwnDoes
<1>7. Does(take, 4, 4, fp)
  BY <1>1, TakeDoes
<1> HIDE DEF own, fp, take
<1>8. Does(take \o own, 4, 4, fp)
  BY <1>6, <1>7, DoesBoth
<1>9. Does(SyncThreads, 4, 4 + 1, fp)
  BY DoesSync
<1>10. Does((take \o own) \o SyncThreads, 4, 4 + 1, fp)
  BY <1>8, <1>9, DoesBoth
<1> QED
  BY <1>2, <1>10 DEF fp

LEMMA DivSumDoes ==
  ASSUME NEW l, NEW g, NEW th, InRows(l, g, th)
  PROVE  Does(DivSum(l, g, th), 9, 9, SoftmaxFootprint(l, g, th))
<1> DEFINE s == Own(l, g, th)
           reg == Reg(th, "scale")
           codes == [k \in DOMAIN s |-> Put(Out(s[k]), <<Out(s[k]), reg>>)]
           fp == SoftmaxFootprint(l, g, th)
           own == InOrder(codes)
           take == Put(reg, <<Shm(th.b, 0)>>)
<1>1. reg \in Private(l, g, th)
  BY Registers
<1>2. DivSum(l, g, th) = take \o own
  BY DEF DivSum, ForEach
<1> HIDE DEF reg
<1>4. ASSUME NEW k \in DOMAIN s, Out(s[k]) \in Private(l, g, th) PROVE Does(codes[k], 9, 9, fp)
  <2>1. codes[k] = Put(Out(s[k]), <<Out(s[k]), reg>>)
    OBVIOUS
  <2> HIDE DEF codes, s
  <2> QED
    BY <1>1, <1>4, <2>1, DoesPair
<1>5. codes = [k \in DOMAIN s |-> codes[k]]
  OBVIOUS
<1> HIDE DEF codes
<1>6. Does(own, 9, 9, fp)
  BY <1>4, <1>5, OwnDoes
<1>7. Does(take, 9, 9, fp)
  BY <1>1, TakeDoes
<1> HIDE DEF own, fp, take
<1>8. Does(take \o own, 9, 9, fp)
  BY <1>6, <1>7, DoesBoth
<1> QED
  BY <1>2, <1>8 DEF fp

LEMMA SoftmaxDoes ==
  ASSUME NEW l, NEW g, NEW th, InRows(l, g, th)
  PROVE  Does(Softmax(l, g, th), 0, 9, SoftmaxFootprint(l, g, th))
<1> DEFINE fp == SoftmaxFootprint(l, g, th)
           a == FindMax(l, g, th)
           b == SubMaxAndExp(l, g, th)
           c == ValueSum(l, g, th)
           d == DivSum(l, g, th)
<1>1. Does(a, 0, 4, fp) /\ Does(b, 4, 5, fp) /\ Does(c, 5, 9, fp) /\ Does(d, 9, 9, fp)
  BY FindMaxDoes, SubMaxAndExpDoes, ValueSumDoes, DivSumDoes
<1>2. Softmax(l, g, th) = ((a \o b) \o c) \o d
  BY DEF Softmax
<1> HIDE DEF fp, a, b, c, d
<1>3. Does(a \o b, 0, 5, fp)
  BY <1>1, DoesBoth
<1>4. Does((a \o b) \o c, 0, 9, fp)
  BY <1>1, <1>3, DoesBoth
<1>5. Does(((a \o b) \o c) \o d, 0, 9, fp)
  BY <1>1, <1>4, DoesBoth
<1> QED
  BY <1>2, <1>5 DEF fp

\* Two threads of a launch of the kernel, at points that may meet.
Meet(th, o, p, q) ==
  /\ th.id = <<th.b, th.t>> /\ o.id = <<o.b, o.t>> /\ th.id # o.id
  /\ th.bx = th.b /\ o.bx = o.b /\ th.tx = th.t /\ o.tx = o.t
  /\ th.b \in Nat /\ o.b \in Nat /\ (th.b = o.b => p = q)

LEMMA PrivateApart ==
  ASSUME NEW l, NEW g, NEW th, NEW o, InRows(l, g, th), InRows(l, g, o),
         NEW p, NEW q, Meet(th, o, p, q)
  PROVE  Private(l, g, th) \cap Private(l, g, o) = {}
<1> SUFFICES ASSUME NEW e \in Private(l, g, th), e \in Private(l, g, o) PROVE FALSE
  OBVIOUS
<1> DEFINE Cells(a) == {i \in 0..l.width - 1 : i % g.block[1] = a.tx}
<1>1. \/ \E name : e = <<"reg", th.id, name>>
      \/ \E i \in Cells(th) : e = <<"out", 0, InRow(l.width, th.bx, i)>>
  BY DEF Private, Reg, Out, InRow
<1>2. \/ \E name : e = <<"reg", o.id, name>>
      \/ \E i \in Cells(o) : e = <<"out", 0, InRow(l.width, o.bx, i)>>
  BY DEF Private, Reg, Out, InRow
<1>3. th.id # o.id
  BY DEF Meet
<1>4. PICK i \in Cells(th), j \in Cells(o) : InRow(l.width, th.bx, i) = InRow(l.width, o.bx, j)
  <2> HIDE DEF Cells
  <2>1. e[1] = "reg" => e[2] = th.id /\ e[2] = o.id
    BY <1>1, <1>2
  <2>2. e[1] # "reg"
    BY <1>3, <2>1
  <2> QED
    BY <1>1, <1>2, <2>2
<1>5. i \in 0..l.width - 1 /\ j \in 0..l.width - 1 /\ i % g.block[1] = th.tx /\ j % g.block[1] = o.tx
  OBVIOUS
<1>6. l.width \in Nat /\ th.bx \in Int /\ o.bx \in Int
  BY DEF InRows, Meet
<1>7. th.bx = o.bx /\ i = j
  BY <1>4, <1>5, <1>6, OneRow
<1> QED
  BY <1>5, <1>7 DEF Meet

\* Shared memory: written by one thread, and used by another one.
LEMMA ShmApart ==
  ASSUME NEW l, NEW g, NEW th, NEW o, InRows(l, g, th), InRows(l, g, o),
         NEW p, NEW q, Meet(th, o, p, q)
  PROVE  /\ ShmWritten(th, p) \cap ShmWritten(o, q) = {}
         /\ ShmWritten(th, p) \cap ShmRead(o, q) = {}
<1>1. /\ th.t \in Nat /\ o.t \in Nat /\ (th.b = o.b => p = q /\ th.t # o.t)
      /\ Device.warp \in Nat \ {0}
  BY DeviceSizes DEF InRows, Meet
<1>2. ASSUME NEW e \in ShmWritten(th, p)
      PROVE  \/ p \in {1, 6} /\ e = <<"shm", th.b, th.t>>
             \/ p \in {2, 7} /\ e = <<"shm", th.b, th.t \div Device.warp>> /\ th.t % Device.warp = 0
             \/ p \in {3, 8} /\ e = <<"shm", th.b, 0>> /\ th.t = 0
  BY DEF ShmWritten, Shm
<1>3. ASSUME NEW e \in ShmWritten(o, q)
      PROVE  \/ q \in {1, 6} /\ e = <<"shm", o.b, o.t>>
             \/ q \in {2, 7} /\ e = <<"shm", o.b, o.t \div Device.warp>> /\ o.t % Device.warp = 0
             \/ q \in {3, 8} /\ e = <<"shm", o.b, 0>> /\ o.t = 0
  BY DEF ShmWritten, Shm
<1>4. ASSUME NEW e \in ShmRead(o, q)
      PROVE  \/ q \in {3, 8} /\ e = <<"shm", o.b, o.t>>
             \/ q \in {4, 9} /\ e = <<"shm", o.b, 0>>
  BY DEF ShmRead, Shm
<1>5. ASSUME NEW e \in ShmWritten(th, p), e \in ShmWritten(o, q) PROVE FALSE
  <2>1. th.b = o.b /\ p = q /\ th.t # o.t
    <3>1. e[2] = th.b /\ e[2] = o.b
      BY <1>2, <1>3, <1>5
    <3> QED
      BY <1>1, <3>1
  <2>2. CASE p \in {1, 6}
    <3>1. e[3] = th.t /\ e[3] = o.t
      BY <1>2, <1>3, <1>5, <2>1, <2>2
    <3> QED
      BY <2>1, <3>1
  <2>3. CASE p \in {2, 7}
    <3> DEFINE a == th.t \div Device.warp
               b == o.t \div Device.warp
    <3>1. e[3] = a /\ e[3] = b /\ th.t % Device.warp = 0 /\ o.t % Device.warp = 0
      BY <1>2, <1>3, <1>5, <2>1, <2>3
    <3>2. th.t = Device.warp * a + (th.t % Device.warp) /\ o.t = Device.warp * b + (o.t % Device.warp)
      BY <1>1, DivMod
    <3> HIDE DEF a, b
    <3>3. th.t = o.t
      BY <3>1, <3>2
    <3> QED
      BY <2>1, <3>3
  <2>4. CASE p \in {3, 8}
    <3>1. th.t = 0 /\ o.t = 0
      BY <1>2, <1>3, <1>5, <2>1, <2>4
    <3> QED
      BY <2>1, <3>1
  <2>5. p \in {1, 6} \/ p \in {2, 7} \/ p \in {3, 8}
    BY <1>2, <1>5
  <2> QED
    BY <2>2, <2>3, <2>4, <2>5
<1>6. ASSUME NEW e \in ShmWritten(th, p), e \in ShmRead(o, q) PROVE FALSE
  <2>1. th.b = o.b /\ p = q /\ th.t # o.t
    <3>1. e[2] = th.b /\ e[2] = o.b
      BY <1>2, <1>4, <1>6
    <3> QED
      BY <1>1, <3>1
  <2>2. p \in {3, 8} /\ th.t = 0 /\ e[3] = 0 /\ e[3] = o.t
    BY <1>2, <1>4, <1>6, <2>1
  <2> QED
    BY <2>1, <2>2
<1> QED
  BY <1>5, <1>6

LEMMA SoftmaxApart ==
  ASSUME NEW l, NEW g, NEW th, NEW o, InRows(l, g, th), InRows(l, g, o),
         NEW p \in Nat, NEW q \in Nat, Meet(th, o, p, q)
  PROVE  Apart(SoftmaxFootprint(l, g, th)[p], SoftmaxFootprint(l, g, o)[q])
<1> DEFINE f == SoftmaxFootprint(l, g, th)[p]
           h == SoftmaxFootprint(l, g, o)[q]
           P == Private(l, g, th)
           Q == Private(l, g, o)
           W == ShmWritten(th, p)
           V == ShmWritten(o, q)
           R == ShmRead(th, p)
           S == ShmRead(o, q)
<1>1. /\ f.op = "put" /\ f.to = P \union W /\ f.from = P \union R
      /\ h.op = "put" /\ h.to = Q \union V /\ h.from = Q \union S
  BY SoftmaxMay
<1>2. P \cap Q = {}
  BY PrivateApart
<1>3. Meet(o, th, q, p)
  BY DEF Meet
<1>4. W \cap V = {} /\ W \cap S = {} /\ V \cap R = {}
  <2>1. W \cap V = {} /\ W \cap S = {}
    BY ShmApart
  <2>2. V \cap R = {}
    BY <1>3, ShmApart
  <2> QED
    BY <2>1, <2>2
<1>5. \A e \in P \union Q : e[1] \in {"reg", "out"}
  BY DEF Private, Reg, Out
<1>6. \A e \in W \union V \union R \union S : e[1] = "shm"
  BY DEF ShmWritten, ShmRead, Shm
<1> HIDE DEF f, h, P, Q, W, V, R, S
<1>7. /\ "shm" # "in" /\ "reg" # "in" /\ "out" # "in" /\ "shm" \notin {"reg", "out"}
  OBVIOUS
<1>8. f.to \cap h.to = {}
  BY <1>1, <1>2, <1>4, <1>5, <1>6, <1>7
<1>9. f.to \cap h.from = {}
  BY <1>1, <1>2, <1>4, <1>5, <1>6, <1>7
<1>10. f.from \cap h.to = {}
  BY <1>1, <1>2, <1>4, <1>5, <1>6, <1>7
<1>11. \A e \in f.to \union h.to : e[1] # "in"
  BY <1>1, <1>5, <1>6, <1>7
<1> QED
  BY <1>1, <1>8, <1>9, <1>10, <1>11 DEF Apart, f, h

LEMMA SoftmaxIs ==
  ASSUME NEW l, Supported(l), l.kernel = "softmax"
  PROVE  /\ IsGeometry(SoftmaxGeometry(l)) /\ l.width \in Nat
         /\ SoftmaxGeometry(l).grid[2] = 1 /\ SoftmaxGeometry(l).block[2] = 1
<1> DEFINE block == IF l.width > Device.threads THEN Device.threads
                    ELSE CHOOSE p \in PowersOf2(l.width) : p <= l.width /\ l.width < 2 * p
<1>1. l.width \in Nat \ {0} /\ l.height \in Nat
  BY DeviceSizes DEF Supported
<1>2. block \in Nat
  <2>1. PICK power \in [0..l.width -> Nat] : PowersOf2(l.width) = {power[k] : k \in 0..l.width}
    BY <1>1, PowersAre
  <2>2. \E p \in PowersOf2(l.width) : p <= l.width /\ l.width < 2 * p
    BY <1>1, PowerBelow
  <2> DEFINE c == CHOOSE p \in PowersOf2(l.width) : p <= l.width /\ l.width < 2 * p
  <2>3. c \in PowersOf2(l.width)
    BY <2>2
  <2>4. c \in Nat
    BY <2>1, <2>3
  <2> HIDE DEF c
  <2>5. block = IF l.width > Device.threads THEN Device.threads ELSE c
    BY DEF c
  <2> HIDE DEF block
  <2> QED
    BY <2>4, <2>5, DeviceSizes
<1>3. SoftmaxGeometry(l) = Geometry(<<l.height, 1>>, <<block, 1>>)
  BY DEF SoftmaxGeometry
<1> HIDE DEF block
<1> QED
  BY <1>1, <1>2, <1>3 DEF Geometry, IsGeometry

\* A launch of one dimension: numbers of threads and blocks are their places.
LEMMA OneDimension ==
  ASSUME NEW g, IsGeometry(g), g.grid[2] = 1, g.block[2] = 1, NEW id \in Ids(g)
  PROVE  /\ ThreadAt(g, id[1], id[2]).bx = id[1] /\ ThreadAt(g, id[1], id[2]).tx = id[2]
         /\ ThreadAt(g, id[1], id[2]).b = id[1] /\ ThreadAt(g, id[1], id[2]).t = id[2]
         /\ ThreadAt(g, id[1], id[2]).id = id
         /\ id[1] \in Nat /\ id[2] \in Nat /\ id[2] \in 0..g.block[1] - 1
         /\ g.block[1] \in Nat \ {0}
<1> DEFINE th == ThreadAt(g, id[1], id[2])
<1>1. InLaunch(g, id[1], id[2]) /\ id = <<id[1], id[2]>>
  BY IdsInLaunch
<1>2. /\ th.id = <<id[1], id[2]>> /\ th.b = id[1] /\ th.t = id[2]
      /\ th.bx \in 0..g.grid[1] - 1 /\ th.by \in 0..0
      /\ th.tx \in 0..g.block[1] - 1 /\ th.ty \in 0..0
      /\ id[1] = th.by * g.grid[1] + th.bx /\ id[2] = th.ty * g.block[1] + th.tx
  <2>1. 1 - 1 = 0
    OBVIOUS
  <2> QED
    BY <1>1, <2>1, ThreadPlace
<1> HIDE DEF th
<1>3. g.grid[1] \in Nat /\ g.block[1] \in Nat
  BY DEF IsGeometry
<1>4. th.by = 0 /\ th.ty = 0 /\ 0 * g.grid[1] = 0 /\ 0 * g.block[1] = 0
  BY <1>2, <1>3
<1>5. id[1] = th.bx /\ id[2] = th.tx
  BY <1>2, <1>3, <1>4
<1> QED
  BY <1>1, <1>2, <1>3, <1>5 DEF th

LEMMA SoftmaxHasNoRace ==
  ASSUME NEW l, Supported(l), l.kernel = "softmax"
  PROVE  RaceFree(Kernel(l))
<1> DEFINE g == SoftmaxGeometry(l)
           k == Kernel(l)
           th(id) == ThreadAt(g, id[1], id[2])
           FP == [id \in Ids(g) |-> SoftmaxFootprint(l, g, th(id))]
<1>1. k.code = [id \in Ids(g) |-> Softmax(l, g, th(id))]
  BY DEF Kernel, Ids
<1> HIDE DEF k
<1>2. IsGeometry(g) /\ l.width \in Nat /\ g.grid[2] = 1 /\ g.block[2] = 1
  BY SoftmaxIs
<1> HIDE DEF g
<1>3. ASSUME NEW id \in Ids(g)
      PROVE  /\ th(id).bx = id[1] /\ th(id).tx = id[2] /\ th(id).b = id[1] /\ th(id).t = id[2]
             /\ th(id).id = id /\ id = <<id[1], id[2]>>
             /\ id[1] \in Nat /\ id[2] \in Nat /\ id[2] \in 0..g.block[1] - 1
             /\ g.block[1] \in Nat \ {0}
  BY <1>2, OneDimension, IdsInLaunch
<1> HIDE DEF th
<1>4. ASSUME NEW id \in Ids(g) PROVE InRows(l, g, th(id))
  BY <1>2, <1>3 DEF InRows
<1>5. \A id \in DOMAIN k.code : Does(k.code[id], 0, 9, FP[id])
  <2> TAKE id \in DOMAIN k.code
  <2>1. id \in Ids(g) /\ k.code[id] = Softmax(l, g, th(id)) /\ FP[id] = SoftmaxFootprint(l, g, th(id))
    BY <1>1
  <2>2. Does(Softmax(l, g, th(id)), 0, 9, SoftmaxFootprint(l, g, th(id)))
    BY <1>4, <2>1, SoftmaxDoes
  <2> HIDE DEF FP
  <2> QED
    BY <2>1, <2>2
<1>6. \A s, t \in DOMAIN k.code : \A p, q \in Nat :
        s # t /\ (s[1] = t[1] => p = q) => Apart(FP[s][p], FP[t][q])
  <2> SUFFICES ASSUME NEW s \in Ids(g), NEW t \in Ids(g), NEW p \in Nat, NEW q \in Nat,
                      s # t, s[1] = t[1] => p = q
               PROVE  Apart(FP[s][p], FP[t][q])
    BY <1>1
  <2>1. Meet(th(s), th(t), p, q)
    BY <1>3 DEF Meet
  <2>2. FP[s] = SoftmaxFootprint(l, g, th(s)) /\ FP[t] = SoftmaxFootprint(l, g, th(t))
    OBVIOUS
  <2> HIDE DEF FP
  <2>3. Apart(SoftmaxFootprint(l, g, th(s))[p], SoftmaxFootprint(l, g, th(t))[q])
    BY <1>4, <2>1, SoftmaxApart
  <2> QED
    BY <2>2, <2>3
<1> HIDE DEF FP
<1> QED
  BY <1>5, <1>6, Footprints DEF k

(***************************************************************************)
(* Every kernel.                                                           *)
(***************************************************************************)

\* No operator of kaleido/core launches a kernel with a race: whatever call it
\* supports, on whatever device, two accesses of one location by two threads
\* of a block, one of which writes, have a barrier between them or are both
\* atomicAdd; threads of different blocks share no such location.
THEOREM KernelsHaveNoRace == ASSUME NEW l, Supported(l) PROVE RaceFree(Kernel(l))
<1>1. l.kernel \in {"transpose", "concat", "gather", "scatter", "elementwise", "fill", "softmax"}
  BY DEF Supported
<1>2. CASE l.kernel = "transpose"
  BY <1>2, TransposeHasNoRace, TileTransposeHasNoRace
<1> QED
  BY <1>1, <1>2, ConcatHasNoRace, GatherHasNoRace, ScatterHasNoRace, ElementwiseHasNoRace,
     FillHasNoRace, SoftmaxHasNoRace
=============================================================================
