--------------------------- MODULE AstVisitorProofs ---------------------------
(***************************************************************************)
(* The scopes of the parser are closed between statements, whatever the    *)
(* programs are: ScopesClosed of AstVisitor, proved from SyntaxAssumption. *)
(*                                                                         *)
(* The agenda of a running parser is a program for the three stacks, of    *)
(* values, half-parsed nodes and half-parsed blocks. A shape is what these *)
(* stacks are; a task leads from one shape to another (Step) and an agenda *)
(* from the present shape to one without values (Runs). A visitor replaces *)
(* its task by tasks that lead to the same shape, so nothing it pushed can *)
(* be left when the next statement begins.                                 *)
(***************************************************************************)
EXTENDS AstVisitor, SequenceTheorems, TLAPS

IsSeq(s) == s \in Seq(ToSet(s))

Shape(v, p, b) == [vals |-> v, pend |-> p, blks |-> b]

\* Task t, of a function with the given root, leads from shape s to shape e.
Step(root, t, s, e) ==
  \/ /\ t.do = "visit" /\ t.expr \in Expressions /\ s.blks # <<>>
     /\ e = Shape(s.vals + 1, s.pend, s.blks)
  \/ t.do = "assign" /\ t.rhs \in Expressions /\ s = Shape(0, <<>>, <<root>>) /\ e = s
  \/ t.do = "return" /\ s = Shape(0, <<>>, <<root>>) /\ e = Shape(0, <<>>, <<>>)
  \/ t.do = "operand" /\ t.expr \in Expressions /\ s.blks # <<>> /\ e = s
  \/ t.do \in {"init", "input"} /\ s.blks # <<>> /\ e = s
  \/ t.do = "arguments" /\ "do" \in DOMAIN t /\ s.blks # <<>> /\ e = s
  \/ /\ t.do \in {"bind", "link", "feed", "endLambda"} /\ s.blks # <<>> /\ s.vals > 0
     /\ e = Shape(s.vals - 1, s.pend, s.blks)
  \/ /\ t.do = "inits" /\ t.count \in Nat /\ s.blks # <<>> /\ s.vals >= t.count
     /\ e = Shape(s.vals - t.count, s.pend, s.blks)
  \/ /\ t.do = "endBinOp" /\ s.blks # <<>> /\ s.pend # <<>>
     /\ e = Shape(s.vals + 1, Front(s.pend), s.blks)
  \/ /\ t.do = "endPrimitive" /\ t.count \in Nat
     /\ s.blks # <<>> /\ s.pend # <<>> /\ s.vals >= t.count
     /\ e = Shape((s.vals - t.count) + 1, Front(s.pend), s.blks)
  \/ /\ t.do = "lambda" /\ t.body \in Expressions /\ s.blks # <<>>
     /\ e = Shape(s.vals + 1, s.pend, Append(s.blks, t.node))
  \/ /\ t.do = "endPattern" /\ s.blks # <<>> /\ s.pend # <<>> /\ Last(s.blks) = Last(s.pend)
     /\ e = Shape(s.vals + 1, Front(s.pend), Front(s.blks))
  \/ t.do \in {"compiled", "propagate", "leave"} /\ e = s
  \/ t.do \in {"in_edges", "edges"} /\ "do" \in DOMAIN t /\ e = s

\* The tasks of a lead from shape s to shape e.
Runs(root, a, s, e) ==
  \E st : /\ st[1] = s /\ st[Len(a) + 1] = e
          /\ \A i \in 1..Len(a) : Step(root, a[i], st[i], st[i + 1])

(***************************************************************************)
(* Sequences.                                                              *)
(***************************************************************************)

LEMMA FunctionIsSeq ==
  ASSUME NEW R, NEW n \in Nat, NEW f \in [1..n -> R]
  PROVE  f \in Seq(R) /\ Len(f) = n /\ DOMAIN f = 1..n
<1>1. f \in Seq(R)
  BY SeqDef
<1> QED
  BY <1>1

LEMMA SeqIsSeq == ASSUME NEW S, NEW s \in Seq(S) PROVE IsSeq(s) /\ ToSet(s) \subseteq S
<1>1. s \in [1..Len(s) -> S] /\ Len(s) \in Nat /\ DOMAIN s = 1..Len(s)
  OBVIOUS
<1> DEFINE R == ToSet(s)
<1>2. s \in [1..Len(s) -> R] /\ R \subseteq S
  BY <1>1 DEF ToSet
<1> HIDE DEF R
<1>3. s \in Seq(R)
  BY <1>1, <1>2, FunctionIsSeq
<1> QED
  BY <1>2, <1>3 DEF IsSeq, R

LEMMA ToSetIs ==
  ASSUME NEW S, NEW s \in Seq(S)
  PROVE  /\ \A y : y \in ToSet(s) <=> \E i \in 1..Len(s) : y = s[i]
         /\ \A i \in 1..Len(s) : s[i] \in ToSet(s)
BY DEF ToSet

LEMMA NoneIsSeq == IsSeq(<<>>) /\ ToSet(<<>>) = {}
<1>1. <<>> \in Seq({})
  OBVIOUS
<1>2. ToSet(<<>>) = {}
  BY DEF ToSet
<1>3. IsSeq(<<>>)
  BY <1>1, SeqIsSeq
<1> QED
  BY <1>2, <1>3

LEMMA OneIsSeq == ASSUME NEW x PROVE IsSeq(<<x>>) /\ ToSet(<<x>>) = {x}
<1>1. <<x>> \in Seq({x})
  OBVIOUS
<1>2. IsSeq(<<x>>)
  BY <1>1, SeqIsSeq
<1>3. ToSet(<<x>>) = {x}
  BY DEF ToSet
<1> QED
  BY <1>2, <1>3

LEMMA ConcatIsSeq ==
  ASSUME NEW s, NEW t, IsSeq(s), IsSeq(t)
  PROVE  /\ IsSeq(s \o t) /\ Len(s \o t) = Len(s) + Len(t)
         /\ \A i \in 1..Len(s) : (s \o t)[i] = s[i]
         /\ \A i \in 1..Len(t) : (s \o t)[Len(s) + i] = t[i]
<1> DEFINE S == ToSet(s) \union ToSet(t)
<1>1. s \in Seq(S) /\ t \in Seq(S)
  BY SeqDef DEF IsSeq
<1> HIDE DEF S
<1>2. s \o t \in Seq(S)
  BY <1>1
<1>3. IsSeq(s \o t)
  BY <1>2, SeqIsSeq
<1> QED
  BY <1>1, <1>3

LEMMA AppendIsSeq ==
  ASSUME NEW s, NEW x, IsSeq(s)
  PROVE  /\ IsSeq(Append(s, x)) /\ Len(Append(s, x)) = Len(s) + 1 /\ Append(s, x) # <<>>
         /\ ToSet(Append(s, x)) = ToSet(s) \union {x}
         /\ Last(Append(s, x)) = x /\ Front(Append(s, x)) = s
<1> DEFINE R == ToSet(s)
           S == R \union {x}
           a == Append(s, x)
<1> HIDE DEF R
<1>1. s \in Seq(R) /\ s \in Seq(S) /\ x \in S /\ Len(s) \in Nat
  BY SeqDef DEF IsSeq, R
<1> HIDE DEF S
<1>2. /\ a \in Seq(S) /\ Len(a) = Len(s) + 1 /\ a # <<>> /\ a[Len(s) + 1] = x
      /\ \A i \in 1..Len(s) : a[i] = s[i]
  BY <1>1, AppendProperties
<1> HIDE DEF a
<1>3. \A y : y \in ToSet(a) <=> y \in R \/ y = x
  <2>1. \A y : y \in ToSet(a) <=> \E i \in 1..(Len(s) + 1) : y = a[i]
    BY <1>2, ToSetIs
  <2>2. \A y : y \in R <=> \E i \in 1..Len(s) : y = s[i]
    BY <1>1, ToSetIs DEF R
  <2>3. x \in ToSet(a)
    BY <1>1, <1>2, <2>1
  <2>4. ASSUME NEW y \in R PROVE y \in ToSet(a)
    <3>1. PICK i \in 1..Len(s) : y = s[i]
      BY <2>2
    <3>2. i \in 1..(Len(s) + 1) /\ a[i] = y
      BY <1>1, <1>2, <3>1
    <3> QED
      BY <2>1, <3>2
  <2>5. ASSUME NEW y \in ToSet(a), y # x PROVE y \in R
    <3>1. PICK i \in 1..(Len(s) + 1) : y = a[i]
      BY <2>1
    <3>2. i \in 1..Len(s) /\ s[i] = y
      BY <1>1, <1>2, <2>5, <3>1
    <3> QED
      BY <2>2, <3>2
  <2> QED
    BY <2>3, <2>4, <2>5
<1>4. IsSeq(a)
  BY <1>2, SeqIsSeq
<1>5. Last(a) = x
  BY <1>2 DEF Last
<1>6. Front(a) = s
  BY <1>1, <1>2 DEF Front
<1> QED
  BY <1>2, <1>3, <1>4, <1>5, <1>6 DEF a, R

LEMMA FrontIsSeq ==
  ASSUME NEW s, IsSeq(s), s # <<>>
  PROVE  /\ IsSeq(Front(s)) /\ Len(Front(s)) = Len(s) - 1
         /\ Last(s) \in ToSet(s) /\ ToSet(s) = ToSet(Front(s)) \union {Last(s)}
<1>1. s \in Seq(ToSet(s)) /\ Len(s) \in Nat \ {0}
  BY DEF IsSeq
<1>2. Front(s) = [i \in 1..(Len(s) - 1) |-> s[i]]
  BY <1>1 DEF Front
<1>3. Front(s) \in [1..(Len(s) - 1) -> ToSet(s)]
  BY <1>1, <1>2 DEF ToSet
<1>4. Front(s) \in Seq(ToSet(s)) /\ Len(Front(s)) = Len(s) - 1
  BY <1>1, <1>3, SeqDef
<1>5. Last(s) \in ToSet(s)
  BY <1>1 DEF Last, ToSet
<1>6. ToSet(s) = ToSet(Front(s)) \union {Last(s)}
  BY <1>1, <1>2 DEF Last, ToSet
<1> QED
  BY <1>4, <1>5, <1>6, SeqIsSeq

LEMMA TailIsSeq ==
  ASSUME NEW s, IsSeq(s), s # <<>>
  PROVE  /\ IsSeq(Tail(s)) /\ Len(Tail(s)) = Len(s) - 1 /\ Len(s) \in Nat \ {0}
         /\ \A i \in 1..(Len(s) - 1) : Tail(s)[i] = s[i + 1]
         /\ Head(s) = s[1] /\ Head(s) \in ToSet(s) /\ ToSet(Tail(s)) \subseteq ToSet(s)
<1>1. s \in Seq(ToSet(s))
  BY DEF IsSeq
<1> DEFINE R == ToSet(s)
<1> HIDE DEF R
<1>2. s \in Seq(R)
  BY <1>1 DEF R
<1>3. /\ Tail(s) \in Seq(R) /\ Len(Tail(s)) = Len(s) - 1 /\ Len(s) \in Nat \ {0}
      /\ \A i \in 1..(Len(s) - 1) : Tail(s)[i] = s[i + 1]
      /\ Head(s) = s[1] /\ Head(s) \in R
  BY <1>2
<1> QED
  BY <1>3, SeqIsSeq DEF R

LEMMA MapIsSeq ==
  ASSUME NEW n \in Nat, NEW f, f = [i \in 1..n |-> f[i]]
  PROVE  IsSeq(f) /\ Len(f) = n
<1>1. f \in [1..n -> ToSet(f)]
  BY DEF ToSet
<1> QED
  BY <1>1, SeqDef DEF IsSeq

LEMMA DroppedIsSeq ==
  ASSUME IsSeq(values), NEW k \in 0..Len(values)
  PROVE  IsSeq(Dropped(k)) /\ Len(Dropped(k)) = Len(values) - k
<1>1. values \in Seq(ToSet(values))
  BY DEF IsSeq
<1>2. Dropped(k) \in Seq(ToSet(values)) /\ Len(Dropped(k)) = Len(values) - k
  BY <1>1 DEF Dropped
<1> QED
  BY <1>2, SeqIsSeq

(***************************************************************************)
(* Agendas.                                                                *)
(***************************************************************************)

LEMMA RunsNone == ASSUME NEW root, NEW s PROVE Runs(root, <<>>, s, s)
<1> DEFINE st == [i \in {1} |-> s]
<1>1. st[1] = s /\ st[Len(<<>>) + 1] = s
  OBVIOUS
<1>2. \A i \in 1..Len(<<>>) : Step(root, <<>>[i], st[i], st[i + 1])
  OBVIOUS
<1> QED
  BY <1>1, <1>2 DEF Runs

LEMMA RunsOne ==
  ASSUME NEW root, NEW t, NEW s, NEW e, Step(root, t, s, e)
  PROVE  Runs(root, <<t>>, s, e)
<1> DEFINE st == [i \in {1, 2} |-> IF i = 1 THEN s ELSE e]
<1>1. st[1] = s /\ st[2] = e
  OBVIOUS
<1>2. Len(<<t>>) = 1 /\ <<t>>[1] = t
  OBVIOUS
<1>3. \A i \in 1..Len(<<t>>) : Step(root, <<t>>[i], st[i], st[i + 1])
  <2> SUFFICES ASSUME NEW i \in 1..Len(<<t>>) PROVE Step(root, <<t>>[i], st[i], st[i + 1])
    OBVIOUS
  <2>1. i = 1
    BY <1>2
  <2> QED
    BY <1>1, <1>2, <2>1
<1> HIDE DEF st
<1>4. st[Len(<<t>>) + 1] = e
  BY <1>1, <1>2
<1> QED
  BY <1>1, <1>3, <1>4 DEF Runs

LEMMA RunsConcat ==
  ASSUME NEW root, NEW a, NEW b, IsSeq(a), IsSeq(b),
         NEW s, NEW m, NEW e, Runs(root, a, s, m), Runs(root, b, m, e)
  PROVE  Runs(root, a \o b, s, e)
<1> DEFINE n == Len(a)
           k == Len(b)
           c == a \o b
<1>1. /\ n \in Nat /\ k \in Nat /\ Len(c) = n + k
      /\ \A i \in 1..n : c[i] = a[i]
      /\ \A i \in 1..k : c[n + i] = b[i]
  BY ConcatIsSeq DEF IsSeq
<1>2. PICK st : /\ st[1] = s /\ st[n + 1] = m
                /\ \A i \in 1..n : Step(root, a[i], st[i], st[i + 1])
  BY DEF Runs
<1>3. PICK su : /\ su[1] = m /\ su[k + 1] = e
                /\ \A i \in 1..k : Step(root, b[i], su[i], su[i + 1])
  BY DEF Runs
<1> HIDE DEF n, k, c
<1> DEFINE sv == [i \in 1..(n + k + 1) |-> IF i <= n THEN st[i] ELSE su[i - n]]
<1>4. sv[1] = s
  BY <1>1, <1>2, <1>3
<1>5. sv[Len(c) + 1] = e
  BY <1>1, <1>3
<1>6. ASSUME NEW i \in 1..Len(c) PROVE Step(root, c[i], sv[i], sv[i + 1])
  <2>1. CASE i <= n
    <3>1. sv[i] = st[i] /\ c[i] = a[i] /\ i \in 1..n
      BY <1>1, <2>1
    <3>2. sv[i + 1] = st[i + 1]
      BY <1>1, <1>2, <1>3, <2>1
    <3> HIDE DEF sv
    <3> QED
      BY <1>2, <3>1, <3>2
  <2>2. CASE i > n
    <3>1. sv[i] = su[i - n] /\ sv[i + 1] = su[(i - n) + 1] /\ i - n \in 1..k
      BY <1>1, <2>2
    <3>2. c[i] = b[i - n]
      <4> DEFINE j == i - n
      <4>1. j \in 1..k /\ n + j = i
        BY <1>1, <3>1
      <4> QED
        BY <1>1, <4>1
    <3> HIDE DEF sv
    <3> QED
      BY <1>3, <3>1, <3>2
  <2> QED
    BY <1>1, <2>1, <2>2
<1> HIDE DEF sv
<1> QED
  BY <1>4, <1>5, <1>6 DEF Runs, c

LEMMA RunsFirst ==
  ASSUME NEW root, NEW a, IsSeq(a), a # <<>>, NEW s, NEW e, Runs(root, a, s, e)
  PROVE  \E m : Step(root, Head(a), s, m) /\ Runs(root, Tail(a), m, e)
<1> DEFINE n == Len(a)
           b == Tail(a)
<1>1. /\ n \in Nat \ {0} /\ Len(b) = n - 1 /\ Head(a) = a[1]
      /\ \A i \in 1..(n - 1) : b[i] = a[i + 1]
  BY TailIsSeq
<1>2. PICK st : /\ st[1] = s /\ st[n + 1] = e
                /\ \A i \in 1..n : Step(root, a[i], st[i], st[i + 1])
  BY DEF Runs
<1> HIDE DEF n, b
<1> DEFINE su == [i \in 1..n |-> st[i + 1]]
<1>3. su[1] = st[2] /\ su[Len(b) + 1] = e
  BY <1>1, <1>2
<1>4. ASSUME NEW i \in 1..Len(b) PROVE Step(root, b[i], su[i], su[i + 1])
  <2>1. b[i] = a[i + 1] /\ su[i] = st[i + 1] /\ su[i + 1] = st[(i + 1) + 1] /\ i + 1 \in 1..n
    BY <1>1
  <2> HIDE DEF su
  <2> QED
    BY <1>2, <2>1
<1> HIDE DEF su
<1>5. Runs(root, b, st[2], e)
  BY <1>3, <1>4 DEF Runs
<1>6. Step(root, Head(a), s, st[2])
  BY <1>1, <1>2
<1> QED
  BY <1>5, <1>6 DEF b

LEMMA RunsSame ==
  ASSUME NEW root, NEW a, NEW s, \A i \in 1..Len(a) : Step(root, a[i], s, s), Len(a) \in Nat
  PROVE  Runs(root, a, s, s)
<1> DEFINE st == [i \in 1..(Len(a) + 1) |-> s]
<1>1. st[1] = s /\ st[Len(a) + 1] = s
  OBVIOUS
<1>2. \A i \in 1..Len(a) : st[i] = s /\ st[i + 1] = s
  OBVIOUS
<1> HIDE DEF st
<1>3. \A i \in 1..Len(a) : Step(root, a[i], st[i], st[i + 1])
  BY <1>2
<1> QED
  BY <1>1, <1>3 DEF Runs

LEMMA RunsVisits ==
  ASSUME NEW root, NEW es \in Seq(Expressions), NEW v \in Nat, NEW p, NEW b, b # <<>>
  PROVE  /\ IsSeq(Visits(es))
         /\ Runs(root, Visits(es), Shape(v, p, b), Shape(v + Len(es), p, b))
<1> DEFINE n == Len(es)
           st == [i \in 1..(n + 1) |-> Shape(v + i - 1, p, b)]
<1>1. n \in Nat /\ DOMAIN es = 1..n
  OBVIOUS
<1>2. Visits(es) = [i \in 1..n |-> Visit(es[i])]
  BY <1>1 DEF Visits
<1>3. IsSeq(Visits(es)) /\ Len(Visits(es)) = n
  BY <1>1, <1>2, MapIsSeq
<1>4. ASSUME NEW i \in 1..n PROVE Step(root, Visits(es)[i], st[i], st[i + 1])
  <2>1. Visits(es)[i].do = "visit" /\ Visits(es)[i].expr \in Expressions
    BY <1>1, <1>2 DEF Visit
  <2>2. st[i].vals = v + i - 1 /\ st[i].pend = p /\ st[i].blks = b
    BY <1>1 DEF Shape
  <2>3. st[i + 1] = Shape(v + i, p, b)
    BY <1>1
  <2>4. (v + i - 1) + 1 = v + i
    OBVIOUS
  <2> HIDE DEF st
  <2> QED
    BY <2>1, <2>2, <2>3, <2>4 DEF Step
<1>5. st[1] = Shape(v, p, b) /\ st[n + 1] = Shape(v + n, p, b)
  <2>1. 1 \in 1..(n + 1) /\ n + 1 \in 1..(n + 1) /\ v + 1 - 1 = v /\ v + (n + 1) - 1 = v + n
    BY <1>1
  <2> QED
    BY <2>1
<1> HIDE DEF st
<1> QED
  BY <1>3, <1>4, <1>5 DEF Runs

(***************************************************************************)
(* Contexts. What grows from a context keeps its stacks, and its new       *)
(* records belong to the block that is being parsed.                       *)
(***************************************************************************)

IsContext(c) == DOMAIN c = {"ir", "storage", "names", "ops", "defs", "frames", "compiled",
                            "addable", "symbols", "inserted", "blocks", "pending"}

Grows(c, d) ==
  /\ IsContext(d)
  /\ d.blocks = c.blocks /\ d.pending = c.pending /\ d.frames = c.frames
  /\ \A r \in d.symbols : r \in c.symbols \/ r.block = Block(c)

\* Nothing that a stack or a scope depends on changes.
Keeps(c, d) ==
  /\ IsContext(d) /\ d.symbols = c.symbols
  /\ d.blocks = c.blocks /\ d.pending = c.pending /\ d.frames = c.frames

LEMMA GrowsBack == ASSUME NEW c, IsContext(c) PROVE Grows(c, c)
BY DEF Grows

LEMMA GrowsContext == ASSUME NEW c, NEW d, Grows(c, d) PROVE IsContext(d)
BY DEF Grows

LEMMA GrowsOn == ASSUME NEW c, NEW d, NEW e, Grows(c, d), Grows(d, e) PROVE Grows(c, e)
BY DEF Grows, Block

\* The fields that no stack depends on.
LEMMA GrowsGraph == ASSUME NEW c, IsContext(c), NEW x PROVE Grows(c, [c EXCEPT !.ir = x])
BY DEF Grows, IsContext
LEMMA GrowsTypes == ASSUME NEW c, IsContext(c), NEW x PROVE Grows(c, [c EXCEPT !.storage = x])
BY DEF Grows, IsContext
LEMMA GrowsNames == ASSUME NEW c, IsContext(c), NEW x PROVE Grows(c, [c EXCEPT !.names = x])
BY DEF Grows, IsContext
LEMMA GrowsOps == ASSUME NEW c, IsContext(c), NEW x PROVE Grows(c, [c EXCEPT !.ops = x])
BY DEF Grows, IsContext

LEMMA GrowsInsert == ASSUME NEW c, IsContext(c), NEW rs PROVE Grows(c, Insert(c, rs))
<1> DEFINE new == {In(Block(c), rs[i], c.inserted + i) : i \in DOMAIN rs}
           x   == c.inserted + Len(rs)
<1>1. \A r \in new : r.block = Block(c)
  BY DEF In
<1>2. Insert(c, rs) = [c EXCEPT !.symbols = c.symbols \union new, !.inserted = x]
  BY DEF Insert, IsContext
<1> HIDE DEF new, x
<1> QED
  BY <1>1, <1>2 DEF Grows, IsContext

LEMMA GrowsVarNames ==
  ASSUME NEW c, IsContext(c), NEW names, NEW n, NEW kinds
  PROVE  Grows(c, GenVarNames(c, names, n, kinds))
<1> DEFINE Name(i) == IF names[i] = Anonymous THEN FreshPorts(c, Len(names))[i] ELSE names[i]
           rs == [i \in DOMAIN names |-> Record(Name(i), FreshPorts(c, Len(names))[i], n, kinds[i])]
           d  == Insert(c, rs)
<1>1. Grows(c, d)
  BY GrowsInsert
<1>2. GenVarNames(c, names, n, kinds) = [d EXCEPT !.names = @ + Len(names)]
  BY DEF GenVarNames
<1> HIDE DEF d
<1>3. Grows(d, [d EXCEPT !.names = d.names + Len(names)])
  BY <1>1, GrowsNames DEF Grows
<1> QED
  BY <1>1, <1>2, <1>3, GrowsOn

LEMMA GrowsPorts ==
  ASSUME NEW c, IsContext(c), NEW n, NEW p, NEW q
  PROVE  /\ Grows(c, AddInputPorts(c, n, p)) /\ Grows(c, AddOutputPorts(c, n, p))
         /\ Grows(c, AddStatePorts(c, n, p, q))
<1>1. Grows(c, AddInputPorts(c, n, p))
  BY GrowsGraph DEF AddInputPorts
<1>2. Grows(c, AddOutputPorts(c, n, p))
  BY GrowsGraph DEF AddOutputPorts
<1>3. Grows(c, AddStatePorts(c, n, p, q))
  BY GrowsGraph DEF AddStatePorts, Grows, IsContext, Block
<1> QED
  BY <1>1, <1>2, <1>3

LEMMA GrowsUse ==
  ASSUME NEW c, IsContext(c), NEW names, NEW n
  PROVE  /\ Grows(c, UseAll(c, names, n)) /\ Grows(c, GenAll(c, names, n))
         /\ Grows(c, UseAt(c, names, n)) /\ Grows(c, GenAt(c, names, n))
<1>1. ASSUME NEW x PROVE Grows(c, UseAll(c, x, n)) /\ Grows(c, GenAll(c, x, n))
  <2> DEFINE d == GenVarNames(c, x, n, Each(x, "use"))
             e == GenVarNames(c, x, n, Each(x, "gen"))
  <2>1. Grows(c, d) /\ Grows(c, e)
    BY GrowsVarNames
  <2>2. UseAll(c, x, n) = AddInputPorts(d, n, FreshPorts(c, Len(x)))
    BY DEF UseAll
  <2>3. GenAll(c, x, n) = AddOutputPorts(e, n, FreshPorts(c, Len(x)))
    BY DEF GenAll
  <2> HIDE DEF d, e
  <2>4. IsContext(d) /\ IsContext(e)
    BY <2>1 DEF Grows
  <2>5. Grows(d, UseAll(c, x, n)) /\ Grows(e, GenAll(c, x, n))
    BY <2>2, <2>3, <2>4, GrowsPorts
  <2> QED
    BY <2>1, <2>5, GrowsOn
<1> QED
  BY <1>1 DEF UseAt, GenAt

LEMMA GrowsSetTypes ==
  ASSUME NEW c, IsContext(c), NEW p, NEW t
  PROVE  Grows(c, SetTypes(c, p, t)) /\ Grows(c, SetType(c, p, t))
<1>1. ASSUME NEW ps, NEW ts PROVE Grows(c, SetTypes(c, ps, ts))
  BY GrowsTypes DEF SetTypes
<1> QED
  BY <1>1 DEF SetType

LEMMA GrowsNode ==
  ASSUME NEW c, IsContext(c), NEW op, NEW x, NEW b, NEW n
  PROVE  Grows(c, NewOp(c, op, x)) /\ Grows(c, AddNode(c, b, n))
<1>1. Grows(c, NewOp(c, op, x))
  <2> DEFINE d == GenOpName(c)
  <2>1. Grows(c, d)
    BY GrowsOps DEF GenOpName
  <2>2. IsContext(d)
    BY <2>1 DEF Grows
  <2> HIDE DEF d
  <2>3. ASSUME NEW m, NEW node PROVE Grows(d, Create(d, m, node))
    BY <2>2, GrowsGraph DEF Create
  <2> QED
    BY <2>1, <2>3, GrowsOn DEF NewOp, d
<1>2. Grows(c, AddNode(c, b, n))
  BY DEF AddNode, Grows, IsContext, Block
<1> QED
  BY <1>1, <1>2

\* What only writes the graph.
LEMMA GrowsEdges ==
  ASSUME NEW c, IsContext(c), NEW n, NEW x, NEW y, NEW z
  PROVE  /\ Grows(c, Link(c, x)) /\ Grows(c, MoveBody(c, n)) /\ Grows(c, NewTail(c, n, x, y))
         /\ Grows(c, ClearOutputs(c, n)) /\ Grows(c, Rename(c, n, x, y))
<1>1. Grows(c, Link(c, x))
  BY GrowsGraph DEF Link
<1>2. Grows(c, MoveBody(c, n))
  BY GrowsGraph DEF MoveBody
<1>3. Grows(c, NewTail(c, n, x, y))
  BY GrowsGraph DEF NewTail
<1>4. Grows(c, ClearOutputs(c, n))
  BY GrowsGraph DEF ClearOutputs
<1>5. Grows(c, Rename(c, n, x, y))
  BY GrowsGraph, GrowsBack DEF Rename
<1> QED
  BY <1>1, <1>2, <1>3, <1>4, <1>5

LEMMA GrowsReturns ==
  ASSUME NEW c, IsContext(c), NEW n, NEW tail
  PROVE  Grows(c, Returns(c, n, tail))
<1> DEFINE d == GenAt(c, Anonymous, n)
           e == AddNode(d, n, tail[1])
<1>1. Grows(c, d) /\ IsContext(d)
  BY GrowsUse, GrowsContext
<1> HIDE DEF d
<1>2. Grows(d, e) /\ IsContext(e)
  BY <1>1, GrowsNode, GrowsContext
<1> HIDE DEF e
<1>3. ASSUME NEW b, NEW k, NEW x, NEW y PROVE Grows(e, AddEdge(e, b, k, x, y))
  BY <1>2, GrowsGraph DEF AddEdge
<1>4. Grows(e, Returns(c, n, tail))
  BY <1>3 DEF Returns, AddOutputNode, d, e
<1> QED
  BY <1>1, <1>2, <1>4, GrowsOn

LEMMA TypesFlow ==
  ASSUME NEW c, IsContext(c), NEW n, NEW tip, NEW t
  PROVE  Keeps(c, Infer(c, n)) /\ Keeps(c, Arrive(c, tip, t)) /\ Keeps(c, Leave(c, n))
<1>1. ASSUME NEW d, Keeps(c, d), NEW p, NEW x PROVE Keeps(c, SetType(d, p, x))
  <2>1. ASSUME NEW y PROVE Keeps(c, [d EXCEPT !.storage = y])
    BY <1>1 DEF Keeps, IsContext
  <2> QED
    BY <2>1 DEF SetType, SetTypes
<1>2. Keeps(c, c)
  BY DEF Keeps
<1>3. Keeps(c, Infer(c, n))
  BY <1>1, <1>2 DEF Infer
<1>4. Keeps(c, Arrive(c, tip, t))
  BY <1>1, <1>2 DEF Arrive
<1>5. Keeps(c, Leave(c, n))
  <2>1. ASSUME NEW y PROVE Keeps(c, [c EXCEPT !.storage = y])
    BY DEF Keeps, IsContext
  <2> QED
    BY <2>1 DEF Leave
<1> QED
  BY <1>3, <1>4, <1>5

\* The parameters and the results of a function.
LEMMA GrowsDeclared ==
  ASSUME NEW c, IsContext(c), NEW n, NEW leaves
  PROVE  Grows(c, AddArguments(c, n, leaves)) /\ Grows(c, AddReturns(c, n, leaves))
<1>1. Grows(c, AddArguments(c, n, leaves))
  <2> DEFINE ports == FreshPorts(c, Len(leaves))
             d == GenVarNames(c, Paths(leaves), n, Each(leaves, "def"))
             e == AddInputPorts(d, n, ports)
  <2>1. Grows(c, d) /\ IsContext(d)
    BY GrowsVarNames, GrowsContext
  <2> HIDE DEF d
  <2>2. Grows(d, e) /\ IsContext(e)
    BY <2>1, GrowsPorts, GrowsContext
  <2> HIDE DEF e
  <2>3. Grows(e, AddArguments(c, n, leaves))
    BY <2>2, GrowsSetTypes DEF AddArguments, d, e
  <2> QED
    BY <2>1, <2>2, <2>3, GrowsOn
<1>2. Grows(c, AddReturns(c, n, leaves))
  <2> DEFINE d == GenAll(c, Paths(leaves), n)
  <2>1. Grows(c, d) /\ IsContext(d)
    BY GrowsUse, GrowsContext
  <2> HIDE DEF d
  <2>2. Grows(d, AddReturns(c, n, leaves))
    BY <2>1, GrowsSetTypes DEF AddReturns, d
  <2> QED
    BY <2>1, <2>2, GrowsOn
<1> QED
  BY <1>1, <1>2

(***************************************************************************)
(* The inductive invariant: while a program is parsed, the agenda leads    *)
(* from the present stacks to no values, and every name that is recorded   *)
(* belongs to the function, to a block that is being parsed, or is a       *)
(* result.                                                                 *)
(***************************************************************************)

Stacks(c) == IsContext(c) /\ IsSeq(c.blocks) /\ IsSeq(c.pending) /\ IsSeq(c.frames)

Scoped(root, c) ==
  \A r \in c.symbols : r.kind = "gen" \/ r.block = root \/ r.block \in ToSet(c.blocks)

Now(vs, c) == Shape(Len(vs), c.pending, c.blocks)

Parsing(src, ds, a, vs, c) ==
  /\ src \in Programs /\ IsSeq(ds) /\ ToSet(ds) \subseteq ToSet(src)
  /\ IsSeq(a) /\ IsSeq(vs) /\ Stacks(c) /\ Scoped(Root(c), c)
  /\ \E e : e.vals = 0 /\ Runs(Root(c), a, Now(vs, c), e)

ScopesInv == outcome = "running" => Parsing(source, decls, agenda, values, ctx)

LEMMA GrowsScoped ==
  ASSUME NEW root, NEW c, NEW d, Stacks(c), Scoped(root, c),
         Keeps(c, d) \/ (Grows(c, d) /\ c.blocks # <<>>)
  PROVE  /\ Stacks(d) /\ Scoped(root, d)
         /\ d.blocks = c.blocks /\ d.pending = c.pending /\ d.frames = c.frames
<1>1. /\ Stacks(d) /\ d.blocks = c.blocks /\ d.pending = c.pending /\ d.frames = c.frames
  BY DEF Stacks, Keeps, Grows
<1>2. CASE Keeps(c, d)
  BY <1>1, <1>2 DEF Scoped, Keeps
<1>3. CASE Grows(c, d) /\ c.blocks # <<>>
  <2>1. Block(c) \in ToSet(c.blocks)
    BY <1>3, FrontIsSeq DEF Stacks, Block
  <2> QED
    BY <1>1, <1>3, <2>1 DEF Scoped, Grows
<1> QED
  BY <1>1, <1>2, <1>3

\* Tasks that lead to the shape that the task they replace leads to.
LEMMA Advance ==
  ASSUME NEW c, NEW more, NEW vs,
         Parsing(source, decls, agenda, values, ctx), agenda # <<>>,
         IsSeq(more), IsSeq(vs), Stacks(c), c.frames = ctx.frames, Scoped(Root(ctx), c),
         \A m : Step(Root(ctx), Task, Now(values, ctx), m) => Runs(Root(ctx), more, Now(vs, c), m)
  PROVE  Parsing(source, decls, more \o Tail(agenda), vs, c)
<1> DEFINE root == Root(ctx)
           rest == Tail(agenda)
<1>1. Root(c) = root
  BY DEF Root
<1>2. IsSeq(agenda) /\ IsSeq(rest)
  BY TailIsSeq DEF Parsing
<1>3. PICK e : e.vals = 0 /\ Runs(root, agenda, Now(values, ctx), e)
  BY DEF Parsing
<1>4. PICK m : Step(root, Task, Now(values, ctx), m) /\ Runs(root, rest, m, e)
  BY <1>2, <1>3, RunsFirst DEF Task
<1>5. Runs(root, more, Now(vs, c), m)
  BY <1>4
<1> HIDE DEF root, rest
<1>6. Runs(root, more \o rest, Now(vs, c), e)
  BY <1>2, <1>4, <1>5, RunsConcat
<1>7. IsSeq(more \o rest)
  BY <1>2, ConcatIsSeq
<1> QED
  BY <1>1, <1>3, <1>6, <1>7 DEF Parsing, root, rest

LEMMA TryAdvances ==
  ASSUME NEW ok, NEW c, NEW more, NEW vs,
         Parsing(source, decls, agenda, values, ctx), agenda # <<>>, Try(ok, c, more, vs),
         ok => /\ IsSeq(more) /\ IsSeq(vs) /\ Stacks(c) /\ c.frames = ctx.frames
               /\ Scoped(Root(ctx), c),
         ok => \A m : Step(Root(ctx), Task, Now(values, ctx), m)
                        => Runs(Root(ctx), more, Now(vs, c), m)
  PROVE  ScopesInv'
<1>1. CASE ok
  <2>1. Parsing(source, decls, more \o Tail(agenda), vs, c)
    BY <1>1, Advance
  <2>2. /\ source' = source /\ decls' = decls /\ agenda' = more \o Tail(agenda)
        /\ values' = vs /\ ctx' = c
    BY <1>1 DEF Try
  <2>3. Parsing(source', decls', agenda', values', ctx')
    BY <2>1, <2>2
  <2> QED
    BY <2>3 DEF ScopesInv
<1>2. CASE ~ok
  BY <1>2 DEF Try, ScopesInv
<1> QED
  BY <1>1, <1>2

\* A visitor that ends with its task.
LEMMA TryEnds ==
  ASSUME NEW ok, NEW c, NEW vs,
         Parsing(source, decls, agenda, values, ctx), agenda # <<>>, Try(ok, c, <<>>, vs),
         ok => IsSeq(vs) /\ (Keeps(ctx, c) \/ (Grows(ctx, c) /\ ctx.blocks # <<>>)),
         ok => \A m : Step(Root(ctx), Task, Now(values, ctx), m)
                        => m = Shape(Len(vs), ctx.pending, ctx.blocks)
  PROVE  ScopesInv'
<1>1. ok => /\ Stacks(c) /\ Scoped(Root(ctx), c)
            /\ c.blocks = ctx.blocks /\ c.pending = ctx.pending /\ c.frames = ctx.frames
  BY GrowsScoped DEF Parsing
<1>2. ok => \A m : Step(Root(ctx), Task, Now(values, ctx), m)
                     => Runs(Root(ctx), <<>>, Now(vs, c), m)
  BY <1>1, RunsNone DEF Now
<1> QED
  BY <1>1, <1>2, NoneIsSeq, TryAdvances

(***************************************************************************)
(* Visitors that end with their task.                                      *)
(***************************************************************************)

LEMMA StatementNow ==
  ASSUME NEW root, NEW t, NEW v, NEW p, NEW b, NEW m, Step(root, t, Shape(v, p, b), m),
         t.do \in {"assign", "return"}
  PROVE  /\ v = 0 /\ p = <<>> /\ b = <<root>> /\ b # <<>>
         /\ t.do = "assign" => m = Shape(v, p, b) /\ t.rhs \in Expressions
         /\ t.do = "return" => m = Shape(0, <<>>, <<>>)
<1> DEFINE s == Shape(v, p, b)
<1>1. s.vals = v /\ s.pend = p /\ s.blks = b
  BY DEF Shape
<1>2. /\ Shape(0, <<>>, <<root>>).vals = 0 /\ Shape(0, <<>>, <<root>>).pend = <<>>
      /\ Shape(0, <<>>, <<root>>).blks = <<root>>
  BY DEF Shape
<1> HIDE DEF s
<1>3. /\ s = Shape(0, <<>>, <<root>>)
      /\ t.do = "assign" => m = s /\ t.rhs \in Expressions
      /\ t.do = "return" => m = Shape(0, <<>>, <<>>)
  BY DEF Step, s
<1>4. <<root>> # <<>>
  OBVIOUS
<1> QED
  BY <1>1, <1>2, <1>3, <1>4 DEF s

LEMMA EndsSame ==
  ASSUME ScopesInv, outcome = "running", agenda # <<>>,
         Task.do \in {"assign", "operand", "init", "input", "arguments"},
         NEW ok, NEW c, Try(ok, c, <<>>, values), ok => Grows(ctx, c)
  PROVE  ScopesInv'
<1>1. Parsing(source, decls, agenda, values, ctx)
  BY DEF ScopesInv
<1>2. \A m : Step(Root(ctx), Task, Now(values, ctx), m) => m = Now(values, ctx) /\ ctx.blocks # <<>>
  <2>1. CASE Task.do = "assign"
    BY <2>1, StatementNow DEF Now
  <2>2. CASE Task.do # "assign"
    BY <2>2 DEF Step, Now, Shape
  <2> QED
    BY <2>1, <2>2
<1>3. PICK m : Step(Root(ctx), Task, Now(values, ctx), m)
  BY <1>1, RunsFirst DEF Parsing, Task
<1> QED
  BY <1>1, <1>2, <1>3, TryEnds DEF Parsing, Now

LEMMA EndsFlow ==
  ASSUME ScopesInv, outcome = "running", agenda # <<>>,
         Task.do \in {"compiled", "propagate", "in_edges", "edges", "leave"},
         NEW ok, NEW c, Try(ok, c, <<>>, values), ok => Keeps(ctx, c)
  PROVE  ScopesInv'
<1>1. Parsing(source, decls, agenda, values, ctx)
  BY DEF ScopesInv
<1>2. \A m : Step(Root(ctx), Task, Now(values, ctx), m)
               => m = Shape(Len(values), ctx.pending, ctx.blocks)
  BY DEF Step, Now, Shape
<1>3. IsSeq(values)
  BY <1>1 DEF Parsing
<1> QED
  BY <1>1, <1>2, <1>3, TryEnds

LEMMA EndsDrop ==
  ASSUME ScopesInv, outcome = "running", agenda # <<>>,
         Task.do \in {"bind", "link", "feed", "endLambda"},
         NEW ok, NEW c, Try(ok, c, <<>>, Dropped(1)), ok => Grows(ctx, c)
  PROVE  ScopesInv'
<1>1. Parsing(source, decls, agenda, values, ctx)
  BY DEF ScopesInv
<1>2. \A m : Step(Root(ctx), Task, Now(values, ctx), m)
               => /\ m = Shape(Len(values) - 1, ctx.pending, ctx.blocks)
                  /\ ctx.blocks # <<>> /\ Len(values) > 0
  BY DEF Step, Now, Shape
<1>3. PICK m : Step(Root(ctx), Task, Now(values, ctx), m)
  BY <1>1, RunsFirst DEF Parsing, Task
<1>4. IsSeq(values) /\ 1 \in 0..Len(values)
  BY <1>1, <1>2, <1>3 DEF Parsing, IsSeq
<1>5. IsSeq(Dropped(1)) /\ Len(Dropped(1)) = Len(values) - 1
  BY <1>4, DroppedIsSeq
<1> QED
  BY <1>1, <1>2, <1>3, <1>5, TryEnds

LEMMA EndsGive ==
  ASSUME ScopesInv, outcome = "running", agenda # <<>>, Task.do = "visit",
         NEW ok, NEW c, NEW v, Try(ok, c, <<>>, Give(v)), ok => Grows(ctx, c)
  PROVE  ScopesInv'
<1>1. Parsing(source, decls, agenda, values, ctx)
  BY DEF ScopesInv
<1>2. \A m : Step(Root(ctx), Task, Now(values, ctx), m)
               => m = Shape(Len(values) + 1, ctx.pending, ctx.blocks) /\ ctx.blocks # <<>>
  BY DEF Step, Now, Shape
<1>3. PICK m : Step(Root(ctx), Task, Now(values, ctx), m)
  BY <1>1, RunsFirst DEF Parsing, Task
<1>4. IsSeq(Give(v)) /\ Len(Give(v)) = Len(values) + 1
  BY <1>1, AppendIsSeq DEF Parsing, Give
<1> QED
  BY <1>1, <1>2, <1>3, <1>4, TryEnds

LEMMA ContextNow ==
  ASSUME ScopesInv, outcome = "running"
  PROVE  IsContext(ctx)
BY DEF ScopesInv, Parsing, Stacks

LEMMA OperandNameKeeps == ASSUME ScopesInv, OperandName PROVE ScopesInv'
<1>1. outcome = "running" /\ agenda # <<>> /\ Task.do = "operand"
  BY DEF OperandName, Doing
<1> DEFINE d == UseAt(ctx, Anonymous, Current(ctx))
<1>2. PICK ok, es : Try(ok, Link(d, es), <<>>, values)
  BY DEF OperandName
<1>3. Grows(ctx, d)
  BY <1>1, ContextNow, GrowsUse
<1> HIDE DEF d
<1>4. Grows(ctx, Link(d, es))
  BY <1>3, GrowsContext, GrowsEdges, GrowsOn
<1> QED
  BY <1>1, <1>2, <1>4, EndsSame

LEMMA UnpackKeeps == ASSUME ScopesInv, Unpack PROVE ScopesInv'
<1>1. outcome = "running" /\ agenda # <<>> /\ Task.do = "assign"
  BY DEF Unpack, Doing
<1>2. PICK ok, rs : Try(ok, Insert(ctx, rs), <<>>, values)
  BY DEF Unpack
<1>3. Grows(ctx, Insert(ctx, rs))
  BY <1>1, ContextNow, GrowsInsert
<1> QED
  BY <1>1, <1>2, <1>3, EndsSame

LEMMA InitKeeps ==
  ASSUME ScopesInv, InitFromName \/ InitFromNode PROVE ScopesInv'
<1>1. outcome = "running" /\ agenda # <<>> /\ Task.do = "init"
  BY DEF InitFromName, InitFromNode, Doing
<1>2. PICK ok, names, n, kinds, inits, states, es :
        Try(ok, Link(AddStatePorts(GenVarNames(ctx, names, n, kinds), n, inits, states), es),
            <<>>, values)
  <2>1. CASE InitFromName
    BY <2>1 DEF InitFromName, AddStates
  <2>2. CASE InitFromNode
    BY <2>2 DEF InitFromNode, AddStates
  <2> QED
    BY <2>1, <2>2
<1> DEFINE d == GenVarNames(ctx, names, n, kinds)
           e == AddStatePorts(d, n, inits, states)
<1>3. Grows(ctx, d)
  BY <1>1, ContextNow, GrowsVarNames
<1> HIDE DEF d
<1>4. Grows(ctx, e)
  BY <1>3, GrowsContext, GrowsPorts, GrowsOn
<1> HIDE DEF e
<1>5. Grows(ctx, Link(e, es))
  BY <1>4, GrowsContext, GrowsEdges, GrowsOn
<1>6. Try(ok, Link(e, es), <<>>, values)
  BY <1>2 DEF d, e
<1> QED
  BY <1>1, <1>5, <1>6, EndsSame

LEMMA AddInportKeeps == ASSUME ScopesInv, AddInport PROVE ScopesInv'
<1>1. outcome = "running" /\ agenda # <<>> /\ Task.do = "input"
  BY DEF AddInport, Doing
<1> DEFINE d == UseAt(ctx, Task.name, Task.node)
<1>2. PICK ok, es : Try(ok, Link(d, es), <<>>, values)
  BY DEF AddInport
<1>3. Grows(ctx, d)
  BY <1>1, ContextNow, GrowsUse
<1> HIDE DEF d
<1>4. Grows(ctx, Link(d, es))
  BY <1>3, GrowsContext, GrowsEdges, GrowsOn
<1> QED
  BY <1>1, <1>2, <1>4, EndsSame

LEMMA EndArgumentsKeeps == ASSUME ScopesInv, EndArguments PROVE ScopesInv'
<1>1. outcome = "running" /\ agenda # <<>> /\ Task.do = "arguments"
  BY DEF EndArguments, Doing
<1>2. Try(TRUE, ctx, <<>>, values) /\ Grows(ctx, ctx)
  BY <1>1, ContextNow, GrowsBack DEF EndArguments
<1> QED
  BY <1>1, <1>2, EndsSame

LEMMA FlowsKeep ==
  ASSUME ScopesInv, Compiled \/ PropagateOp \/ EndFlows \/ OutFlow PROVE ScopesInv'
<1> DEFINE kinds == {"compiled", "propagate", "in_edges", "edges", "leave"}
<1>1. outcome = "running" /\ agenda # <<>> /\ Task.do \in kinds
  BY DEF Compiled, PropagateOp, EndFlows, OutFlow, Doing
<1>2. IsContext(ctx)
  BY <1>1, ContextNow
<1>3. \E ok, c : Try(ok, c, <<>>, values) /\ Keeps(ctx, c)
  <2>1. CASE Compiled
    <3>1. Keeps(ctx, [ctx EXCEPT !.compiled = @ \union {Task.func}])
      BY <1>2 DEF Keeps, IsContext
    <3> QED
      BY <2>1, <3>1 DEF Compiled
  <2>2. CASE PropagateOp
    BY <1>2, <2>2, TypesFlow DEF PropagateOp
  <2>3. CASE EndFlows
    <3>1. Keeps(ctx, ctx)
      BY <1>2 DEF Keeps
    <3> QED
      BY <2>3, <3>1 DEF EndFlows
  <2>4. CASE OutFlow
    BY <1>2, <2>4, TypesFlow DEF OutFlow
  <2> QED
    BY <2>1, <2>2, <2>3, <2>4
<1> QED
  BY <1>1, <1>3, EndsFlow

LEMMA BindKeeps == ASSUME ScopesInv, Bind PROVE ScopesInv'
<1>1. outcome = "running" /\ agenda # <<>> /\ Task.do = "bind"
  BY DEF Bind, Doing
<1> DEFINE n == Given.of
           d == ClearOutputs(ctx, n)
           e == GenAll(d, Task.lhs, n)
<1>2. PICK ok, old, new : Try(ok, Rename(e, n, old, new), <<>>, Dropped(1))
  BY DEF Bind
<1>3. Grows(ctx, d)
  BY <1>1, ContextNow, GrowsEdges
<1> HIDE DEF d
<1>4. Grows(ctx, e)
  BY <1>3, GrowsContext, GrowsUse, GrowsOn
<1> HIDE DEF e, n
<1>5. Grows(ctx, Rename(e, n, old, new))
  BY <1>4, GrowsContext, GrowsEdges, GrowsOn
<1> QED
  BY <1>1, <1>2, <1>5, EndsDrop

LEMMA LinkOperandKeeps == ASSUME ScopesInv, LinkOperand PROVE ScopesInv'
<1>1. outcome = "running" /\ agenda # <<>> /\ Task.do = "link"
  BY DEF LinkOperand, Doing
<1>2. PICK ok, es : Try(ok, Link(ctx, es), <<>>, Dropped(1))
  BY DEF LinkOperand
<1>3. Grows(ctx, Link(ctx, es))
  BY <1>1, ContextNow, GrowsEdges
<1> QED
  BY <1>1, <1>2, <1>3, EndsDrop

LEMMA FeedKeeps == ASSUME ScopesInv, Feed PROVE ScopesInv'
<1>1. outcome = "running" /\ agenda # <<>> /\ Task.do = "feed"
  BY DEF Feed, Doing
<1>2. PICK ok, names, n, es : Try(ok, Link(UseAll(ctx, names, n), es), <<>>, Dropped(1))
  BY DEF Feed
<1> DEFINE d == UseAll(ctx, names, n)
<1>3. Grows(ctx, d)
  BY <1>1, ContextNow, GrowsUse
<1> HIDE DEF d
<1>4. Grows(ctx, Link(d, es))
  BY <1>3, GrowsContext, GrowsEdges, GrowsOn
<1>5. Try(ok, Link(d, es), <<>>, Dropped(1))
  BY <1>2 DEF d
<1> QED
  BY <1>1, <1>4, <1>5, EndsDrop

LEMMA EndLambdaKeeps ==
  ASSUME ScopesInv, EndLambdaOfFunction \/ EndLambdaOfExpression PROVE ScopesInv'
<1>1. outcome = "running" /\ agenda # <<>> /\ Task.do = "endLambda"
  BY DEF EndLambdaOfFunction, EndLambdaOfExpression, Doing
<1>2. CASE EndLambdaOfFunction
  <2>1. PICK ok, n, tail : Try(ok, Returns(ctx, n, tail), <<>>, Dropped(1))
    BY <1>2 DEF EndLambdaOfFunction
  <2>2. Grows(ctx, Returns(ctx, n, tail))
    BY <1>1, ContextNow, GrowsReturns
  <2> QED
    BY <1>1, <2>1, <2>2, EndsDrop
<1>3. CASE EndLambdaOfExpression
  <2>1. PICK ok, names, n, x :
          Try(ok, [GenAll(ctx, names, n) EXCEPT !.ir = x], <<>>, Dropped(1))
    BY <1>3 DEF EndLambdaOfExpression
  <2> DEFINE d == GenAll(ctx, names, n)
  <2>2. Grows(ctx, d)
    BY <1>1, ContextNow, GrowsUse
  <2> HIDE DEF d
  <2>3. Grows(ctx, [d EXCEPT !.ir = x])
    BY <2>2, GrowsContext, GrowsGraph, GrowsOn
  <2>4. Try(ok, [d EXCEPT !.ir = x], <<>>, Dropped(1))
    BY <2>1 DEF d
  <2> QED
    BY <1>1, <2>3, <2>4, EndsDrop
<1> QED
  BY <1>2, <1>3

LEMMA VisitNameKeeps == ASSUME ScopesInv, VisitName PROVE ScopesInv'
<1>1. outcome = "running" /\ agenda # <<>> /\ Task.do = "visit"
  BY DEF VisitName, Visiting, Doing
<1>2. Try(TRUE, ctx, <<>>, Give(NameValue(Task.expr.name))) /\ Grows(ctx, ctx)
  BY <1>1, ContextNow, GrowsBack DEF VisitName
<1> QED
  BY <1>1, <1>2, EndsGive

LEMMA VisitSubscriptKeeps == ASSUME ScopesInv, VisitSubscript PROVE ScopesInv'
<1>1. outcome = "running" /\ agenda # <<>> /\ Task.do = "visit"
  BY DEF VisitSubscript, Visiting, Doing
<1> DEFINE n  == OpName(ctx.ops)
           c1 == NewOp(ctx, Task.expr.is, Task.expr.attributes)
           c2 == UseAt(c1, Anonymous, n)
           c3 == GenAt(c2, Anonymous, n)
           c4 == AddNode(c3, Block(ctx), n)
<1>2. PICK ok, es, v : Try(ok, Link(c4, es), <<>>, Give(v))
  BY DEF VisitSubscript
<1>3. Grows(ctx, c1)
  BY <1>1, ContextNow, GrowsNode
<1> HIDE DEF c1
<1>4. Grows(ctx, c2)
  BY <1>3, GrowsContext, GrowsUse, GrowsOn
<1> HIDE DEF c2
<1>5. Grows(ctx, c3)
  BY <1>4, GrowsContext, GrowsUse, GrowsOn
<1> HIDE DEF c3
<1>6. Grows(ctx, c4)
  BY <1>5, GrowsContext, GrowsNode, GrowsOn
<1> HIDE DEF c4
<1>7. Grows(ctx, Link(c4, es))
  BY <1>6, GrowsContext, GrowsEdges, GrowsOn
<1> QED
  BY <1>1, <1>2, <1>7, EndsGive

(***************************************************************************)
(* Visitors that leave tasks behind.                                       *)
(***************************************************************************)

LEMMA RunsTwo ==
  ASSUME NEW root, NEW t, NEW u, NEW s, NEW m, NEW e, Step(root, t, s, m), Step(root, u, m, e)
  PROVE  IsSeq(<<t, u>>) /\ Runs(root, <<t, u>>, s, e)
<1>1. <<t, u>> = <<t>> \o <<u>>
  <2>1. <<t>> \in Seq({t, u}) /\ <<u>> \in Seq({t, u}) /\ Len(<<t>>) = 1 /\ Len(<<u>>) = 1
    OBVIOUS
  <2>2. <<t>> \o <<u>> \in Seq({t, u}) /\ Len(<<t>> \o <<u>>) = 2
    BY <2>1
  <2>3. \A i \in 1..2 : (<<t>> \o <<u>>)[i] = <<t, u>>[i]
    BY <2>1
  <2>4. <<t, u>> \in Seq({t, u}) /\ Len(<<t, u>>) = 2
    OBVIOUS
  <2> QED
    BY <2>2, <2>3, <2>4, SeqEqual
<1>2. Runs(root, <<t>>, s, m) /\ Runs(root, <<u>>, m, e)
  BY RunsOne
<1>3. IsSeq(<<t>>) /\ IsSeq(<<u>>)
  BY OneIsSeq
<1>4. IsSeq(<<t>> \o <<u>>) /\ Runs(root, <<t>> \o <<u>>, s, e)
  BY <1>2, <1>3, ConcatIsSeq, RunsConcat
<1> QED
  BY <1>1, <1>4

LEMMA RunsThree ==
  ASSUME NEW root, NEW t, NEW u, NEW w, NEW s, NEW m, NEW o, NEW e,
         Step(root, t, s, m), Step(root, u, m, o), Step(root, w, o, e)
  PROVE  IsSeq(<<t, u, w>>) /\ Runs(root, <<t, u, w>>, s, e)
<1>1. <<t, u, w>> = <<t>> \o <<u, w>>
  OBVIOUS
<1>2. Runs(root, <<t>>, s, m) /\ Runs(root, <<u, w>>, m, e) /\ IsSeq(<<u, w>>)
  BY RunsOne, RunsTwo
<1>3. IsSeq(<<t>>)
  BY OneIsSeq
<1>4. IsSeq(<<t>> \o <<u, w>>) /\ Runs(root, <<t>> \o <<u, w>>, s, e)
  BY <1>2, <1>3, ConcatIsSeq, RunsConcat
<1> QED
  BY <1>1, <1>4

LEMMA ParsingNow ==
  ASSUME ScopesInv, outcome = "running", agenda # <<>>
  PROVE  /\ Parsing(source, decls, agenda, values, ctx)
         /\ IsSeq(values) /\ Len(values) \in Nat /\ Stacks(ctx) /\ Scoped(Root(ctx), ctx)
         /\ IsContext(ctx)
         /\ \E m : Step(Root(ctx), Task, Now(values, ctx), m)
<1>1. Parsing(source, decls, agenda, values, ctx)
  BY DEF ScopesInv
<1>2. \E m : Step(Root(ctx), Task, Now(values, ctx), m)
  BY <1>1, RunsFirst DEF Parsing, Task
<1>3. IsSeq(values) /\ Stacks(ctx) /\ Scoped(Root(ctx), ctx)
  BY <1>1 DEF Parsing
<1>4. IsContext(ctx)
  BY <1>3 DEF Stacks
<1>5. Len(values) \in Nat
  BY <1>3 DEF IsSeq
<1> QED
  BY <1>1, <1>2, <1>3, <1>4, <1>5

LEMMA VisitNow ==
  ASSUME ScopesInv, outcome = "running", agenda # <<>>, Task.do = "visit"
  PROVE  /\ Task.expr \in Expressions /\ ctx.blocks # <<>>
         /\ \A m : Step(Root(ctx), Task, Now(values, ctx), m)
                     => m = Shape(Len(values) + 1, ctx.pending, ctx.blocks)
<1>1. \A m : Step(Root(ctx), Task, Now(values, ctx), m)
               => /\ m = Shape(Len(values) + 1, ctx.pending, ctx.blocks)
                  /\ Task.expr \in Expressions /\ ctx.blocks # <<>>
  BY DEF Step, Now, Shape
<1> QED
  BY <1>1, ParsingNow

LEMMA Pushed ==
  ASSUME NEW c, Stacks(c), NEW n, NEW e, e = Push(c, n)
  PROVE  /\ Stacks(e) /\ e.frames = c.frames /\ e.symbols = c.symbols
         /\ e.blocks = c.blocks /\ e.pending = Append(c.pending, n)
<1> DEFINE x == Append(c.pending, n)
<1>1. IsSeq(x)
  BY AppendIsSeq DEF Stacks
<1> HIDE DEF x
<1>2. e = [c EXCEPT !.pending = x]
  BY DEF Push, x, Stacks, IsContext
<1>3. /\ IsContext(e) /\ e.pending = x /\ e.blocks = c.blocks
      /\ e.frames = c.frames /\ e.symbols = c.symbols
  BY <1>2 DEF Stacks, IsContext
<1> QED
  BY <1>1, <1>3 DEF Stacks, x

LEMMA Popped ==
  ASSUME NEW c, Stacks(c), c.pending # <<>>, NEW e, e = Pop(c)
  PROVE  /\ Stacks(e) /\ e.frames = c.frames /\ e.symbols = c.symbols
         /\ e.blocks = c.blocks /\ e.pending = Front(c.pending)
<1> DEFINE x == Front(c.pending)
<1>1. IsSeq(x)
  BY FrontIsSeq DEF Stacks
<1> HIDE DEF x
<1>2. e = [c EXCEPT !.pending = x]
  BY DEF Pop, x, Stacks, IsContext
<1>3. /\ IsContext(e) /\ e.pending = x /\ e.blocks = c.blocks
      /\ e.frames = c.frames /\ e.symbols = c.symbols
  BY <1>2 DEF Stacks, IsContext
<1> QED
  BY <1>1, <1>3 DEF Stacks, x

LEMMA ScopedAlso ==
  ASSUME NEW root, NEW c, NEW d, Scoped(root, c), d.blocks = c.blocks, d.symbols = c.symbols
  PROVE  Scoped(root, d)
BY DEF Scoped

\* A visitor that leaves a half-parsed node for the tasks that end it.
LEMMA TryPushes ==
  ASSUME ScopesInv, outcome = "running", agenda # <<>>, Task.do = "visit",
         NEW ok, NEW c, NEW n, NEW more,
         Try(ok, Push(c, n), more, values), Grows(ctx, c), IsSeq(more),
         Runs(Root(ctx), more, Shape(Len(values), Append(ctx.pending, n), ctx.blocks),
                               Shape(Len(values) + 1, ctx.pending, ctx.blocks))
  PROVE  ScopesInv'
<1> DEFINE root == Root(ctx)
           d    == Push(c, n)
<1>1. Stacks(ctx) /\ Scoped(root, ctx) /\ IsSeq(values)
  BY ParsingNow
<1>2. /\ Stacks(c) /\ Scoped(root, c)
      /\ c.blocks = ctx.blocks /\ c.pending = ctx.pending /\ c.frames = ctx.frames
  BY <1>1, VisitNow, GrowsScoped
<1>3. d = Push(c, n)
  OBVIOUS
<1> HIDE DEF d
<1>4. /\ Stacks(d) /\ d.frames = c.frames /\ d.symbols = c.symbols
      /\ d.blocks = c.blocks /\ d.pending = Append(c.pending, n)
  BY <1>2, <1>3, Pushed
<1>5. Scoped(root, d)
  BY <1>2, <1>4, ScopedAlso
<1>6. Now(values, d) = Shape(Len(values), Append(ctx.pending, n), ctx.blocks)
  BY <1>2, <1>4 DEF Now
<1>7. \A m : Step(root, Task, Now(values, ctx), m) => Runs(root, more, Now(values, d), m)
  BY <1>6, VisitNow
<1>8. Try(ok, d, more, values) /\ Parsing(source, decls, agenda, values, ctx)
  BY <1>3, ParsingNow
<1>9. d.frames = ctx.frames
  BY <1>2, <1>4
<1> QED
  BY <1>1, <1>4, <1>5, <1>7, <1>8, <1>9, TryAdvances

LEMMA PendingNow ==
  ASSUME ScopesInv, outcome = "running", agenda # <<>>, NEW n
  PROVE  Append(ctx.pending, n) # <<>> /\ Front(Append(ctx.pending, n)) = ctx.pending
         /\ Last(Append(ctx.pending, n)) = n
<1>1. IsSeq(ctx.pending)
  BY ParsingNow DEF Stacks
<1> QED
  BY <1>1, AppendIsSeq

LEMMA VisitBinOpKeeps == ASSUME ScopesInv, VisitBinOp PROVE ScopesInv'
<1>1. outcome = "running" /\ agenda # <<>> /\ Task.do = "visit" /\ Task.expr.is = "binop"
  BY DEF VisitBinOp, Visiting, Doing
<1> DEFINE e  == Task.expr
           n  == OpName(ctx.ops)
           c  == NewOp(ctx, e.op, <<>>)
           d  == AddNode(c, Block(ctx), n)
           left  == [do |-> "operand", expr |-> e.left]
           right == [do |-> "operand", expr |-> e.right]
           end   == [do |-> "endBinOp"]
           root  == Root(ctx)
           v  == Len(values)
           p  == Append(ctx.pending, n)
           b  == ctx.blocks
<1>2. PICK ok : Try(ok, Push(d, n), <<left, right, end>>, values)
  BY DEF VisitBinOp
<1>3. e \in Expressions /\ b # <<>> /\ e.left \in Expressions /\ e.right \in Expressions
  BY <1>1, VisitNow, SyntaxAssumption
<1>4. Grows(ctx, c)
  BY <1>1, ContextNow, GrowsNode
<1> HIDE DEF c
<1>5. Grows(ctx, d)
  BY <1>4, GrowsContext, GrowsNode, GrowsOn
<1> HIDE DEF d
<1>6. p # <<>> /\ Front(p) = ctx.pending
  BY <1>1, PendingNow
<1>7. /\ Step(root, left, Shape(v, p, b), Shape(v, p, b))
      /\ Step(root, right, Shape(v, p, b), Shape(v, p, b))
  BY <1>3 DEF Step, Shape
<1>8. Step(root, end, Shape(v, p, b), Shape(v + 1, ctx.pending, b))
  BY <1>3, <1>6 DEF Step, Shape
<1> HIDE DEF left, right, end
<1>9. /\ IsSeq(<<left, right, end>>)
      /\ Runs(root, <<left, right, end>>, Shape(v, p, b), Shape(v + 1, ctx.pending, b))
  BY <1>7, <1>8, RunsThree
<1> QED
  BY <1>1, <1>2, <1>5, <1>9, TryPushes

LEMMA CallPrimitiveKeeps == ASSUME ScopesInv, CallPrimitive PROVE ScopesInv'
<1>1. /\ outcome = "running" /\ agenda # <<>> /\ Task.do = "visit"
      /\ Task.expr.is \in {"call", "zip"}
  BY DEF CallPrimitive, Visiting, Doing
<1> DEFINE e  == Task.expr
           n  == OpName(ctx.ops)
           c  == NewOp(ctx, e.func, e.attributes)
           k  == Len(e.args)
           end  == [do |-> "endPrimitive", count |-> k]
           root == Root(ctx)
           v  == Len(values)
           p  == Append(ctx.pending, n)
           b  == ctx.blocks
<1>2. PICK ok, names :
        Try(ok, Push(AddNode(UseAll(c, names, n), Block(ctx), n), n), Visits(e.args) \o <<end>>, values)
  BY DEF CallPrimitive
<1> DEFINE d == UseAll(c, names, n)
           f == AddNode(d, Block(ctx), n)
<1>3. e.args \in Seq(Expressions) /\ b # <<>> /\ k \in Nat
  BY <1>1, VisitNow, SyntaxAssumption
<1>4. v \in Nat
  BY <1>1, ParsingNow
<1>5. Grows(ctx, c)
  BY <1>1, ContextNow, GrowsNode
<1>6. Try(ok, Push(f, n), Visits(e.args) \o <<end>>, values)
  BY <1>2
<1> HIDE DEF c
<1>7. Grows(ctx, d)
  BY <1>5, GrowsContext, GrowsUse, GrowsOn
<1> HIDE DEF d
<1>8. Grows(ctx, f)
  BY <1>7, GrowsContext, GrowsNode, GrowsOn
<1> HIDE DEF f
<1>9. p # <<>> /\ Front(p) = ctx.pending
  BY <1>1, PendingNow
<1>10. IsSeq(Visits(e.args)) /\ Runs(root, Visits(e.args), Shape(v, p, b), Shape(v + k, p, b))
  BY <1>3, <1>4, RunsVisits
<1>11. (v + k) - k = v /\ v + k >= k
  BY <1>3, <1>4
<1>12. Step(root, end, Shape(v + k, p, b), Shape(v + 1, ctx.pending, b))
  BY <1>3, <1>9, <1>11 DEF Step, Shape
<1> HIDE DEF end
<1>13. IsSeq(<<end>>) /\ Runs(root, <<end>>, Shape(v + k, p, b), Shape(v + 1, ctx.pending, b))
  BY <1>12, OneIsSeq, RunsOne
<1>14. /\ IsSeq(Visits(e.args) \o <<end>>)
       /\ Runs(root, Visits(e.args) \o <<end>>, Shape(v, p, b), Shape(v + 1, ctx.pending, b))
  BY <1>10, <1>13, ConcatIsSeq, RunsConcat
<1> QED
  BY <1>1, <1>6, <1>8, <1>14, TryPushes

LEMMA CallPatternKeeps == ASSUME ScopesInv, CallPattern PROVE ScopesInv'
<1>1. outcome = "running" /\ agenda # <<>> /\ Task.do = "visit" /\ Task.expr.is = "pattern"
  BY DEF CallPattern, Visiting, Doing
<1> DEFINE e  == Task.expr
           n  == OpName(ctx.ops)
           Input(x) == [do |-> "input", node |-> n, name |-> x.name]
           inputs == CASE e.over.is = "zip" -> [i \in DOMAIN e.over.args |-> Input(e.over.args[i])]
                       [] IsVariable(e.over) -> <<Input(e.over)>>
                       [] OTHER -> <<Visit(e.over), [do |-> "feed", node |-> n]>>
           visits == Visits(e.inits)
           k      == Len(e.inits)
           inits  == [do |-> "inits", node |-> n, count |-> k]
           lambda == [do |-> "lambda", node |-> n, formals |-> e.formals, body |-> e.body]
           endl   == [do |-> "endLambda", node |-> n]
           endp   == [do |-> "endPattern"]
           root == Root(ctx)
           v  == Len(values)
           p  == Append(ctx.pending, n)
           b  == ctx.blocks
           s  == Shape(v, p, b)
           end == Shape(v + 1, ctx.pending, b)
<1>2. PICK ok, op :
        Try(ok, Push(AddNode(NewOp(ctx, op, <<>>), Block(ctx), n), n),
            visits \o <<inits>> \o inputs \o <<lambda, endl, endp>>, values)
  BY DEF CallPattern
<1> DEFINE c == NewOp(ctx, op, <<>>)
           d == AddNode(c, Block(ctx), n)
           more == visits \o <<inits>> \o inputs \o <<lambda, endl, endp>>
<1>3. Try(ok, Push(d, n), more, values)
  BY <1>2
<1>4. /\ e.inits \in Seq(Expressions) /\ b # <<>> /\ k \in Nat
      /\ e.over \in Expressions /\ e.body \in Expressions
  BY <1>1, VisitNow, SyntaxAssumption
<1>5. v \in Nat /\ IsSeq(b)
  BY <1>1, ParsingNow DEF Stacks
<1>6. Grows(ctx, c)
  BY <1>1, ContextNow, GrowsNode
<1> HIDE DEF c
<1>7. Grows(ctx, d)
  BY <1>6, GrowsContext, GrowsNode, GrowsOn
<1> HIDE DEF d
<1>8. p # <<>> /\ Front(p) = ctx.pending /\ Last(p) = n
  BY <1>1, PendingNow
<1>9. Append(b, n) # <<>> /\ Front(Append(b, n)) = b /\ Last(Append(b, n)) = n
  BY <1>5, AppendIsSeq
<1>10. IsSeq(visits) /\ Runs(root, visits, s, Shape(v + k, p, b))
  BY <1>4, <1>5, RunsVisits
<1>11. IsSeq(<<inits>>) /\ Runs(root, <<inits>>, Shape(v + k, p, b), s)
  <2>1. (v + k) - k = v /\ v + k >= k
    BY <1>4, <1>5
  <2>2. Step(root, inits, Shape(v + k, p, b), s)
    BY <1>4, <2>1 DEF Step, Shape
  <2> QED
    BY <2>2, OneIsSeq, RunsOne
<1>12. IsSeq(inputs) /\ Runs(root, inputs, s, s)
  <2>1. \A x : Step(root, Input(x), s, s)
    BY <1>4 DEF Step, Shape
  <2>2. CASE e.over.is = "zip"
    <3> DEFINE m == Len(e.over.args)
               f == [i \in 1..m |-> Input(e.over.args[i])]
    <3>1. m \in Nat /\ DOMAIN e.over.args = 1..m
      BY <1>4, <2>2, SyntaxAssumption
    <3>2. inputs = f
      <4> HIDE DEF Input
      <4>1. inputs = [i \in DOMAIN e.over.args |-> Input(e.over.args[i])]
        BY <2>2 DEF IsVariable
      <4> HIDE DEF inputs
      <4> QED
        BY <3>1, <4>1
    <3>3. \A i \in 1..m : Step(root, f[i], s, s)
      BY <2>1
    <3>4. f = [i \in 1..m |-> f[i]]
      OBVIOUS
    <3> HIDE DEF f, m, inputs
    <3>5. IsSeq(f) /\ Len(f) = m
      BY <3>1, <3>4, MapIsSeq
    <3>6. Runs(root, f, s, s)
      BY <3>1, <3>3, <3>5, RunsSame
    <3> QED
      BY <3>2, <3>5, <3>6
  <2>3. CASE e.over.is # "zip" /\ IsVariable(e.over)
    <3>1. inputs = <<Input(e.over)>>
      BY <2>3
    <3> HIDE DEF inputs, Input
    <3> QED
      BY <2>1, <3>1, OneIsSeq, RunsOne
  <2>4. CASE e.over.is # "zip" /\ ~IsVariable(e.over)
    <3> DEFINE feed == [do |-> "feed", node |-> n]
    <3>1. inputs = <<Visit(e.over), feed>>
      BY <2>4
    <3>2. Step(root, Visit(e.over), s, Shape(v + 1, p, b))
      BY <1>4 DEF Step, Shape, Visit
    <3>3. v + 1 > 0 /\ (v + 1) - 1 = v
      BY <1>5
    <3>4. Step(root, feed, Shape(v + 1, p, b), s)
      BY <1>4, <3>3 DEF Step, Shape
    <3> HIDE DEF inputs, feed
    <3> QED
      BY <3>1, <3>2, <3>4, RunsTwo
  <2> QED
    BY <2>2, <2>3, <2>4
<1>13. IsSeq(<<lambda, endl, endp>>) /\ Runs(root, <<lambda, endl, endp>>, s, end)
  <2>1. Step(root, lambda, s, Shape(v + 1, p, Append(b, n)))
    BY <1>4 DEF Step, Shape
  <2>2. v + 1 > 0 /\ (v + 1) - 1 = v
    BY <1>5
  <2>3. Step(root, endl, Shape(v + 1, p, Append(b, n)), Shape(v, p, Append(b, n)))
    BY <1>9, <2>2 DEF Step, Shape
  <2>4. Step(root, endp, Shape(v, p, Append(b, n)), end)
    BY <1>8, <1>9 DEF Step, Shape
  <2> HIDE DEF lambda, endl, endp
  <2> QED
    BY <2>1, <2>3, <2>4, RunsThree
<1> HIDE DEF visits, inits, inputs, lambda, endl, endp, s, end
<1>14. IsSeq(visits \o <<inits>>) /\ Runs(root, visits \o <<inits>>, s, s)
  BY <1>10, <1>11, ConcatIsSeq, RunsConcat
<1>15. IsSeq(visits \o <<inits>> \o inputs) /\ Runs(root, visits \o <<inits>> \o inputs, s, s)
  BY <1>12, <1>14, ConcatIsSeq, RunsConcat
<1>16. IsSeq(more) /\ Runs(root, more, s, end)
  BY <1>13, <1>15, ConcatIsSeq, RunsConcat
<1> HIDE DEF more
<1> QED
  BY <1>1, <1>3, <1>7, <1>16, TryPushes DEF s, end

\* A visitor that keeps the stacks of blocks and nodes.
LEMMA TryGrows ==
  ASSUME ScopesInv, outcome = "running", agenda # <<>>,
         NEW ok, NEW c, NEW more, NEW vs, Try(ok, c, more, vs),
         ok => (Keeps(ctx, c) \/ (Grows(ctx, c) /\ ctx.blocks # <<>>)),
         ok => IsSeq(more) /\ IsSeq(vs),
         ok => \A m : Step(Root(ctx), Task, Now(values, ctx), m)
                 => Runs(Root(ctx), more, Shape(Len(vs), ctx.pending, ctx.blocks), m)
  PROVE  ScopesInv'
<1>1. Parsing(source, decls, agenda, values, ctx) /\ Stacks(ctx) /\ Scoped(Root(ctx), ctx)
  BY ParsingNow
<1>2. ok => /\ Stacks(c) /\ Scoped(Root(ctx), c)
            /\ c.blocks = ctx.blocks /\ c.pending = ctx.pending /\ c.frames = ctx.frames
  BY <1>1, GrowsScoped
<1>3. ok => Now(vs, c) = Shape(Len(vs), ctx.pending, ctx.blocks)
  BY <1>2 DEF Now
<1> QED
  BY <1>1, <1>2, <1>3, TryAdvances

LEMMA OperandExprKeeps == ASSUME ScopesInv, OperandExpr PROVE ScopesInv'
<1>1. outcome = "running" /\ agenda # <<>> /\ Task.do = "operand"
  BY DEF OperandExpr, Doing
<1> DEFINE root == Root(ctx)
           v  == Len(values)
           s  == Shape(v, ctx.pending, ctx.blocks)
           visit == Visit(Task.expr)
           link  == [do |-> "link", port |-> Fresh(ctx)]
           c == UseAt(ctx, Anonymous, Current(ctx))
<1>2. Try(TRUE, c, <<visit, link>>, values)
  BY DEF OperandExpr
<1>3. \A m : Step(root, Task, Now(values, ctx), m)
               => m = s /\ ctx.blocks # <<>> /\ Task.expr \in Expressions
  BY <1>1 DEF Step, Now, Shape
<1>4. ctx.blocks # <<>> /\ Task.expr \in Expressions /\ v \in Nat /\ IsSeq(values)
  BY <1>1, <1>3, ParsingNow
<1>5. Grows(ctx, c)
  BY <1>1, ContextNow, GrowsUse
<1>6. Step(root, visit, s, Shape(v + 1, ctx.pending, ctx.blocks))
  BY <1>4 DEF Step, Shape, Visit
<1>7. v + 1 > 0 /\ (v + 1) - 1 = v
  BY <1>4
<1>8. Step(root, link, Shape(v + 1, ctx.pending, ctx.blocks), s)
  BY <1>4, <1>7 DEF Step, Shape
<1> HIDE DEF visit, link, c
<1>9. IsSeq(<<visit, link>>) /\ Runs(root, <<visit, link>>, s, s)
  BY <1>6, <1>8, RunsTwo
<1>10. \A m : Step(root, Task, Now(values, ctx), m) => Runs(root, <<visit, link>>, s, m)
  BY <1>3, <1>9
<1> QED
  BY <1>1, <1>2, <1>4, <1>5, <1>9, <1>10, TryGrows

LEMMA InlineUdfKeeps == ASSUME ScopesInv, InlineUdf PROVE ScopesInv'
<1>1. outcome = "running" /\ agenda # <<>> /\ Task.do = "visit"
  BY DEF InlineUdf, Visiting, Doing
<1>2. PICK ok, f, units, formals, ends, v :
        Try(ok, MoveBody(ctx, f),
            <<[do |-> "arguments", units |-> units, formals |-> formals, ends |-> ends, at |-> 0]>>,
            Give(v))
  BY DEF InlineUdf
<1> DEFINE t == [do |-> "arguments", units |-> units, formals |-> formals, ends |-> ends, at |-> 0]
           s == Shape(Len(Give(v)), ctx.pending, ctx.blocks)
<1>3. Grows(ctx, MoveBody(ctx, f)) /\ ctx.blocks # <<>>
  BY <1>1, ContextNow, GrowsEdges, VisitNow
<1>4. IsSeq(Give(v)) /\ Len(Give(v)) = Len(values) + 1
  BY <1>1, AppendIsSeq, ParsingNow DEF Give
<1>5. Step(Root(ctx), t, s, s)
  BY <1>3 DEF Step, Shape
<1>6. Try(ok, MoveBody(ctx, f), <<t>>, Give(v))
  BY <1>2
<1> HIDE DEF t
<1>7. IsSeq(<<t>>) /\ Runs(Root(ctx), <<t>>, s, s)
  BY <1>5, OneIsSeq, RunsOne
<1>8. \A m : Step(Root(ctx), Task, Now(values, ctx), m) => Runs(Root(ctx), <<t>>, s, m)
  BY <1>1, <1>4, <1>7, VisitNow
<1> QED
  BY <1>1, <1>3, <1>4, <1>6, <1>7, <1>8, TryGrows

LEMMA ArgumentKeeps ==
  ASSUME ScopesInv, ArgumentToNode \/ ArgumentToPattern PROVE ScopesInv'
<1>1. outcome = "running" /\ agenda # <<>> /\ Task.do = "arguments"
  BY DEF ArgumentToNode, ArgumentToPattern, Argument, Doing
<1> DEFINE s == Shape(Len(values), ctx.pending, ctx.blocks)
           t(ends, at) == [Task EXCEPT !.units = Tail(@), !.formals = Tail(@), !.ends = ends, !.at = at]
<1>2. \A m : Step(Root(ctx), Task, Now(values, ctx), m)
               => m = s /\ "do" \in DOMAIN Task /\ ctx.blocks # <<>>
  BY <1>1 DEF Step, Now, Shape
<1>3. "do" \in DOMAIN Task /\ ctx.blocks # <<>> /\ IsSeq(values)
  BY <1>1, <1>2, ParsingNow
<1>4. \E ok, c, ends, at : Try(ok, c, <<t(ends, at)>>, values) /\ Grows(ctx, c)
  <2>1. CASE ArgumentToNode
    <3>1. PICK ok, es, ends, at : Try(ok, Link(ctx, es), <<t(ends, at)>>, values)
      BY <2>1 DEF ArgumentToNode, TryArgument
    <3>2. Grows(ctx, Link(ctx, es))
      BY <1>1, ContextNow, GrowsEdges
    <3> QED
      BY <3>1, <3>2
  <2>2. CASE ArgumentToPattern
    <3>1. PICK ok, f, p, tail, ends, at :
            Try(ok, NewTail(ctx, f, p, tail), <<t(ends, at)>>, values)
      BY <2>2 DEF ArgumentToPattern, TryArgument
    <3>2. Grows(ctx, NewTail(ctx, f, p, tail))
      BY <1>1, ContextNow, GrowsEdges
    <3> QED
      BY <3>1, <3>2
  <2> QED
    BY <2>1, <2>2
<1>5. PICK ok, c, ends, at : Try(ok, c, <<t(ends, at)>>, values) /\ Grows(ctx, c)
  BY <1>4
<1> DEFINE u == t(ends, at)
<1>6. u.do = "arguments" /\ "do" \in DOMAIN u
  BY <1>1, <1>3
<1>7. Try(ok, c, <<u>>, values)
  BY <1>5
<1> HIDE DEF u, t
<1>8. Step(Root(ctx), u, s, s)
  BY <1>3, <1>6 DEF Step, Shape
<1>9. IsSeq(<<u>>) /\ Runs(Root(ctx), <<u>>, s, s)
  BY <1>8, OneIsSeq, RunsOne
<1>10. \A m : Step(Root(ctx), Task, Now(values, ctx), m) => Runs(Root(ctx), <<u>>, s, m)
  BY <1>2, <1>9
<1> QED
  BY <1>1, <1>3, <1>5, <1>7, <1>9, <1>10, TryGrows

LEMMA AssignKeeps == ASSUME ScopesInv, Assign PROVE ScopesInv'
<1>1. outcome = "running" /\ agenda # <<>> /\ Task.do = "assign"
  BY DEF Assign, Doing
<1> DEFINE root  == Root(ctx)
           s     == Shape(Len(values), ctx.pending, ctx.blocks)
           visit == Visit(Task.rhs)
           bind  == [do |-> "bind", lhs |-> Task.lhs]
           e     == Shape(Len(values) + 1, ctx.pending, ctx.blocks)
<1>2. PICK ok : Try(ok, ctx, <<visit, bind>>, values)
  BY DEF Assign
<1>3. \A m : Step(root, Task, Now(values, ctx), m)
               => m = s /\ Task.rhs \in Expressions /\ ctx.blocks # <<>>
  BY <1>1, StatementNow DEF Now
<1>4. Task.rhs \in Expressions /\ ctx.blocks # <<>> /\ IsSeq(values) /\ Len(values) \in Nat
  BY <1>1, <1>3, ParsingNow
<1>5. Grows(ctx, ctx)
  BY <1>1, ContextNow, GrowsBack
<1>6. Step(root, visit, s, e)
  BY <1>4 DEF Step, Shape, Visit
<1>7. Len(values) + 1 > 0 /\ (Len(values) + 1) - 1 = Len(values)
  BY <1>4
<1>8. Step(root, bind, e, s)
  BY <1>4, <1>7 DEF Step, Shape
<1> HIDE DEF visit, bind, e
<1>9. IsSeq(<<visit, bind>>) /\ Runs(root, <<visit, bind>>, s, s)
  BY <1>6, <1>8, RunsTwo
<1>10. \A m : Step(root, Task, Now(values, ctx), m) => Runs(root, <<visit, bind>>, s, m)
  BY <1>3, <1>9
<1> QED
  BY <1>1, <1>2, <1>4, <1>5, <1>9, <1>10, TryGrows

LEMMA InitsKeeps == ASSUME ScopesInv, Inits PROVE ScopesInv'
<1>1. outcome = "running" /\ agenda # <<>> /\ Task.do = "inits"
  BY DEF Inits, Doing
<1> DEFINE root == Root(ctx)
           k    == Task.count
           InitTask(i) == [do |-> "init", node |-> Task.node, value |-> values[Len(values) - k + i]]
           more == [i \in 1..k |-> InitTask(i)]
           s    == Shape(Len(Dropped(k)), ctx.pending, ctx.blocks)
<1>2. PICK ok : Try(ok, ctx, more, Dropped(k))
  BY DEF Inits
<1>3. \A m : Step(root, Task, Now(values, ctx), m)
               => /\ m = Shape(Len(values) - k, ctx.pending, ctx.blocks)
                  /\ ctx.blocks # <<>> /\ k \in Nat /\ Len(values) >= k
  BY <1>1 DEF Step, Now, Shape
<1>4. ctx.blocks # <<>> /\ k \in Nat /\ Len(values) >= k /\ IsSeq(values) /\ Len(values) \in Nat
  BY <1>1, <1>3, ParsingNow
<1>5. k \in 0..Len(values)
  BY <1>4
<1>6. IsSeq(Dropped(k)) /\ Len(Dropped(k)) = Len(values) - k
  BY <1>4, <1>5, DroppedIsSeq
<1>7. Grows(ctx, ctx)
  BY <1>1, ContextNow, GrowsBack
<1>8. \A i \in 1..k : Step(root, more[i], s, s)
  <2>1. \A i : Step(root, InitTask(i), s, s)
    BY <1>4 DEF Step, Shape
  <2> HIDE DEF InitTask
  <2> QED
    BY <2>1
<1>9. more = [i \in 1..k |-> more[i]]
  OBVIOUS
<1> HIDE DEF more
<1>10. IsSeq(more) /\ Len(more) = k
  BY <1>4, <1>9, MapIsSeq
<1>11. Runs(root, more, s, s)
  BY <1>4, <1>8, <1>10, RunsSame
<1>12. \A m : Step(root, Task, Now(values, ctx), m) => Runs(root, more, s, m)
  BY <1>3, <1>6, <1>11
<1> QED
  BY <1>1, <1>2, <1>4, <1>6, <1>7, <1>10, <1>12, TryGrows

\* A visitor that ends a half-parsed node.
LEMMA TryPops ==
  ASSUME ScopesInv, outcome = "running", agenda # <<>>, ctx.pending # <<>>, ctx.blocks # <<>>,
         NEW ok, NEW d, d = Pop(ctx), NEW c, NEW vs,
         Try(ok, c, <<>>, vs), Grows(d, c), IsSeq(vs),
         \A m : Step(Root(ctx), Task, Now(values, ctx), m)
                  => m = Shape(Len(vs), Front(ctx.pending), ctx.blocks)
  PROVE  ScopesInv'
<1> DEFINE root == Root(ctx)
<1>1. Parsing(source, decls, agenda, values, ctx) /\ Stacks(ctx) /\ Scoped(root, ctx)
  BY ParsingNow
<1>2. /\ Stacks(d) /\ d.frames = ctx.frames /\ d.symbols = ctx.symbols
      /\ d.blocks = ctx.blocks /\ d.pending = Front(ctx.pending)
  BY <1>1, Popped
<1>3. Scoped(root, d)
  BY <1>1, <1>2, ScopedAlso
<1>4. d.blocks # <<>>
  BY <1>2
<1>5. /\ Stacks(c) /\ Scoped(root, c)
      /\ c.blocks = d.blocks /\ c.pending = d.pending /\ c.frames = d.frames
  BY <1>2, <1>3, <1>4, GrowsScoped
<1>6. Now(vs, c) = Shape(Len(vs), Front(ctx.pending), ctx.blocks) /\ c.frames = ctx.frames
  BY <1>2, <1>5 DEF Now
<1>7. \A m : Step(root, Task, Now(values, ctx), m) => Runs(root, <<>>, Now(vs, c), m)
  BY <1>6, RunsNone
<1> QED
  BY <1>1, <1>5, <1>6, <1>7, NoneIsSeq, TryAdvances

LEMMA PoppedContext ==
  ASSUME ScopesInv, outcome = "running", agenda # <<>>, ctx.pending # <<>>
  PROVE  IsContext(Pop(ctx))
<1> DEFINE d == Pop(ctx)
<1>1. d = Pop(ctx) /\ Stacks(ctx)
  BY ParsingNow
<1> HIDE DEF d
<1>2. Stacks(d)
  BY <1>1, Popped
<1> QED
  BY <1>1, <1>2 DEF Stacks

LEMMA EndBinOpKeeps == ASSUME ScopesInv, EndBinOp PROVE ScopesInv'
<1>1. outcome = "running" /\ agenda # <<>> /\ Task.do = "endBinOp"
  BY DEF EndBinOp, Doing
<1> DEFINE n  == Current(ctx)
           d  == Pop(ctx)
           c  == GenAt(d, Anonymous, n)
           vs == Give(NodeValue(n))
<1>2. Try(TRUE, c, <<>>, vs)
  BY DEF EndBinOp
<1>3. \A m : Step(Root(ctx), Task, Now(values, ctx), m)
               => /\ m = Shape(Len(values) + 1, Front(ctx.pending), ctx.blocks)
                  /\ ctx.pending # <<>> /\ ctx.blocks # <<>>
  BY <1>1 DEF Step, Now, Shape
<1>4. ctx.pending # <<>> /\ ctx.blocks # <<>> /\ IsSeq(values)
  BY <1>1, <1>3, ParsingNow
<1>5. IsSeq(vs) /\ Len(vs) = Len(values) + 1
  BY <1>4, AppendIsSeq DEF Give
<1>6. IsContext(d)
  BY <1>1, <1>4, PoppedContext
<1>7. d = Pop(ctx)
  OBVIOUS
<1> HIDE DEF d
<1>8. Grows(d, c)
  BY <1>6, GrowsUse
<1> HIDE DEF c, vs
<1> QED
  BY <1>1, <1>2, <1>3, <1>4, <1>5, <1>7, <1>8, TryPops

LEMMA EndPrimitiveKeeps == ASSUME ScopesInv, EndPrimitive PROVE ScopesInv'
<1>1. outcome = "running" /\ agenda # <<>> /\ Task.do = "endPrimitive"
  BY DEF EndPrimitive, Doing
<1> DEFINE n  == Current(ctx)
           k  == Task.count
           d  == Pop(ctx)
           e  == GenAt(d, Anonymous, n)
           vs == Append(Dropped(k), NodeValue(n))
<1>2. PICK ok, es : Try(ok, Link(e, es), <<>>, vs)
  BY DEF EndPrimitive
<1>3. \A m : Step(Root(ctx), Task, Now(values, ctx), m)
               => /\ m = Shape((Len(values) - k) + 1, Front(ctx.pending), ctx.blocks)
                  /\ ctx.pending # <<>> /\ ctx.blocks # <<>> /\ k \in Nat /\ Len(values) >= k
  BY <1>1 DEF Step, Now, Shape
<1>4. /\ ctx.pending # <<>> /\ ctx.blocks # <<>> /\ IsSeq(values) /\ Len(values) \in Nat
      /\ k \in Nat /\ Len(values) >= k
  BY <1>1, <1>3, ParsingNow
<1>5. k \in 0..Len(values)
  BY <1>4
<1>6. IsSeq(Dropped(k)) /\ Len(Dropped(k)) = Len(values) - k
  BY <1>4, <1>5, DroppedIsSeq
<1>7. IsSeq(vs) /\ Len(vs) = (Len(values) - k) + 1
  BY <1>6, AppendIsSeq
<1>8. IsContext(d)
  BY <1>1, <1>4, PoppedContext
<1>9. d = Pop(ctx)
  OBVIOUS
<1> HIDE DEF d
<1>10. Grows(d, e) /\ IsContext(e)
  BY <1>8, GrowsUse, GrowsContext
<1> HIDE DEF e, vs
<1>11. Grows(d, Link(e, es))
  BY <1>10, GrowsEdges, GrowsOn
<1> QED
  BY <1>1, <1>2, <1>3, <1>4, <1>7, <1>9, <1>11, TryPops

LEMMA VisitLambdaKeeps == ASSUME ScopesInv, VisitLambda PROVE ScopesInv'
<1>1. outcome = "running" /\ agenda # <<>> /\ Task.do = "lambda"
  BY DEF VisitLambda, Doing
<1> DEFINE root == Root(ctx)
           n == Task.node
           b == Append(ctx.blocks, n)
           d == [ctx EXCEPT !.blocks = Append(@, n)]
           visit == Visit(Task.body)
           s == Shape(Len(values), ctx.pending, b)
           e == Shape(Len(values) + 1, ctx.pending, b)
<1>2. PICK ok, rs : Try(ok, Insert(d, rs), <<visit>>, values)
  BY DEF VisitLambda
<1> DEFINE c == Insert(d, rs)
<1>3. \A m : Step(root, Task, Now(values, ctx), m) => m = e /\ Task.body \in Expressions
  BY <1>1 DEF Step, Now, Shape
<1>4. /\ Task.body \in Expressions /\ IsSeq(values)
      /\ Parsing(source, decls, agenda, values, ctx) /\ Stacks(ctx) /\ Scoped(root, ctx)
  BY <1>1, <1>3, ParsingNow
<1>5. IsSeq(b) /\ b # <<>> /\ ToSet(b) = ToSet(ctx.blocks) \union {n}
  BY <1>4, AppendIsSeq DEF Stacks
<1>6. d = [ctx EXCEPT !.blocks = b]
  BY <1>4 DEF Stacks, IsContext
<1> HIDE DEF b, d
<1>7. /\ IsContext(d) /\ d.blocks = b /\ d.pending = ctx.pending
      /\ d.frames = ctx.frames /\ d.symbols = ctx.symbols
  BY <1>4, <1>6 DEF Stacks, IsContext
<1>8. Stacks(d) /\ Scoped(root, d)
  BY <1>4, <1>5, <1>7 DEF Stacks, Scoped
<1>9. Grows(d, c)
  BY <1>7, GrowsInsert
<1> HIDE DEF c
<1>10. /\ Stacks(c) /\ Scoped(root, c)
       /\ c.blocks = d.blocks /\ c.pending = d.pending /\ c.frames = d.frames
  BY <1>5, <1>7, <1>8, <1>9, GrowsScoped
<1>11. Now(values, c) = s /\ c.frames = ctx.frames
  BY <1>7, <1>10 DEF Now
<1>12. Step(root, visit, s, e)
  BY <1>4, <1>5 DEF Step, Shape, Visit
<1>13. Try(ok, c, <<visit>>, values)
  BY <1>2 DEF c
<1> HIDE DEF visit, s, e
<1>14. IsSeq(<<visit>>) /\ Runs(root, <<visit>>, s, e)
  BY <1>12, OneIsSeq, RunsOne
<1> QED
  BY <1>1, <1>3, <1>4, <1>10, <1>11, <1>13, <1>14, TryAdvances

LEMMA EndPatternKeeps == ASSUME ScopesInv, EndPattern PROVE ScopesInv'
<1>1. outcome = "running" /\ agenda # <<>> /\ Task.do = "endPattern"
  BY DEF EndPattern, Doing
<1> DEFINE root == Root(ctx)
           n  == Current(ctx)
           b  == Front(ctx.blocks)
           d  == Pop(ctx)
           e  == [d EXCEPT !.blocks = Front(@)]
           c  == CleanSymbols(e, n)
           vs == Give(NodeValue(n))
<1>2. Try(TRUE, c, <<>>, vs)
  BY DEF EndPattern
<1>3. \A m : Step(root, Task, Now(values, ctx), m)
               => /\ m = Shape(Len(values) + 1, Front(ctx.pending), b)
                  /\ ctx.pending # <<>> /\ ctx.blocks # <<>> /\ Last(ctx.blocks) = n
  BY <1>1 DEF Step, Now, Shape, Current
<1>4. /\ ctx.pending # <<>> /\ ctx.blocks # <<>> /\ Last(ctx.blocks) = n /\ IsSeq(values)
      /\ Parsing(source, decls, agenda, values, ctx) /\ Stacks(ctx) /\ Scoped(root, ctx)
  BY <1>1, <1>3, ParsingNow
<1>5. IsSeq(vs) /\ Len(vs) = Len(values) + 1
  BY <1>4, AppendIsSeq DEF Give
<1>6. d = Pop(ctx)
  OBVIOUS
<1>7. IsSeq(b) /\ ToSet(ctx.blocks) = ToSet(b) \union {n}
  BY <1>4, FrontIsSeq DEF Stacks
<1> HIDE DEF d, n, b
<1>8. /\ Stacks(d) /\ d.frames = ctx.frames /\ d.symbols = ctx.symbols
      /\ d.blocks = ctx.blocks /\ d.pending = Front(ctx.pending)
  BY <1>4, <1>6, Popped
<1>9. e = [d EXCEPT !.blocks = b]
  BY <1>8 DEF Stacks, IsContext, b
<1> HIDE DEF e
<1>10. /\ IsContext(e) /\ e.blocks = b /\ e.pending = d.pending
       /\ e.frames = d.frames /\ e.symbols = d.symbols
  BY <1>8, <1>9 DEF Stacks, IsContext
<1> DEFINE left == {r \in e.symbols : r.block # n \/ r.kind = "gen"}
<1>11. c = [e EXCEPT !.symbols = left]
  BY <1>10 DEF CleanSymbols, IsContext
<1> HIDE DEF c
<1>12. /\ IsContext(c) /\ c.blocks = b /\ c.pending = Front(ctx.pending)
       /\ c.frames = ctx.frames /\ c.symbols = left
  BY <1>8, <1>10, <1>11 DEF IsContext
<1>13. Stacks(c)
  BY <1>7, <1>8, <1>12 DEF Stacks
<1>14. Scoped(root, c)
  BY <1>4, <1>7, <1>8, <1>10, <1>12 DEF Scoped
<1>15. Now(vs, c) = Shape(Len(values) + 1, Front(ctx.pending), b)
  BY <1>5, <1>12 DEF Now
<1>16. \A m : Step(root, Task, Now(values, ctx), m) => Runs(root, <<>>, Now(vs, c), m)
  BY <1>3, <1>15, RunsNone
<1> HIDE DEF root, vs
<1> QED
  BY <1>1, <1>2, <1>4, <1>5, <1>12, <1>13, <1>14, <1>16, NoneIsSeq, TryAdvances DEF root

LEMMA ReturnKeeps == ASSUME ScopesInv, Return PROVE ScopesInv'
<1>1. outcome = "running" /\ agenda # <<>> /\ Task.do = "return"
  BY DEF Return, Doing
<1> DEFINE root == Root(ctx)
<1>2. PICK ok, x : Try(ok, [ctx EXCEPT !.ir = x, !.blocks = <<>>], <<>>, values)
  BY DEF Return
<1> DEFINE c == [ctx EXCEPT !.ir = x, !.blocks = <<>>]
<1>3. \A m : Step(root, Task, Now(values, ctx), m)
               => /\ m = Shape(0, <<>>, <<>>)
                  /\ Len(values) = 0 /\ ctx.pending = <<>> /\ ctx.blocks = <<root>>
  BY <1>1, StatementNow DEF Now
<1>4. /\ Len(values) = 0 /\ ctx.pending = <<>> /\ ctx.blocks = <<root>> /\ IsSeq(values)
      /\ Parsing(source, decls, agenda, values, ctx) /\ Stacks(ctx) /\ Scoped(root, ctx)
  BY <1>1, <1>3, ParsingNow
<1>5. ToSet(ctx.blocks) = {root}
  BY <1>4, OneIsSeq
<1>6. /\ IsContext(c) /\ c.blocks = <<>> /\ c.pending = <<>>
      /\ c.frames = ctx.frames /\ c.symbols = ctx.symbols
  BY <1>4 DEF Stacks, IsContext
<1> HIDE DEF c
<1>7. Stacks(c)
  BY <1>4, <1>6, NoneIsSeq DEF Stacks
<1>8. Scoped(root, c)
  BY <1>4, <1>5, <1>6 DEF Scoped
<1>9. Now(values, c) = Shape(0, <<>>, <<>>)
  BY <1>4, <1>6 DEF Now
<1>10. \A m : Step(root, Task, Now(values, ctx), m) => Runs(root, <<>>, Now(values, c), m)
  BY <1>3, <1>9, RunsNone
<1>11. Try(ok, c, <<>>, values)
  BY <1>2 DEF c
<1> HIDE DEF root
<1> QED
  BY <1>1, <1>4, <1>6, <1>7, <1>8, <1>10, <1>11, NoneIsSeq, TryAdvances DEF root

LEMMA PropagateBlockKeeps == ASSUME ScopesInv, PropagateBlock PROVE ScopesInv'
<1>1. outcome = "running" /\ agenda # <<>> /\ Task.do = "propagate"
  BY DEF PropagateBlock, Doing
<1> DEFINE n == Task.node
           root  == Root(ctx)
           s     == Shape(Len(values), ctx.pending, ctx.blocks)
           in    == Flows("in_edges", n, ctx.ir[n].in_edges)
           inner == Flows("edges", n, ctx.ir[n].edges)
           leave == [do |-> "leave", node |-> n]
<1>2. PICK ok : Try(ok, ctx, <<in, inner, leave>>, values)
  BY DEF PropagateBlock
<1>3. \A m : Step(root, Task, Now(values, ctx), m) => m = s
  BY <1>1 DEF Step, Now, Shape
<1>4. IsSeq(values) /\ IsContext(ctx)
  BY <1>1, ParsingNow
<1>5. Keeps(ctx, ctx)
  BY <1>4 DEF Keeps
<1>6. Step(root, in, s, s) /\ Step(root, inner, s, s) /\ Step(root, leave, s, s)
  BY DEF Step, Flows
<1> HIDE DEF in, inner, leave, s
<1>7. IsSeq(<<in, inner, leave>>) /\ Runs(root, <<in, inner, leave>>, s, s)
  BY <1>6, RunsThree
<1>8. \A m : Step(root, Task, Now(values, ctx), m) => Runs(root, <<in, inner, leave>>, s, m)
  BY <1>3, <1>7
<1> QED
  BY <1>1, <1>2, <1>4, <1>5, <1>7, <1>8, TryGrows DEF s

LEMMA FlowKeeps == ASSUME ScopesInv, InFlow \/ EdgeFlow PROVE ScopesInv'
<1>1. outcome = "running" /\ agenda # <<>> /\ Task.do \in {"in_edges", "edges"}
  BY DEF InFlow, EdgeFlow, Flowing, Doing
<1> DEFINE root == Root(ctx)
           s    == Shape(Len(values), ctx.pending, ctx.blocks)
           rest == [Task EXCEPT !.edges = Tail(@)]
           more(c, tip) == IF IsInferred(c, tip[1]) THEN <<Propagate(tip[1]), rest>> ELSE <<rest>>
<1>2. \A m : Step(root, Task, Now(values, ctx), m) => m = s /\ "do" \in DOMAIN Task
  BY <1>1 DEF Step, Now, Shape
<1>3. "do" \in DOMAIN Task /\ IsSeq(values) /\ IsContext(ctx)
  BY <1>1, <1>2, ParsingNow
<1>4. \E ok, c, tip : Try(ok, c, more(c, tip), values) /\ Keeps(ctx, c)
  <2>1. Keeps(ctx, ctx)
    BY <1>3 DEF Keeps
  <2>2. CASE InFlow
    <3>1. PICK ok, c, tip, t : /\ TryArrive(ok, c, tip)
                               /\ c = ctx \/ c = Arrive(ctx, tip, t)
      BY <2>2 DEF InFlow
    <3>2. Keeps(ctx, c)
      BY <1>3, <2>1, <3>1, TypesFlow
    <3> QED
      BY <3>1, <3>2 DEF TryArrive
  <2>3. CASE EdgeFlow
    <3>1. PICK ok, d, tip, t, m : /\ TryArrive(ok, Arrive(d, tip, t), tip)
                                  /\ d = ctx \/ d = Infer(ctx, m)
      BY <2>3 DEF EdgeFlow
    <3>2. Keeps(ctx, d)
      BY <1>3, <2>1, <3>1, TypesFlow
    <3>3. Keeps(d, Arrive(d, tip, t))
      BY <3>2, TypesFlow DEF Keeps
    <3>4. Keeps(ctx, Arrive(d, tip, t))
      BY <3>2, <3>3 DEF Keeps
    <3> QED
      BY <3>1, <3>4 DEF TryArrive
  <2> QED
    BY <1>1, <2>2, <2>3
<1>5. PICK ok, c, tip : Try(ok, c, more(c, tip), values) /\ Keeps(ctx, c)
  BY <1>4
<1> DEFINE next == Propagate(tip[1])
<1>6. rest.do \in {"in_edges", "edges"} /\ "do" \in DOMAIN rest
  BY <1>1, <1>3
<1>7. more(c, tip) = <<next, rest>> \/ more(c, tip) = <<rest>>
  OBVIOUS
<1>8. Step(root, next, s, s)
  BY DEF Step, Propagate
<1> DEFINE left == more(c, tip)
<1> HIDE DEF rest, next
<1>9. Step(root, rest, s, s)
  BY <1>6 DEF Step
<1> HIDE DEF s
<1>10. /\ IsSeq(<<next, rest>>) /\ Runs(root, <<next, rest>>, s, s)
       /\ IsSeq(<<rest>>) /\ Runs(root, <<rest>>, s, s)
  BY <1>8, <1>9, RunsTwo, OneIsSeq, RunsOne
<1>11. IsSeq(left) /\ Runs(root, left, s, s) /\ Try(ok, c, left, values)
  BY <1>5, <1>7, <1>10
<1> HIDE DEF left
<1>12. \A m : Step(root, Task, Now(values, ctx), m) => Runs(root, left, s, m)
  BY <1>2, <1>11
<1> QED
  BY <1>1, <1>3, <1>5, <1>11, <1>12, TryGrows DEF s

(***************************************************************************)
(* Declarations, when nothing is left to do.                               *)
(***************************************************************************)

LEMMA NextDeclNow ==
  ASSUME ScopesInv, NEW kind, NextDecl(kind)
  PROVE  /\ Head(decls).is = kind
         /\ source \in Programs /\ Head(decls) \in ToSet(source)
         /\ IsSeq(Tail(decls)) /\ ToSet(Tail(decls)) \subseteq ToSet(source)
         /\ IsSeq(values) /\ Len(values) = 0 /\ Stacks(ctx) /\ Scoped(Root(ctx), ctx)
<1>1. /\ outcome = "running" /\ agenda = <<>> /\ decls # <<>> /\ Head(decls).is = kind
  BY DEF NextDecl
<1>2. Parsing(source, decls, agenda, values, ctx)
  BY <1>1 DEF ScopesInv
<1>3. PICK e : e.vals = 0 /\ Runs(Root(ctx), <<>>, Now(values, ctx), e)
  BY <1>1, <1>2 DEF Parsing
<1>4. Now(values, ctx) = e
  <2>1. Len(<<>>) + 1 = 1
    OBVIOUS
  <2> QED
    BY <1>3, <2>1 DEF Runs
<1>5. Len(values) = 0
  BY <1>3, <1>4 DEF Now, Shape
<1>6. Head(decls) \in ToSet(decls) /\ IsSeq(Tail(decls)) /\ ToSet(Tail(decls)) \subseteq ToSet(decls)
  BY <1>1, <1>2, TailIsSeq DEF Parsing
<1> QED
  BY <1>1, <1>2, <1>5, <1>6 DEF Parsing

LEMMA TryDeclAdvances ==
  ASSUME ScopesInv, NEW kind, NextDecl(kind), NEW ok, NEW c, NEW tasks, TryDecl(ok, c, tasks),
         Stacks(c), Scoped(Root(c), c), IsSeq(tasks),
         \E e : e.vals = 0 /\ Runs(Root(c), tasks, Shape(0, c.pending, c.blocks), e)
  PROVE  ScopesInv'
<1>1. /\ source \in Programs /\ IsSeq(Tail(decls)) /\ ToSet(Tail(decls)) \subseteq ToSet(source)
      /\ IsSeq(values) /\ Len(values) = 0
  BY NextDeclNow
<1>2. CASE ok
  <2>1. /\ source' = source /\ values' = values
        /\ ctx' = c /\ agenda' = tasks /\ decls' = Tail(decls)
    BY <1>2 DEF TryDecl
  <2>2. Now(values, c) = Shape(0, c.pending, c.blocks)
    BY <1>1 DEF Now
  <2>3. Parsing(source, Tail(decls), tasks, values, c)
    BY <1>1, <2>2 DEF Parsing
  <2>4. Parsing(source', decls', agenda', values', ctx')
    BY <2>1, <2>3
  <2> QED
    BY <2>4 DEF ScopesInv
<1>3. CASE ~ok
  BY <1>3 DEF TryDecl, ScopesInv
<1> QED
  BY <1>2, <1>3

LEMMA RunsIdle ==
  ASSUME NEW root, NEW p, NEW b
  PROVE  \E e : e.vals = 0 /\ Runs(root, <<>>, Shape(0, p, b), e)
<1>1. Shape(0, p, b).vals = 0
  BY DEF Shape
<1> QED
  BY <1>1, RunsNone

LEMMA DefineParamsKeeps == ASSUME ScopesInv, DefineParams PROVE ScopesInv'
<1>1. NextDecl("params")
  BY DEF DefineParams
<1>2. PICK ok, name, a : TryDecl(ok, Define(ctx, name, a), <<>>)
  BY DEF DefineParams
<1> DEFINE c == Define(ctx, name, a)
<1>3. Stacks(ctx) /\ Scoped(Root(ctx), ctx)
  BY <1>1, NextDeclNow
<1>4. Keeps(ctx, c)
  <2>1. Keeps(ctx, ctx) /\ \A x : Keeps(ctx, [ctx EXCEPT !.defs = x])
    BY <1>3 DEF Keeps, Stacks, IsContext
  <2> QED
    BY <2>1 DEF Define
<1> HIDE DEF c
<1>5. Stacks(c) /\ Scoped(Root(ctx), c) /\ c.frames = ctx.frames
  BY <1>3, <1>4, GrowsScoped
<1>6. Root(c) = Root(ctx)
  BY <1>5 DEF Root
<1> QED
  BY <1>1, <1>2, <1>5, <1>6, NoneIsSeq, RunsIdle, TryDeclAdvances DEF c

LEMMA ResetContextKeeps == ASSUME ScopesInv, ResetContext PROVE ScopesInv'
<1>1. NextDecl("reset") /\ TryDecl(TRUE, Reset, <<>>)
  BY DEF ResetContext
<1>2. Stacks(Reset) /\ Scoped(Root(Reset), Reset)
  BY NoneIsSeq DEF Stacks, Scoped, Reset, NewContext, IsContext
<1> QED
  BY <1>1, <1>2, NoneIsSeq, RunsIdle, TryDeclAdvances

LEMMA StartPropagationKeeps == ASSUME ScopesInv, StartPropagation PROVE ScopesInv'
<1> DEFINE t == [do |-> "propagate", node |-> <<Last(ctx.frames)>>]
           s == Shape(0, ctx.pending, ctx.blocks)
<1>1. NextDecl("propagate") /\ TryDecl(TRUE, ctx, <<t>>)
  BY DEF StartPropagation
<1>2. Stacks(ctx) /\ Scoped(Root(ctx), ctx)
  BY <1>1, NextDeclNow
<1>3. Step(Root(ctx), t, s, s) /\ s.vals = 0
  BY DEF Step, Shape
<1> HIDE DEF t, s
<1>4. IsSeq(<<t>>) /\ Runs(Root(ctx), <<t>>, s, s)
  BY <1>3, OneIsSeq, RunsOne
<1> QED
  BY <1>1, <1>2, <1>3, <1>4, TryDeclAdvances DEF s

\* The frame of a function begins with the function alone on the stacks.
LEMMA Declared ==
  ASSUME NEW c, Stacks(c), NEW d, NEW e, e = Declare(c, d)
  PROVE  /\ Stacks(e) /\ Root(e) = <<d.name>>
         /\ e.blocks = << <<d.name>> >> /\ e.pending = <<>> /\ Scoped(Root(e), e)
<1> DEFINE f == d.name
           b == << <<f>> >>
           frames == Append(c.frames, f)
           c1 == PushFrame(c, f)
<1>1. IsSeq(frames) /\ Last(frames) = f
  BY AppendIsSeq DEF Stacks
<1>2. PICK args, returns : e = AddReturns(AddArguments(c1, <<f>>, args), <<f>>, returns)
  BY DEF Declare
<1> DEFINE c2 == AddArguments(c1, <<f>>, args)
<1>3. /\ IsContext(c1) /\ c1.frames = frames /\ c1.symbols = {}
      /\ c1.blocks = b /\ c1.pending = <<>>
  <2>1. PICK x : c1 = [[c EXCEPT !.ir = x] EXCEPT !.frames = Append(@, f), !.symbols = {},
                                                  !.blocks = b, !.pending = <<>>]
    BY DEF PushFrame, Create
  <2> HIDE DEF b, c1
  <2> QED
    BY <2>1 DEF Stacks, IsContext
<1>4. Grows(c1, c2) /\ IsContext(c2)
  BY <1>3, GrowsDeclared, GrowsContext
<1> HIDE DEF c2, c1
<1>5. Grows(c2, e)
  BY <1>2, <1>4, GrowsDeclared DEF c2
<1>6. Grows(c1, e)
  BY <1>4, <1>5, GrowsOn
<1>7. IsSeq(b) /\ ToSet(b) = {<<f>>} /\ b # <<>>
  BY OneIsSeq
<1>8. Stacks(c1) /\ Scoped(<<f>>, c1)
  BY <1>1, <1>3, <1>7, NoneIsSeq DEF Stacks, Scoped
<1> DEFINE root == <<f>>
<1> HIDE DEF b, frames, root
<1>9. c1.blocks # <<>> /\ Stacks(c1) /\ Scoped(root, c1)
  BY <1>3, <1>7, <1>8 DEF root
<1>10. /\ Stacks(e) /\ Scoped(root, e)
       /\ e.blocks = c1.blocks /\ e.pending = c1.pending /\ e.frames = c1.frames
  BY <1>6, <1>9, GrowsScoped
<1>11. Root(e) = root
  BY <1>1, <1>3, <1>10 DEF Root, root
<1>12. e.blocks = b /\ e.pending = <<>>
  BY <1>3, <1>10
<1> QED
  BY <1>10, <1>11, <1>12 DEF b, root

\* The statements of a function, and the task that ends it.
LEMMA RunsBody ==
  ASSUME NEW root, NEW f, NEW body, IsSeq(body),
         \A i \in DOMAIN body : \/ body[i].do = "assign" /\ body[i].rhs \in Expressions
                                \/ body[i].do = "return" /\ i = Len(body)
  PROVE  LET a == body \o <<[do |-> "compiled", func |-> f]>>
         IN  IsSeq(a) /\ \E e : e.vals = 0 /\ Runs(root, a, Shape(0, <<>>, <<root>>), e)
<1> DEFINE n == Len(body)
           s == Shape(0, <<>>, <<root>>)
           o == Shape(0, <<>>, <<>>)
           t == [do |-> "compiled", func |-> f]
<1>1. n \in Nat /\ DOMAIN body = 1..n
  BY DEF IsSeq
<1>2. s.vals = 0 /\ o.vals = 0
  BY DEF Shape
<1>3. ASSUME NEW m PROVE Step(root, t, m, m)
  BY DEF Step
<1>4. ASSUME NEW i \in 1..n, body[i].do = "assign" PROVE Step(root, body[i], s, s)
  BY <1>1, <1>4 DEF Step
<1>5. ASSUME NEW i \in 1..n, body[i].do = "return" PROVE Step(root, body[i], s, o)
  BY <1>5 DEF Step
<1> HIDE DEF n, s, o, t
<1>6. \E m : m.vals = 0 /\ Runs(root, body, s, m)
  <2>1. CASE n = 0 \/ (n > 0 /\ body[n].do = "assign")
    <3>1. \A i \in 1..n : body[i].do = "assign"
      BY <1>1, <2>1
    <3>2. \A i \in 1..n : Step(root, body[i], s, s)
      BY <1>4, <3>1
    <3>3. Runs(root, body, s, s)
      BY <1>1, <3>2, RunsSame DEF n
    <3> QED
      BY <1>2, <3>3
  <2>2. CASE n > 0 /\ body[n].do = "return"
    <3> DEFINE st == [i \in 1..(n + 1) |-> IF i = n + 1 THEN o ELSE s]
    <3>1. st[1] = s /\ st[n + 1] = o
      BY <1>1, <2>2
    <3>2. \A i \in 1..n : st[i] = s /\ (i < n => st[i + 1] = s)
      BY <1>1
    <3> HIDE DEF st
    <3>3. ASSUME NEW i \in 1..n PROVE Step(root, body[i], st[i], st[i + 1])
      <4>1. CASE i < n
        <5>1. body[i].do = "assign"
          BY <1>1, <4>1
        <5> QED
          BY <1>4, <3>2, <4>1, <5>1
      <4>2. CASE i = n
        BY <1>5, <2>2, <3>1, <3>2, <4>2
      <4> QED
        BY <1>1, <4>1, <4>2
    <3>4. Runs(root, body, s, o)
      BY <3>1, <3>3 DEF Runs, n
    <3> QED
      BY <1>2, <3>4
  <2>3. n > 0 => body[n].do \in {"assign", "return"}
    BY <1>1 DEF n
  <2> QED
    BY <1>1, <2>1, <2>2, <2>3
<1>7. PICK m : m.vals = 0 /\ Runs(root, body, s, m)
  BY <1>6
<1>8. IsSeq(<<t>>) /\ Runs(root, <<t>>, m, m)
  BY <1>3, OneIsSeq, RunsOne
<1>9. IsSeq(body \o <<t>>) /\ Runs(root, body \o <<t>>, s, m)
  BY <1>7, <1>8, ConcatIsSeq, RunsConcat
<1> QED
  BY <1>7, <1>9 DEF s, t

LEMMA DefineFunctionKeeps == ASSUME ScopesInv, DefineFunction PROVE ScopesInv'
<1> DEFINE d == Head(decls)
           a == d.body \o <<[do |-> "compiled", func |-> d.name]>>
           c == Declare(ctx, d)
<1>1. NextDecl("function")
  BY DEF DefineFunction
<1>2. /\ d.is = "function" /\ source \in Programs /\ d \in ToSet(source)
      /\ Stacks(ctx) /\ Scoped(Root(ctx), ctx)
  BY <1>1, NextDeclNow
<1>3. CASE TryDecl(TRUE, ctx, <<>>)
  BY <1>1, <1>2, <1>3, NoneIsSeq, RunsIdle, TryDeclAdvances
<1>4. CASE \E ok : TryDecl(ok, c, a)
  <2>1. PICK ok : TryDecl(ok, c, a)
    BY <1>4
  <2>2. c = Declare(ctx, d)
    OBVIOUS
  <2>3. /\ IsSeq(d.body)
        /\ \A i \in DOMAIN d.body : \/ d.body[i].do = "assign" /\ d.body[i].rhs \in Expressions
                                    \/ d.body[i].do = "return" /\ i = Len(d.body)
    BY <1>2, SyntaxAssumption DEF IsSeq
  <2> HIDE DEF c, d
  <2>4. /\ Stacks(c) /\ Root(c) = <<d.name>> /\ Scoped(Root(c), c)
        /\ c.blocks = << <<d.name>> >> /\ c.pending = <<>>
    BY <1>2, <2>2, Declared
  <2>5. IsSeq(a) /\ \E e : e.vals = 0 /\ Runs(Root(c), a, Shape(0, <<>>, <<Root(c)>>), e)
    BY <2>3, RunsBody
  <2> HIDE DEF a
  <2> QED
    BY <1>1, <2>1, <2>4, <2>5, TryDeclAdvances
<1> QED
  BY <1>3, <1>4 DEF DefineFunction

(***************************************************************************)
(* The theorems.                                                           *)
(***************************************************************************)

LEMMA ScopesStart == Init => ScopesInv
<1> SUFFICES ASSUME Init PROVE Parsing(source, decls, agenda, values, ctx)
  BY DEF ScopesInv
<1>1. source \in Programs /\ decls = source /\ agenda = <<>> /\ values = <<>> /\ ctx = NewContext
  BY DEF Init
<1>2. IsSeq(source)
  BY <1>1, SyntaxAssumption DEF IsSeq
<1>3. Stacks(ctx) /\ Scoped(Root(ctx), ctx)
  BY <1>1, NoneIsSeq DEF Stacks, Scoped, NewContext, IsContext
<1>4. Now(values, ctx) = Shape(0, ctx.pending, ctx.blocks)
  BY <1>1 DEF Now
<1> QED
  BY <1>1, <1>2, <1>3, <1>4, NoneIsSeq, RunsIdle DEF Parsing

LEMMA ScopesKept == ScopesInv /\ [Next]_vars => ScopesInv'
<1> SUFFICES ASSUME ScopesInv, [Next]_vars PROVE ScopesInv'
  OBVIOUS
<1>1. CASE DefineParams \/ DefineFunction \/ ResetContext \/ StartPropagation
  BY <1>1, DefineParamsKeeps, DefineFunctionKeeps, ResetContextKeeps, StartPropagationKeeps
<1>2. CASE Accept
  BY <1>2 DEF Accept, ScopesInv
<1>3. CASE Unpack \/ Assign \/ Bind \/ Return
  BY <1>3, UnpackKeeps, AssignKeeps, BindKeeps, ReturnKeeps
<1>4. CASE VisitName \/ VisitBinOp \/ OperandName \/ OperandExpr \/ LinkOperand \/ EndBinOp
  BY <1>4, VisitNameKeeps, VisitBinOpKeeps, OperandNameKeeps, OperandExprKeeps,
     LinkOperandKeeps, EndBinOpKeeps
<1>5. CASE VisitSubscript \/ CallPrimitive \/ EndPrimitive
  BY <1>5, VisitSubscriptKeeps, CallPrimitiveKeeps, EndPrimitiveKeeps
<1>6. CASE CallPattern \/ Inits \/ InitFromName \/ InitFromNode \/ AddInport \/ Feed
  BY <1>6, CallPatternKeeps, InitsKeeps, InitKeeps, AddInportKeeps, FeedKeeps
<1>7. CASE VisitLambda \/ EndLambdaOfFunction \/ EndLambdaOfExpression \/ EndPattern
  BY <1>7, VisitLambdaKeeps, EndLambdaKeeps, EndPatternKeeps
<1>8. CASE InlineUdf \/ ArgumentToNode \/ ArgumentToPattern \/ EndArguments
  BY <1>8, InlineUdfKeeps, ArgumentKeeps, EndArgumentsKeeps
<1>9. CASE Compiled \/ PropagateOp \/ EndFlows \/ OutFlow \/ PropagateBlock \/ InFlow \/ EdgeFlow
  BY <1>9, FlowsKeep, PropagateBlockKeeps, FlowKeeps
<1>10. CASE UNCHANGED vars
  BY <1>10 DEF vars, ScopesInv, Parsing, Stacks, Scoped, Root, Now
<1> QED
  BY <1>1, <1>2, <1>3, <1>4, <1>5, <1>6, <1>7, <1>8, <1>9, <1>10 DEF Next

LEMMA ScopesInvCloses == ScopesInv => ScopesClosed
<1> SUFFICES ASSUME ScopesInv, AtStatement
             PROVE  /\ values = <<>> /\ ctx.pending = <<>> /\ ctx.blocks = <<Root(ctx)>>
                    /\ \A r \in ctx.symbols : r.block = Root(ctx) \/ r.kind = "gen"
  BY DEF ScopesClosed
<1>1. outcome = "running" /\ agenda # <<>> /\ Task.do \in {"assign", "return"}
  BY DEF AtStatement
<1>2. /\ IsSeq(values) /\ Scoped(Root(ctx), ctx)
      /\ \E m : Step(Root(ctx), Task, Now(values, ctx), m)
  BY <1>1, ParsingNow
<1>3. Len(values) = 0 /\ ctx.pending = <<>> /\ ctx.blocks = <<Root(ctx)>>
  BY <1>1, <1>2, StatementNow DEF Now
<1>4. values = <<>>
  BY <1>2, <1>3 DEF IsSeq
<1>5. ToSet(ctx.blocks) = {Root(ctx)}
  BY <1>3, OneIsSeq
<1> QED
  BY <1>2, <1>3, <1>4, <1>5 DEF Scoped

\* While any program is parsed, the agenda that is left uses up exactly the
\* values, half-parsed nodes and blocks that are on the stacks, and every name
\* is of the function, of a block that is being parsed, or of a result.
THEOREM StacksMatchAgenda == Spec => []ScopesInv
<1>1. Init => ScopesInv
  BY ScopesStart
<1>2. ScopesInv /\ [Next]_vars => ScopesInv'
  BY ScopesKept
<1> QED
  BY <1>1, <1>2, PTL DEF Spec

\* Between the statements of any program nothing is left of what is inside an
\* expression: no value, no half-parsed node or block, and no name but those of
\* the function and results (the stacks of ContextFrame, clean_symbols).
THEOREM ScopesAreClosed == Spec => []ScopesClosed
<1>1. ScopesInv => ScopesClosed
  BY ScopesInvCloses
<1> QED
  BY <1>1, StacksMatchAgenda, PTL
=============================================================================
