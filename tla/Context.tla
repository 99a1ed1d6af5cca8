------------------------------- MODULE Context -------------------------------
(***************************************************************************)
(* The parsing context: kaleido/parser/context.py. A context c is a record *)
(*                                                                         *)
(*   ir, storage   the nodes and the types of their ports (IrNodes)        *)
(*   names, ops    how many names of ports and of operations were given    *)
(*   defs          the user-defined types of the global scope              *)
(*   frames        the functions, in the order of their frames             *)
(*   compiled      the functions that were parsed to the end               *)
(*   addable       compiled is a set: reset_context leaves a dict behind   *)
(*   symbols, inserted, blocks, pending                                    *)
(*                 of the last frame, the only one that is written: the    *)
(*                 symbol table, how many records it was given, and the    *)
(*                 stacks of partially parsed blocks and nodes             *)
(*                                                                         *)
(* The symbol table is a set of records, numbered in the order in which    *)
(* they were inserted.                                                     *)
(***************************************************************************)
EXTENDS IrNodes

CONSTANT Within     \* pairs <<v, w>> of names such that v is part of the word w

NewContext ==
  [ir |-> <<>>, storage |-> <<>>, names |-> 0, ops |-> 0, defs |-> <<>>,
   frames |-> <<>>, compiled |-> {}, addable |-> TRUE,
   symbols |-> {}, inserted |-> 0, blocks |-> <<>>, pending |-> <<>>]

Reset == [NewContext EXCEPT !.addable = FALSE]

PushFrame(c, f) ==
  [Create(c, <<f>>, NewNode("block", <<>>)) EXCEPT
     !.frames = Append(@, f), !.symbols = {}, !.blocks = << <<f>> >>, !.pending = <<>>]

Block(c)   == Last(c.blocks)
Current(c) == Last(c.pending)

Record(name, port, node, kind) ==
  [name |-> name, port |-> port, node |-> node, kind |-> kind]
In(block, record, at) ==
  [name |-> record.name, port |-> record.port, node |-> record.node,
   kind |-> record.kind, block |-> block, at |-> at]

\* Records enter the table of the block that is being parsed. (In the faulty
\* variant the node is recorded for the block.)
InsertInNode(c, records) ==
  [c EXCEPT !.symbols = @ \union {In(records[i].node, records[i], c.inserted + i) : i \in DOMAIN records},
            !.inserted = @ + Len(records)]
Insert(c, records) ==
  [c EXCEPT !.symbols = @ \union {In(Block(c), records[i], c.inserted + i) : i \in DOMAIN records},
            !.inserted = @ + Len(records)]

GenOpName(c) == [c EXCEPT !.ops = @ + 1]

\* The ports that are given names next.
Fresh(c)        == PortName(c.names)
FreshPorts(c, k) == [i \in 1..k |-> PortName(c.names + i - 1)]

\* Names for the next ports; without a name in the source one stands for itself.
Anonymous == <<>>
GenVarNames(c, names, node, kinds) ==
  LET ports   == FreshPorts(c, Len(names))
      Name(i) == IF names[i] = Anonymous THEN ports[i] ELSE names[i]
  IN  [Insert(c, [i \in DOMAIN names |-> Record(Name(i), ports[i], node, kinds[i])])
         EXCEPT !.names = @ + Len(names)]
Each(names, kind) == [i \in DOMAIN names |-> kind]

IsRecorded(c, name) == \E r \in c.symbols : r.name = name

\* A set of records as a sequence, the first inserted first.
InOrder(records) ==
  [k \in 1..Cardinality(records) |->
     CHOOSE r \in records : Cardinality({q \in records : q.at < r.at}) = k - 1]
RecordsOf(c, name, kinds) ==
  Reverse(InOrder({r \in c.symbols : r.name = name /\ r.kind \in kinds}))

\* Names that hold an @: not those of variables, of operations and of ports.
Composed(name) == Len(name) > 1 /\ (Len(name) = 2 => name[1] \notin {"%", "%node"})

\* The fields of the tuple a name stands for: all the composed names it is part
\* of, each of which must have been recorded once.
FieldsOf(c, name) ==
  LET PartOf(r) == /\ Len(name) = 1 /\ Composed(r.name)
                   /\ \E w \in {Head(r.name), Last(r.name)} : <<name[1], w>> \in Within
      found == InOrder({r \in c.symbols : PartOf(r)})
  IN  IF Cardinality({found[i].name : i \in DOMAIN found}) # Len(found) THEN <<>>
      ELSE [i \in DOMAIN found |-> <<found[i].node, found[i].name>>]

\* Where the values a name stands for come from, latest record first: the name
\* of a variable that was assigned hides all others, wherever that was.
Generation(c, name) ==
  LET gens == RecordsOf(c, name, {"gen"})
      Resolve(r) == IF r.kind = "def" THEN r ELSE RecordsOf(c, r.port, {"def"})[1]
      At(r) == <<Resolve(r).node, Resolve(r).port>>
      defs == RecordsOf(c, name, {"def", "alias"})
  IN  CASE ~IsRecorded(c, name) -> FieldsOf(c, name)
        [] gens # <<>> -> << <<gens[1].node, gens[1].port>> >>
        [] OTHER -> [i \in DOMAIN defs |-> At(defs[i])]

\* The ports of a node that consume what a name stands for, latest first. (The
\* faulty variant finds those of every node.)
AllUsages(c, name, node) ==
  LET uses == RecordsOf(c, name, {"use"}) IN [i \in DOMAIN uses |-> uses[i].port]
Usages(c, name, node) ==
  LET uses == SelectSeq(RecordsOf(c, name, {"use"}), LAMBDA r : r.node = node)
  IN  [i \in DOMAIN uses |-> uses[i].port]

\* Faulty variant of CleanSymbols: the names of the block stay visible.
KeepSymbols(c, block) == c
CleanSymbols(c, block) ==
  [c EXCEPT !.symbols = {r \in @ : r.block # block \/ r.kind = "gen"}]
=============================================================================
