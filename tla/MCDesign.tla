------------------------------ MODULE MCDesign ------------------------------
(***************************************************************************)
(* Source files for Design, a family for each part of the gate: ports,     *)
(* parameters, generate constructs, the hierarchy and plain items.         *)
(***************************************************************************)
EXTENDS Design

Lit(v) == [e |-> "lit", v |-> v]
Ref(n) == [e |-> "ref", n |-> n]
Bin(op, a, b) == [e |-> "bin", op |-> op, a |-> a, b |-> b]
Call == [e |-> "call"]
Sys == [e |-> "sys", supported |-> FALSE]
To(e) == [NoRange EXCEPT !.left = e, !.right = Lit(0)]

Param(n, e) == [name |-> n, default |-> e]
Port(n, dir, kind, range) == [name |-> n, dir |-> dir, kind |-> kind, range |-> range]
Net_(n, kind, range) == [item |-> "net", name |-> n, kind |-> kind, range |-> range, delay |-> NoExpr]
Var_(n, range) == [item |-> "var", name |-> n, kind |-> "var", range |-> range, mem |-> NoRange, init |-> NoExpr]
Mem(n, range) == [Var_(n, NoRange) EXCEPT !.mem = range]
Assign_(n, e) == [item |-> "assign", lhs |-> n, rhs |-> e, delay |-> NoExpr, strength |-> FALSE]
Set_(n) == [s |-> "assign", lhs |-> n, rhs |-> Lit(1)]
Event(signals, s) == [s |-> "event", signals |-> signals, body |-> s]
Wait(e, s) == [s |-> "delay", by |-> e, body |-> s]
Proc(list) == [item |-> "proc", body |-> [s |-> "block", list |-> list]]
Inst(m, n, params, conns) == [item |-> "inst", module |-> m, name |-> n, params |-> params, conns |-> conns]
Give(n, e) == [for |-> n, value |-> e]
Join(n, e) == [for |-> n, actual |-> e]
B(n, items) == [name |-> n, items |-> items]
If_(e, items) == [item |-> "genif", cond |-> e, then |-> B("g", items), else |-> <<>>]
For_(v, from, cond, step, items) ==
  [item |-> "genfor", genvar |-> v, inline |-> TRUE, initial |-> from, cond |-> cond,
   stepped |-> v, step |-> step, block |-> B("lane", items)]
Up(n, items) == For_("i", Lit(0), Bin("<", Ref("i"), n), Bin("+", Ref("i"), Lit(1)), items)
Genvar(n) == [item |-> "genvar", name |-> n]
Module(n, params, ports, items) == [name |-> n, params |-> params, ports |-> ports, items |-> items]

Place(where, items) ==
  CASE where = "here" -> items
    [] where = "if" -> <<If_(Lit(1), items)>>
    [] where = "else" -> <<[If_(Ref("P"), items) EXCEPT !.else = <<B("h", items)>>]>>
    [] where = "for" -> <<Up(Ref("P"), items)>>

Parent(items) ==
  Module("top", <<Param("P", Lit(2)), Param("Q", Bin("-", Ref("P"), Lit(1)))>>, <<>>,
         <<Net_("w", "wire", NoRange), Net_("a", "wand", NoRange), Net_("t", "tri0", NoRange),
           Net_("b", "wire", To(Lit(1))), Net_("p", "wor", To(Ref("P"))), Var_("v", NoRange),
           Var_("k", Unranged(IntBits)), Mem("m", To(Ref("P")))>> \o items)

-----------------------------------------------------------------------------
Dirs == {"input", "output", "inout", "ref"}
Kinds == {"var", "wire", "wand", "tri0"}
Ranges == {"one", "two", "int", "param"}
RangeOf(r) == CASE r = "one" -> NoRange [] r = "two" -> To(Lit(1)) [] r = "int" -> Unranged(IntBits)
                 [] r = "param" -> To(Ref("N")) [] r = "x" -> To(Lit(X))
Signals == {"w", "a", "t", "b", "p", "v", "k"}

\* A port of a child, connected to a signal of its parent.
PortFile(k) ==
  <<Parent(Place(k[6], <<Inst("c", "u", <<Give("N", Ref("Q"))>>, <<Join("o", Ref(k[5]))>>)>>)),
    Module("c", <<Param("N", Lit(0))>>, <<Port("o", k[2], k[3], RangeOf(k[4]))>>,
           <<Inst("d", "u", <<>>, <<Join("", Ref("o"))>>)>>),
    Module("d", <<>>, <<Port("q", k[2], k[3], RangeOf(IF k[4] = "param" THEN "two" ELSE k[4]))>>, <<>>)>>

Conns(c) ==
  CASE c = "order" -> <<Join("", Ref("w")), Join("", Ref("v"))>>
    [] c = "names" -> <<Join("s", Ref("v")), Join("r", Ref("w"))>>
    [] c = "twice" -> <<Join("s", Ref("v")), Join("s", Ref("w"))>>
    [] c = "both" -> <<Join("", Ref("w")), Join("r", Ref("a"))>>
    [] c = "more" -> <<Join("", Ref("w")), Join("", Ref("v")), Join("", Ref("v"))>>
    [] c = "none" -> <<>>
    [] c = "odd" -> <<Join("z", Ref("w"))>>
    [] c = "memory" -> <<Join("r", Ref("m"))>>
    [] c = "lost" -> <<Join("r", Ref("z"))>>
    [] c = "call" -> <<Join("r", Call)>>

Overrides(o) ==
  CASE o = "none" -> <<>>
    [] o = "order" -> <<Give("", Lit(3)), Give("", Ref("P"))>>
    [] o = "one" -> <<Give("", Ref("P"))>>
    [] o = "name" -> <<Give("N", Bin("+", Ref("P"), Lit(1)))>>
    [] o = "names" -> <<Give("N", Ref("Q")), Give("P", Bin("+", Ref("P"), Ref("Q")))>>
    [] o = "twice" -> <<Give("N", Ref("Q")), Give("N", Lit(1))>>
    [] o = "mixed" -> <<Give("", Lit(1)), Give("P", Lit(1))>>
    [] o = "more" -> <<Give("", Lit(1)), Give("", Lit(1)), Give("", Lit(1))>>
    [] o = "odd" -> <<Give("Z", Lit(1))>>
    [] o = "call" -> <<Give("N", Call)>>
    [] o = "signal" -> <<Give("P", Ref("w"))>>
    [] o = "x" -> <<Give("P", Lit(X))>>
    [] o = "genvar" -> <<Give("P", Ref("i"))>>

\* A child with two parameters of the same names as its parent's, or not.
ParamFile(k) ==
  <<Parent(Place(k[4], <<Inst("c", "u", Overrides(k[2]), Conns(k[3]))>>)),
    Module("c", <<Param("P", Lit(1)), Param("N", Bin("+", Ref("P"), Lit(1)))>>,
           <<Port("r", "input", "wire", NoRange), Port("s", "output", "var", To(Ref("N")))>>,
           <<Var_("y", To(Ref("P"))), Proc(<<Event(1, Set_("s"))>>),
             If_(Bin("<", Ref("P"), Ref("N")), <<Net_("n", "supply1", To(Ref("N")))>>)>>)>>

Child == Inst("c", "u", <<Give("P", Ref("i"))>>, <<Join("r", Ref("w"))>>)
Case_(selector, labels) ==
  [item |-> "gencase", selector |-> selector,
   items |-> <<[labels |-> labels, block |-> B("g", <<Var_("y", To(Ref("P")))>>)],
               [labels |-> <<Lit(2)>>, block |-> B("h", <<Net_("y", "tri1", NoRange), Assign_("y", Ref("v"))>>)]>>,
   default |-> <<B("k", <<Var_("y", NoRange), Proc(<<Wait(Ref("P"), Set_("y"))>>)>>)>>]

Construct(g) ==
  CASE g = "up" -> Up(Ref("P"), <<Child, Net_("y", "wire", To(Ref("i"))), Assign_("y", Ref("w"))>>)
    [] g = "down" -> For_("i", Lit(1), Bin(">=", Ref("i"), Lit(0)), Bin("-", Ref("i"), Lit(1)), <<Var_("y", NoRange)>>)
    [] g = "still" -> [Up(Ref("P"), <<Var_("y", NoRange)>>) EXCEPT !.step = Ref("i")]
    [] g = "other" -> [Up(Ref("P"), <<>>) EXCEPT !.stepped = "j"]
    [] g = "genvar" -> [Up(Ref("P"), <<Child>>) EXCEPT !.inline = FALSE]
    [] g = "unnamed" -> [Up(Ref("P"), <<>>) EXCEPT !.block = B("", <<>>)]
    [] g = "nested" -> Up(Ref("P"), <<If_(Bin("==", Ref("i"), Ref("Q")), <<Child, Mem("y", To(Ref("i")))>>)>>)
    [] g = "square" -> Up(Ref("P"), <<[For_("j", Ref("i"), Bin("<", Ref("j"), Ref("P")), Bin("+", Ref("j"), Lit(1)),
                                         <<Var_("y", To(Bin("+", Ref("i"), Ref("j"))))>>) EXCEPT !.block.name = "row"]>>)
    [] g = "case" -> Case_(Ref("P"), <<Lit(0), Lit(1)>>)
    [] g = "case2" -> Case_(Ref("Q"), <<Lit(0), Ref("Q")>>)
    [] g = "case3" -> Case_(Lit(3), <<Lit(0)>>)
    [] g = "casex" -> Case_(Ref("P"), <<Lit(X)>>)
    [] g = "caseskip" -> Case_(Lit(0), <<Lit(0), Lit(X)>>)
    [] g = "selx" -> Case_(Lit(X), <<Lit(0)>>)
    [] g = "empty" -> Case_(Ref("P"), <<>>)
    [] g = "ifx" -> If_(Lit(X), <<>>)
    [] g = "ifcall" -> If_(Call, <<>>)
    [] g = "forx" -> Up(Lit(X), <<>>)
    [] g = "fromx" -> [Up(Ref("P"), <<>>) EXCEPT !.initial = Lit(X)]
    [] g = "stepx" -> [Up(Ref("P"), <<>>) EXCEPT !.step = Lit(X)]
    [] g = "false" -> If_(Lit(0), <<Child>>)
    \* what the gate does not look at inside a block
    [] g = "write" -> If_(Lit(1), <<Proc(<<Set_("w")>>)>>)
    [] g = "target" -> If_(Lit(1), <<Assign_("v", Lit(1))>>)
    [] g = "delay" -> If_(Lit(1), <<[Net_("y", "wire", NoRange) EXCEPT !.delay = Ref("v")]>>)

GenFile(k) ==
  <<Parent(<<Construct(k[2])>> \o IF k[3] THEN <<Genvar("i")>> ELSE <<>>),
    Module("c", <<Param("P", Lit(1))>>, <<Port("r", "input", "wand", NoRange)>>,
           <<Var_("y", To(Ref("P"))), Proc(<<Event(1, Set_("y"))>>)>>)>>

\* Modules that instantiate each other.
Sub(m, where) == Place(where, <<Inst(m, "u", <<>>, <<>>)>>)
Plain(n, items) == Module(n, <<Param("P", Lit(1))>>, <<>>, items)
HierFile(k) ==
  LET w == k[3]
  IN CASE k[2] = "chain" -> <<Plain("e", Sub("f", w)), Plain("f", Sub("h", w)), Plain("h", <<>>)>>
       [] k[2] = "diamond" -> <<Plain("e", Sub("f", w) \o <<Inst("h", "x", <<>>, <<>>)>>), Plain("f", Sub("h", w)), Plain("h", <<>>)>>
       [] k[2] = "self" -> <<Plain("e", Sub("f", w)), Plain("f", Sub("f", w))>>
       [] k[2] = "cycle" -> <<Plain("e", Sub("f", "here")), Plain("f", Sub("h", w)), Plain("h", Sub("f", "if"))>>
       [] k[2] = "dead" -> <<Plain("e", Sub("f", w)), Plain("f", <<If_(Lit(0), Sub("e", "here"))>>), Plain("h", Sub("e", "here"))>>
       [] k[2] = "lost" -> <<Plain("e", Sub("z", w))>>
       [] k[2] = "roots" -> <<Plain("e", Sub("h", w)), Plain("f", Sub("h", w)), Plain("h", <<Var_("y", NoRange)>>)>>
       [] k[2] = "same" -> <<Plain("e", <<>>), Plain("e", <<>>)>>

Single(d) ==
  CASE d = "net" -> <<Proc(<<Event(1, Set_("w"))>>)>>
    [] d = "var" -> <<Proc(<<Event(1, Set_("v")), Wait(Ref("P"), Set_("v"))>>)>>
    [] d = "name" -> <<Proc(<<Set_("z")>>)>>
    [] d = "wait" -> <<Proc(<<Wait(Ref("v"), Set_("v"))>>)>>
    [] d = "events" -> <<Proc(<<Event(2, Set_("v"))>>)>>
    [] d = "sys" -> <<Proc(<<[Set_("v") EXCEPT !.rhs = Sys]>>)>>
    [] d = "assign" -> <<Assign_("w", Bin("+", Ref("v"), Ref("w")))>>
    [] d = "lhs" -> <<Assign_("v", Lit(0))>>
    [] d = "rhs" -> <<Assign_("w", Ref("z"))>>
    [] d = "rhscall" -> <<Assign_("w", Call)>>
    [] d = "adelay" -> <<[Assign_("w", Ref("v")) EXCEPT !.delay = Ref("Q")]>>
    [] d = "adelayx" -> <<[Assign_("w", Ref("v")) EXCEPT !.delay = Lit(X)]>>
    [] d = "adelayv" -> <<[Assign_("w", Ref("v")) EXCEPT !.delay = Ref("v")]>>
    [] d = "adelayn" -> <<[Assign_("w", Ref("v")) EXCEPT !.delay = Bin("-", Lit(0), Lit(1))]>>
    [] d = "strong" -> <<[Assign_("w", Lit(1)) EXCEPT !.strength = TRUE]>>
    [] d = "wired" -> <<[Assign_("a", Lit(1)) EXCEPT !.strength = TRUE]>>
    [] d = "ndelay" -> <<[Net_("y", "wire", NoRange) EXCEPT !.delay = Ref("Q")]>>
    [] d = "ndelayn" -> <<[Net_("y", "wire", NoRange) EXCEPT !.delay = Bin("-", Ref("Q"), Ref("P"))]>>
    [] d = "ndelayv" -> <<[Net_("y", "wire", NoRange) EXCEPT !.delay = Ref("v")]>>
    [] d = "again" -> <<Net_("v", "wire", NoRange)>>
    [] d = "range" -> <<Net_("y", "wire", To(Ref("v")))>>
    [] d = "rangex" -> <<Net_("y", "wire", To(Lit(X)))>>
    [] d = "vrange" -> <<Var_("y", To(Call))>>
    [] d = "init" -> <<[Var_("y", To(Ref("Q"))) EXCEPT !.init = Ref("P")]>>
    [] d = "initv" -> <<[Var_("y", NoRange) EXCEPT !.init = Ref("v")]>>
    [] d = "mem" -> <<Mem("y", [NoRange EXCEPT !.left = Ref("Q"), !.right = Ref("P")])>>
    [] d = "meminit" -> <<[Mem("y", To(Lit(1))) EXCEPT !.init = Lit(1)]>>
    [] d = "memneg" -> <<Mem("y", To(Bin("-", Ref("Q"), Ref("P"))))>>
    [] d = "membig" -> <<Mem("y", To(Lit(3)))>>
    [] d = "memv" -> <<Mem("y", To(Ref("v")))>>

Defaults(d) ==
  CASE d = "later" -> <<Param("P", Ref("Q")), Param("Q", Lit(1))>>
    [] d = "call" -> <<Param("P", Lit(1)), Param("Q", Call)>>
    [] d = "same" -> <<Param("P", Lit(1)), Param("P", Lit(1))>>

ItemFile(k) == <<Parent(Single(k[2]))>>
DefaultFile(k) == <<[Parent(<<>>) EXCEPT !.params = Defaults(k[2])]>>

MCFile(k) ==
  CASE k[1] = "port" -> PortFile(k)
    [] k[1] = "param" -> ParamFile(k)
    [] k[1] = "gen" -> GenFile(k)
    [] k[1] = "hier" -> HierFile(k)
    [] k[1] = "item" -> ItemFile(k)
    [] k[1] = "default" -> DefaultFile(k)

Places == {"here", "if", "for"}
MCKeys ==
  ({"port"} \X Dirs \X Kinds \X Ranges \X Signals \X Places)
  \cup ({"port"} \X {"input"} \X {"wire"} \X {"x"} \X {"w"} \X Places)
  \cup ({"param"} \X {"none", "order", "one", "name", "names", "twice", "mixed", "more", "odd", "call", "signal", "x", "genvar"}
                  \X {"names"} \X Places)
  \cup ({"param"} \X {"none", "names"}
                  \X {"order", "names", "twice", "both", "more", "none", "odd", "memory", "lost", "call"} \X Places)
  \cup ({"gen"} \X {"up", "down", "still", "other", "genvar", "unnamed", "nested", "square", "case", "case2", "case3", "casex",
                    "caseskip", "selx", "empty", "ifx", "ifcall", "forx", "fromx", "stepx", "false", "write", "target", "delay"}
                \X BOOLEAN)
  \cup ({"hier"} \X {"chain", "diamond", "self", "cycle", "dead", "lost", "roots", "same"} \X {"here", "if", "else", "for"})
  \cup ({"item"} \X {"net", "var", "name", "wait", "events", "sys", "assign", "lhs", "rhs", "rhscall", "adelay", "adelayx", "adelayv",
                     "adelayn", "strong", "wired", "ndelay", "ndelayn", "ndelayv", "again", "range", "rangex", "vrange", "init",
                     "initv", "mem", "meminit", "memneg", "membig", "memv"})
  \cup ({"default"} \X {"later", "call", "same"})
=============================================================================
