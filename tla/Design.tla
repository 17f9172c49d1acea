------------------------------- MODULE Design -------------------------------
(***************************************************************************)
(* The design hierarchy: the gate of conformant elaboration (validate of   *)
(* eevee-elab's conformance.rs) and the elaboration it admits a source     *)
(* file to (elaborate_module_instance and what it calls in lib.rs), one    *)
(* item of a module or generate block per step, on an explicit stack of    *)
(* the calls under way.  A panic is caught and refuses the file.           *)
(*                                                                         *)
(* Constants are numbers of IntBits bits; a procedure is the tree of its   *)
(* assignments and timing controls.  Classes, packages and functions have  *)
(* no part here, nor has the sign of a signal; the code of a process is    *)
(* the subject of module Code.                                             *)
(***************************************************************************)
EXTENDS Integers, Sequences, FiniteSets, TLC, SequencesExt, Functions

CONSTANTS
  Keys,          \* names of the source files
  File(_),       \* name -> sequence of modules
  IntBits,       \* width of a constant (32 in the source)
  MaxElements,   \* elements of a fixed memory (1_000_000 in the source)
  MaxIterations, \* iterations of a generate-for (1_000_000 in the source)
  MaxDepth       \* frames the model follows

ASSUME BoundAssumption ==
  {IntBits, MaxElements, MaxIterations, MaxDepth} \subseteq Nat \ {0}

VARIABLES
  key, file, modules,  \* the source file, and its modules by name
  expected,            \* what the file declares, from the reference below
  verdict,             \* "new", "rejected", "running", "panicked" or "built"
  why,                 \* the panic: [reason, generated]
  roots,               \* root modules not elaborated yet
  stack,               \* calls under way, the innermost first
  nets, drivers,       \* the kernel's: [width, kind] and [net, from, as]
  writes,              \* nets that procedures assign
  links,               \* ports bound: [port, kind, up, down]
  built                \* what was built: instances and declared signals

vars == <<key, file, modules, expected, verdict, why, roots, stack, nets, drivers, writes, links,
          built>>

-----------------------------------------------------------------------------
(* Constant expressions. *)

X == -1         \* unknown bits
NotConst == -2  \* no value at elaboration
NoExpr == [e |-> "none"]
\* A declaration has a range, or the width of its type: 1 for a scalar.
Unranged(width) == [left |-> NoExpr, right |-> NoExpr, width |-> width]
NoRange == Unranged(1)
HasRange(range) == range.left # NoExpr
ToInt(v) == IF v >= 2^(IntBits - 1) THEN v - 2^IntBits ELSE v
Distance(l, r) == IF l < r THEN r - l ELSE l - r

\* const_expr_signedness: a name has none.
RECURSIVE SignedExpr(_)
SignedExpr(e) ==
  CASE e.e = "lit" -> TRUE
    [] e.e = "bin" -> e.op \in {"+", "-"} /\ SignedExpr(e.a) /\ SignedExpr(e.b)
    [] OTHER -> FALSE

Compare(op, a, b) == IF (op = "<" /\ a < b) \/ (op = ">=" /\ a >= b) \/ (op = "==" /\ a = b)
                     THEN 1 ELSE 0

RECURSIVE try_const_eval_with(_, _)
try_const_eval_with(e, consts) ==
  CASE e.e = "lit" -> e.v
    [] e.e = "ref" -> IF e.n \in DOMAIN consts THEN consts[e.n] ELSE NotConst
    [] e.e = "bin" ->
         LET a == try_const_eval_with(e.a, consts)
             b == try_const_eval_with(e.b, consts)
         IN IF NotConst \in {a, b} THEN NotConst
            ELSE IF X \in {a, b} THEN X
            ELSE CASE e.op = "+" -> (a + b) % 2^IntBits
                   [] e.op = "-" -> (a - b) % 2^IntBits
                   [] OTHER -> IF SignedExpr(e.a) /\ SignedExpr(e.b)
                               THEN Compare(e.op, ToInt(a), ToInt(b)) ELSE Compare(e.op, a, b)
    [] OTHER -> NotConst

\* evaluate_generate_constant, resolve_range_bounds: the panic for a value, or none.
BadValue(v) == CASE v = NotConst -> "not constant" [] v = X -> "unknown bits" [] OTHER -> ""
BadConstant(e, consts) == BadValue(try_const_eval_with(e, consts))

\* packed_width of eevee-fe's lower.rs: a range that is not literal does not count.
packed_width(range) ==
  IF range.left.e = "lit" /\ range.right.e = "lit"
  THEN Distance(ToInt(range.left.v), ToInt(range.right.v)) + 1 ELSE range.width

BadRange(range, consts) ==
  IF ~HasRange(range) THEN ""
  ELSE LET left == BadConstant(range.left, consts)
       IN IF left # "" THEN left ELSE BadConstant(range.right, consts)

Bounds(range, consts) == <<ToInt(try_const_eval_with(range.left, consts)),
                           ToInt(try_const_eval_with(range.right, consts))>>

resolve_declared_width(d, consts) ==
  IF ~HasRange(d.range) THEN packed_width(d.range)
  ELSE LET b == Bounds(d.range, consts) IN Distance(b[1], b[2]) + 1

-----------------------------------------------------------------------------
(* What a module declares. *)

Names(list) == {list[j].name : j \in DOMAIN list}
Of(list, kind) == SelectSeq(list, LAMBDA item : item.item = kind)
Named(list, n) == list[SelectInSeq(list, LAMBDA d : d.name = n)]

\* module_signal_width, module_signal_has_packed_range, module_signal_net_kind:
\* a port first, then a variable that is no memory, or a net.
HasSignal(m, n) ==
  \/ n \in Names(m.ports)
  \/ \E d \in Range(m.items) : /\ d.item = "net" \/ (d.item = "var" /\ d.mem = NoRange)
                               /\ d.name = n
SignalDecl(m, n) ==
  IF n \in Names(m.ports) THEN Named(m.ports, n)
  ELSE Named(SelectSeq(m.items, LAMBDA d : d.item \in {"net", "var"}), n)

\* The blocks of a generate construct.
Blocks(g) ==
  CASE g.item = "genif" -> <<g.then>> \o g.else
    [] g.item = "gencase" -> [j \in DOMAIN g.items |-> g.items[j].block] \o g.default
    [] g.item = "genfor" -> <<g.block>>
    [] OTHER -> <<>>

\* Mutant: instances in generate blocks are not seen.
collect_instantiated_modules_Flat(items) ==
  LET insts == Of(items, "inst") IN [j \in DOMAIN insts |-> insts[j].module]

RECURSIVE collect_instantiated_modules(_)
collect_instantiated_modules(items) ==
  FlattenSeq([j \in DOMAIN items |->
    IF items[j].item = "inst" THEN <<items[j].module>>
    ELSE LET blocks == Blocks(items[j])
         IN FlattenSeq([b \in DOMAIN blocks |-> collect_instantiated_modules(blocks[b].items)])])

\* collect_instantiated_module_names: what is instantiated anywhere is no root.
Instantiated == UNION {Range(collect_instantiated_modules(modules[n].items)) : n \in DOMAIN modules}

bridgeable_resolution(kind) == kind \in {"wire", "wand", "wor"}

\* port_connection_mode; a variable has the kind "var".
port_connection_mode(port, actual) ==
  IF port.kind = "var" \/ port.kind = actual THEN "alias"
  ELSE CASE port.dir = "input" /\ bridgeable_resolution(port.kind)
         /\ (actual = "var" \/ bridgeable_resolution(actual)) -> "in"
    [] port.dir = "output" /\ bridgeable_resolution(port.kind) /\ bridgeable_resolution(actual) -> "out"
    [] OTHER -> "none"

-----------------------------------------------------------------------------
(* The gate. *)

RECURSIVE is_constant_expr(_, _)
is_constant_expr(e, visible) ==
  CASE e.e = "lit" -> TRUE
    [] e.e = "ref" -> e.n \in visible
    [] e.e = "bin" -> is_constant_expr(e.a, visible) /\ is_constant_expr(e.b, visible)
    [] OTHER -> FALSE

RECURSIVE validate_expr(_)
validate_expr(e) ==
  CASE e.e = "bin" -> validate_expr(e.a) /\ validate_expr(e.b)
    [] e.e = "sys" -> e.supported
    [] OTHER -> TRUE

\* is_parameter_constant_expr and the validate_expr that follows each use of it.
Constant(e, visible) == is_constant_expr(e, visible) /\ validate_expr(e)

validate_packed_range(range, visible) ==
  ~HasRange(range) \/ (Constant(range.left, visible) /\ Constant(range.right, visible))

validate_module_scope(m) ==
  LET named == SelectSeq(m.items, LAMBDA d : d.item \in {"var", "net", "inst", "genvar"})
  IN IsInjective([j \in 1..Len(m.params) + Len(m.ports) + Len(named) |->
                    (m.params \o m.ports \o named)[j].name])

validate_module_parameters(m) ==
  \A j \in DOMAIN m.params : Constant(m.params[j].default, Names(SubSeq(m.params, 1, j - 1)))

validate_net_declaration_delays(m) ==
  \A net \in Range(Of(m.items, "net")) :
    net.delay # NoExpr => Constant(net.delay, Names(m.params))

Drivable(m) == Names(Of(m.items, "net")) \cup
  Names(SelectSeq(m.ports, LAMBDA p : p.kind # "var" /\ p.dir \in {"output", "inout"}))

RECURSIVE validate_continuous_expr(_, _)
validate_continuous_expr(m, e) ==
  CASE e.e = "lit" -> TRUE
    [] e.e = "ref" -> HasSignal(m, e.n)
    [] e.e = "bin" -> validate_continuous_expr(m, e.a) /\ validate_continuous_expr(m, e.b)
    [] OTHER -> FALSE

validate_continuous_assignments(m) ==
  \A a \in Range(Of(m.items, "assign")) :
    /\ a.lhs \in Drivable(m)
    /\ ~(a.strength /\ SignalDecl(m, a.lhs).kind \in {"wand", "wor"})
    /\ validate_continuous_expr(m, a.rhs)
    /\ a.delay # NoExpr => Constant(a.delay, Names(m.params))

\* procedural_net_write: the names a body assigns, at any depth.  A "block" stands
\* for every statement made of statements (if, case, loops, fork).
RECURSIVE Assigned(_)
Assigned(s) ==
  CASE s.s = "assign" -> {s.lhs}
    [] s.s = "block" -> UNION {Assigned(b) : b \in Range(s.list)}
    [] s.s \in {"delay", "event"} -> Assigned(s.body)
    [] OTHER -> {}

validate_procedural_net_writes(m) ==
  LET resolved == Names(Of(m.items, "net")) \cup Names(SelectSeq(m.ports, LAMBDA p : p.kind # "var"))
  IN \A p \in Range(Of(m.items, "proc")) : Assigned(p.body) \cap resolved = {}

\* The parameter or port that the j-th override or connection is for.
Target(list, j, n) == IF n # "" THEN n ELSE IF j \in DOMAIN list THEN list[j].name ELSE "none"

validate_parameter_overrides(parent, child, inst) ==
  LET target == [j \in DOMAIN inst.params |-> Target(child.params, j, inst.params[j].for)]
  IN /\ \A i, j \in DOMAIN inst.params : (inst.params[i].for = "") = (inst.params[j].for = "")
     /\ Range(target) \subseteq Names(child.params)
     /\ IsInjective(target)
     /\ \A j \in DOMAIN inst.params : Constant(inst.params[j].value, Names(parent.params))

\* Mutant: the widths of an inout or ref port and its actual are not compared.
ConnectionAllowed_AnyWidth(m, child, inst, j) ==
  LET c == inst.conns[j]
      n == Target(child.ports, j, c.for)
      port == Named(child.ports, n)
      kind == SignalDecl(m, c.actual.n).kind
  IN /\ c.for # "" => \A i \in 1..j - 1 : inst.conns[i].for # c.for
     /\ n \in Names(child.ports)
     /\ c.actual.e = "ref"
     /\ HasSignal(m, c.actual.n)
     /\ port.kind # "var" => /\ port.dir = "inout" => kind = port.kind
                             /\ port_connection_mode(port, kind) # "none"

\* One connection of an instance, in validate_hierarchy.
ConnectionAllowed(m, child, inst, j) ==
  LET c == inst.conns[j]
      n == Target(child.ports, j, c.for)
      port == Named(child.ports, n)
      actual == SignalDecl(m, c.actual.n)
  IN /\ c.for # "" => \A i \in 1..j - 1 : inst.conns[i].for # c.for
     /\ n \in Names(child.ports)
     /\ c.actual.e = "ref"
     /\ HasSignal(m, c.actual.n)
     /\ \/ packed_width(actual.range) = packed_width(port.range)
        \/ HasRange(port.range) \/ HasRange(actual.range)
        \/ port.dir \notin {"inout", "ref"}
     /\ port.kind # "var" => /\ port.dir = "inout" => actual.kind = port.kind
                             /\ port_connection_mode(port, actual.kind) # "none"

\* Only the items of the module itself are looked at, not those of its generate blocks.
InstanceAllowed(m, inst) ==
  /\ inst.module \in DOMAIN modules
  /\ validate_parameter_overrides(m, modules[inst.module], inst)
  /\ \A j \in DOMAIN inst.conns : ConnectionAllowed(m, modules[inst.module], inst, j)

\* visit_module: depth first, 1 marks a module on the stack, 2 one that is done.
RECURSIVE visit_module(_, _)
visit_module(n, marks) ==
  CASE marks.of[n] = 2 -> marks
    [] marks.of[n] = 1 -> [marks EXCEPT !.ok = FALSE]
    [] OTHER ->
         LET Visit(mk, child) == IF ~mk.ok \/ child \notin DOMAIN modules
                                 THEN [mk EXCEPT !.ok = FALSE] ELSE visit_module(child, mk)
             done == FoldLeft(Visit, [marks EXCEPT !.of[n] = 1],
                              collect_instantiated_modules(modules[n].items))
         IN [done EXCEPT !.of[n] = 2]

validate_hierarchy ==
  /\ Cardinality(DOMAIN modules) = Len(file)
  /\ \A m \in Range(file) :
       /\ validate_module_scope(m)
       /\ validate_module_parameters(m)
       /\ \A p \in Range(m.ports) : validate_packed_range(p.range, Names(m.params))
       /\ validate_net_declaration_delays(m)
       /\ validate_continuous_assignments(m)
       /\ validate_procedural_net_writes(m)
  /\ \A m \in Range(file) : \A inst \in Range(Of(m.items, "inst")) : InstanceAllowed(m, inst)
  /\ LET Visit(mk, m) == IF mk.ok THEN visit_module(m.name, mk) ELSE mk
     IN FoldLeft(Visit, [of |-> [n \in DOMAIN modules |-> 0], ok |-> TRUE], file).ok

validate_static_var(v, visible) ==
  /\ validate_packed_range(v.range, visible)
  /\ validate_packed_range(v.mem, visible)
  /\ v.init # NoExpr => v.mem = NoRange /\ Constant(v.init, visible)

RECURSIVE validate_stmt(_, _)
validate_stmt(s, visible) ==
  CASE s.s = "assign" -> validate_expr(s.rhs)
    [] s.s = "block" -> \A b \in Range(s.list) : validate_stmt(b, visible)
    [] s.s = "delay" -> Constant(s.by, visible) /\ validate_stmt(s.body, visible)
    [] s.s = "event" -> s.signals = 1 /\ validate_stmt(s.body, visible)
    [] OTHER -> TRUE

RECURSIVE validate_items(_, _)
validate_generate_block(b, visible) == b.name # "" /\ validate_items(b.items, visible)

validate_generate_construct(g, visible, genvars) ==
  CASE g.item = "genif" -> /\ Constant(g.cond, visible)
                           /\ \A b \in Range(Blocks(g)) : validate_generate_block(b, visible)
    [] g.item = "gencase" ->
         /\ Constant(g.selector, visible)
         /\ \A item \in Range(g.items) : /\ item.labels # <<>>
                                         /\ \A l \in Range(item.labels) : Constant(l, visible)
         /\ \A b \in Range(Blocks(g)) : validate_generate_block(b, visible)
    [] g.item = "genfor" ->
         /\ g.inline \/ g.genvar \in genvars
         /\ g.stepped = g.genvar
         /\ Constant(g.initial, visible)
         /\ Constant(g.cond, visible \cup {g.genvar})
         /\ Constant(g.step, visible \cup {g.genvar})
         /\ validate_generate_block(g.block, visible \cup {g.genvar})

validate_items(items, visible) ==
  \A d \in Range(items) :
    CASE d.item = "var" -> validate_static_var(d, visible)
      [] d.item = "net" -> validate_packed_range(d.range, visible) /\ validate_expr(d.delay)
      [] d.item = "inst" -> \A c \in Range(d.conns) : c.actual.e = "ref"
      [] d.item = "assign" -> validate_expr(d.rhs) /\ validate_expr(d.delay)
      [] d.item = "proc" -> validate_stmt(d.body, visible)
      [] d.item = "genvar" -> TRUE
      [] OTHER -> validate_generate_construct(d, visible, Names(Of(items, "genvar")))

validate == validate_hierarchy /\ \A m \in Range(file) : validate_items(m.items, Names(m.params))

-----------------------------------------------------------------------------
(* What a source file means: the modules, blocks and signals it declares,  *)
(* with signed constants, every override read where it is written.         *)

RECURSIVE Value(_, _)
Value(e, c) ==
  CASE e.e = "lit" -> ToInt(e.v)
    [] e.e = "ref" -> IF e.n \in DOMAIN c THEN c[e.n] ELSE 0
    [] e.e = "bin" -> LET a == Value(e.a, c)
                          b == Value(e.b, c)
                      IN CASE e.op = "+" -> ToInt((a + b) % 2^IntBits)
                           [] e.op = "-" -> ToInt((a - b) % 2^IntBits)
                           [] OTHER -> Compare(e.op, a, b)
    [] OTHER -> 0

Extent(range, c) == IF ~HasRange(range) THEN range.width ELSE Distance(Value(range.left, c), Value(range.right, c)) + 1

RECURSIVE LoopConsts(_, _, _, _)
LoopConsts(g, c, v, fuel) ==
  LET inner == (g.genvar :> v) @@ c
  IN IF fuel = 0 \/ Value(g.cond, inner) = 0 THEN {}
     ELSE {inner} \cup LoopConsts(g, c, Value(g.step, inner), fuel - 1)

\* The blocks a generate construct stands for: [block, segment, consts].
Replicas(g, c) ==
  CASE g.item = "genif" ->
         {[block |-> b, segment |-> <<b.name>>, consts |-> c] :
            b \in IF Value(g.cond, c) # 0 THEN {g.then} ELSE Range(g.else)}
    [] g.item = "gencase" ->
         LET hit == {j \in DOMAIN g.items :
                       \E l \in Range(g.items[j].labels) : Value(l, c) = Value(g.selector, c)}
             first == CHOOSE j \in hit : \A i \in hit : j <= i
         IN {[block |-> b, segment |-> <<b.name>>, consts |-> c] :
               b \in IF hit # {} THEN {g.items[first].block} ELSE Range(g.default)}
    [] OTHER ->
         {[block |-> g.block, segment |-> <<g.block.name, inner[g.genvar]>>, consts |-> inner] :
            inner \in LoopConsts(g, c, Value(g.initial, c), MaxIterations)}

Actuals(child, inst, c) ==
  LET Given(n) == {j \in DOMAIN inst.params : Target(child.params, j, inst.params[j].for) = n}
      value[j \in 0..Len(child.params)] ==
        IF j = 0 THEN <<>>
        ELSE LET p == child.params[j]
             IN (p.name :> IF Given(p.name) # {}
                           THEN Value(inst.params[CHOOSE i \in Given(p.name) : TRUE].value, c)
                           ELSE Value(p.default, value[j - 1])) @@ value[j - 1]
  IN value[Len(child.params)]

Instance(m, path, consts, widths) ==
  [what |-> m.name, path |-> path, consts |-> consts, widths |-> widths]
Signal(path, d, width, count) == [what |-> d.name, path |-> path, width |-> width, count |-> count]

RECURSIVE Contents(_, _, _, _)
Unfold(m, path, c, fuel) ==
  {Instance(m, path, c, [j \in DOMAIN m.ports |-> Extent(m.ports[j].range, c)])}
    \cup Contents(m.items, path, c, fuel)

Contents(items, path, c, fuel) ==
  IF fuel = 0 THEN {}
  ELSE {Signal(path, d, Extent(d.range, c), 1) :
          d \in {i \in Range(items) : i.item = "net" \/ (i.item = "var" /\ i.mem = NoRange)}}
       \cup {Signal(path, d, Extent(d.range, c), Extent(d.mem, c)) :
               d \in {i \in Range(items) : i.item = "var" /\ i.mem # NoRange}}
       \cup UNION {UNION {Contents(r.block.items, Append(path, r.segment), r.consts, fuel - 1) :
                            r \in Replicas(g, c)} :
                     g \in {i \in Range(items) : i.item \in {"genif", "gencase", "genfor"}}}
       \cup UNION {Unfold(modules[i.module], Append(path, <<i.name>>),
                          Actuals(modules[i.module], i, c), fuel - 1) :
                     i \in {i \in Range(items) : i.item = "inst" /\ i.module \in DOMAIN modules}}

NoOverrides == [params |-> <<>>]
Meaning == UNION {Unfold(modules[n], <<>>, Actuals(modules[n], NoOverrides, <<>>), MaxDepth) :
                    n \in DOMAIN modules \ Instantiated}

Init ==
  /\ key \in Keys
  /\ file = File(key)
  /\ modules = [n \in Names(file) |-> Named(file, n)]
  /\ expected = Meaning
  /\ verdict = "new"
  /\ why = [reason |-> "", generated |-> FALSE]
  /\ roots = DOMAIN modules \ Instantiated
  /\ stack = <<>> /\ nets = <<>> /\ drivers = <<>>
  /\ writes = {} /\ links = {} /\ built = {}

-----------------------------------------------------------------------------
(* Elaboration. *)

Gate ==
  /\ verdict = "new"
  /\ verdict' = IF validate THEN "running" ELSE "rejected"
  /\ UNCHANGED <<key, file, modules, expected, why, roots, stack, nets, drivers, writes, links, built>>

Source == <<key, file, modules, expected>>
Top == Head(stack)
Running(kind) == verdict = "running" /\ stack # <<>> /\ Top.frame = kind
At(kind) == Running("items") /\ Top.todo # <<>> /\ Head(Top.todo).item = kind

\* elaborate_module_items goes over the items five times.
Phases(items) ==
  Of(items, "net") \o Of(items, "var")
    \o SelectSeq(items, LAMBDA i : i.item \in {"proc", "assign"})
    \o SelectSeq(items, LAMBDA i : i.item \in {"genif", "gencase", "genfor"})
    \o Of(items, "inst")

\* The frame with its first item done.
Done(f) == [f EXCEPT !.todo = Tail(@)]
Continue(f) == stack' = <<Done(f)>> \o Tail(stack)

Panic(reason) ==
  /\ verdict' = "panicked"
  /\ why' = [reason |-> reason,
             generated |-> stack # <<>> /\ Top.frame = "items" /\ Top.generated]
  /\ UNCHANGED <<Source, roots, stack, nets, drivers, writes, links, built>>

\* add_implicit_net_driver
Implicit(net, kind) ==
  IF kind \in {"tri0", "tri1", "supply0", "supply1"}
  THEN <<[net |-> net, from |-> {}, as |-> kind]>> ELSE <<>>
new_port_storage(port, width) == <<[width |-> width, kind |-> port.kind]>>
add_port_bridge(source, destination) == <<[net |-> destination, from |-> {source}, as |-> "bridge"]>>

\* Mutant: an override is evaluated among the parameters of the child.
bind_module_parameters_Child(child, params, consts) ==
  LET Given(n) == {j \in DOMAIN params : Target(child.params, j, params[j].for) = n}
      Bind(c, p) == (p.name :> try_const_eval_with(
                       IF Given(p.name) = {} THEN p.default
                       ELSE params[CHOOSE j \in Given(p.name) : TRUE].value, c)) @@ c
  IN FoldLeft(Bind, <<>>, child.params)

bind_module_parameters(child, params, consts) ==
  LET Given(n) == {j \in DOMAIN params : Target(child.params, j, params[j].for) = n}
      Bind(c, p) == (p.name :> IF Given(p.name) = {} THEN try_const_eval_with(p.default, c)
                               ELSE try_const_eval_with(
                                      params[CHOOSE j \in Given(p.name) : TRUE].value, consts)) @@ c
  IN FoldLeft(Bind, <<>>, child.params)

BadParameters(child, params, consts, bound) ==
  LET target == [j \in DOMAIN params |-> Target(child.params, j, params[j].for)]
  IN IF ~(Range(target) \subseteq Names(child.params)) THEN "no parameter"
     ELSE IF \E j \in DOMAIN params : try_const_eval_with(params[j].value, consts) = NotConst THEN "not constant"
     ELSE IF ~IsInjective(target) THEN "overridden twice"
     ELSE IF NotConst \in Range(bound) THEN "not constant" ELSE ""

BadPorts(m, consts) ==
  LET j == SelectInSeq(m.ports, LAMBDA p : BadRange(p.range, consts) # "")
  IN IF j = 0 THEN "" ELSE BadRange(m.ports[j].range, consts)

\* The first panic of a list of checks, made in order.
First(reasons) ==
  LET j == SelectInSeq(reasons, LAMBDA r : r # "") IN IF j = 0 THEN "" ELSE reasons[j]

\* compile_continuous_delay
BadDelay(delay, consts) ==
  IF delay = NoExpr THEN ""
  ELSE First(<<BadConstant(delay, consts),
               IF ToInt(try_const_eval_with(delay, consts)) < 0
               THEN "negative delay" ELSE "">>)

\* elaborate_module_instance: bound maps the connected ports to [mode, net].
elaborate_module_instance(m, path, bound, consts, rest) ==
  LET port(j) == m.ports[j]
      width == [j \in DOMAIN m.ports |-> resolve_declared_width(port(j), consts)]
      alias == {j \in DOMAIN m.ports : port(j).name \in DOMAIN bound /\ bound[port(j).name].mode = "alias"}
      own == {j \in DOMAIN m.ports : j \notin alias}
      local == [j \in DOMAIN m.ports |-> IF j \in alias THEN bound[port(j).name].net
                                         ELSE Len(nets) + Cardinality({i \in own : i <= j})]
      storage(j) == IF j \in own THEN new_port_storage(port(j), width[j]) ELSE <<>>
      bridge(j) == LET b == bound[port(j).name]
                   IN IF port(j).name \notin DOMAIN bound THEN <<>>
                      ELSE CASE b.mode = "in" -> add_port_bridge(b.net, local[j])
                        [] b.mode = "out" -> add_port_bridge(local[j], b.net)
                        [] OTHER -> <<>>
      driver(j) == IF j \in own THEN Implicit(local[j], port(j).kind) \o bridge(j) ELSE <<>>
      entry(n) == LET j == SelectInSeq(m.ports, LAMBDA p : p.name = n)
                  IN [net |-> local[j], width |-> width[j], kind |-> port(j).kind]
  IN /\ nets' = nets \o FlattenSeq([j \in DOMAIN m.ports |-> storage(j)])
     /\ drivers' = drivers \o FlattenSeq([j \in DOMAIN m.ports |-> driver(j)])
     /\ links' = links \cup {[dir |-> port(j).dir, kind |-> port(j).kind, width |-> width[j],
                              up |-> bound[port(j).name].net, down |-> local[j]] :
                               j \in {j \in DOMAIN m.ports : port(j).name \in DOMAIN bound}}
     /\ stack' = <<[frame |-> "items", module |-> m.name, todo |-> Phases(m.items), path |-> path,
                    scope |-> [n \in Names(m.ports) |-> entry(n)],
                    drivable |-> Names(SelectSeq(m.ports,
                       LAMBDA p : p.kind # "var" /\ p.dir \in {"output", "inout"})),
                    consts |-> consts, generated |-> FALSE]>> \o rest
     /\ built' = built \cup {Instance(m, path, [n \in DOMAIN consts |-> ToInt(consts[n])], width)}
     /\ UNCHANGED <<Source, verdict, why, writes>>

\* The loop over the root modules, in the order of a hash map.
Root ==
  /\ verdict = "running" /\ stack = <<>>
  /\ \E n \in roots :
       LET m == modules[n]
           consts == bind_module_parameters(m, <<>>, <<>>)
           bad == First(<<BadParameters(m, <<>>, <<>>, consts), BadPorts(m, consts)>>)
       IN IF bad # "" THEN Panic(bad)
          ELSE elaborate_module_instance(m, <<>>, <<>>, consts, <<>>) /\ roots' = roots \ {n}

Finish ==
  /\ verdict = "running" /\ stack = <<>> /\ roots = {}
  /\ verdict' = "built"
  /\ UNCHANGED <<Source, why, roots, stack, nets, drivers, writes, links, built>>

\* ModuleItem::Net
Net ==
  /\ At("net")
  /\ LET f == Top
         d == Head(f.todo)
         bad == First(<<BadRange(d.range, f.consts), BadDelay(d.delay, f.consts)>>)
         width == resolve_declared_width(d, f.consts)
         id == Len(nets) + 1
     IN IF bad # "" THEN Panic(bad)
        ELSE /\ nets' = Append(nets, [width |-> width, kind |-> d.kind])
             /\ drivers' = drivers \o Implicit(id, d.kind)
             /\ Continue([f EXCEPT !.scope = (d.name :> [net |-> id, width |-> width, kind |-> d.kind]) @@ @,
                                   !.drivable = @ \cup {d.name}])
             /\ built' = built \cup {Signal(f.path, d, width, 1)}
             /\ UNCHANGED <<Source, verdict, why, roots, writes, links>>

\* ModuleItem::Var: a variable, or one net for each element of a fixed memory.
Var ==
  /\ At("var")
  /\ LET f == Top
         d == Head(f.todo)
         b == Bounds(d.mem, f.consts)
         count == IF d.mem = NoRange THEN 1 ELSE Distance(b[1], b[2]) + 1
         bad == First(<<BadRange(d.range, f.consts),
                        IF d.mem # NoRange /\ d.init # NoExpr THEN "memory initializer" ELSE "",
                        BadRange(d.mem, f.consts),
                        IF d.mem # NoRange /\ (b[1] < 0 \/ b[2] < 0) THEN "negative bound" ELSE "",
                        IF count > MaxElements THEN "memory size" ELSE "",
                        IF d.init # NoExpr /\ try_const_eval_with(d.init, f.consts) = NotConst
                        THEN "not constant" ELSE "">>)
         width == resolve_declared_width(d, f.consts)
     IN IF bad # "" THEN Panic(bad)
        ELSE /\ nets' = nets \o [j \in 1..count |-> [width |-> width, kind |-> "var"]]
             /\ Continue(IF d.mem # NoRange THEN f
                         ELSE [f EXCEPT !.scope =
                                 (d.name :> [net |-> Len(nets) + 1, width |-> width, kind |-> "var"]) @@ @])
             /\ built' = built \cup {Signal(f.path, d, width, count)}
             /\ UNCHANGED <<Source, verdict, why, roots, drivers, writes, links>>

\* gen_timing accepts one event only.
RECURSIVE Compiles(_)
Compiles(s) ==
  CASE s.s = "block" -> \A b \in Range(s.list) : Compiles(b)
    [] s.s = "delay" -> Compiles(s.body)
    [] s.s = "event" -> s.signals = 1 /\ Compiles(s.body)
    [] OTHER -> TRUE

\* ModuleItem::Always, ModuleItem::Initial
Procedure ==
  /\ At("proc")
  /\ LET f == Top
         body == Head(f.todo).body
     IN IF ~Compiles(body) THEN Panic("events")
        ELSE IF ~(Assigned(body) \subseteq DOMAIN f.scope) THEN Panic("unknown name")
        ELSE /\ writes' = writes \cup {f.scope[n].net : n \in Assigned(body)}
             /\ Continue(f)
             /\ UNCHANGED <<Source, verdict, why, roots, nets, drivers, links, built>>

RECURSIVE Refs(_)
Refs(e) == CASE e.e = "ref" -> {e.n} [] e.e = "bin" -> Refs(e.a) \cup Refs(e.b) [] OTHER -> {}

\* ModuleItem::ContinuousAssign; collect_net_reads gives the nets it waits for.
Assign ==
  /\ At("assign")
  /\ LET f == Top
         a == Head(f.todo)
         bad == First(<<IF a.lhs \notin f.drivable THEN "not a net" ELSE "",
                        BadDelay(a.delay, f.consts),
                        IF Refs(a.rhs) \subseteq DOMAIN f.scope \cup DOMAIN f.consts
                        THEN "" ELSE "unknown signal">>)
     IN IF bad # "" THEN Panic(bad)
        ELSE /\ drivers' = Append(drivers,
                  [net |-> f.scope[a.lhs].net, as |-> "assign",
                   from |-> {f.scope[n].net : n \in Refs(a.rhs) \cap DOMAIN f.scope}])
             /\ Continue(f)
             /\ UNCHANGED <<Source, verdict, why, roots, nets, writes, links, built>>

\* elaborate_generate_block: the block sees the scope it stands in.
Block(f, block, segment, consts) ==
  [f EXCEPT !.todo = Phases(block.items), !.path = Append(@, segment), !.consts = consts,
            !.generated = TRUE]

Enter(frames) ==
  /\ Len(frames) + Len(stack) <= MaxDepth + 1
  /\ stack' = frames \o Tail(stack)
  /\ UNCHANGED <<Source, verdict, why, roots, nets, drivers, writes, links, built>>

Choose(f, blocks) ==
  IF blocks = <<>> THEN Enter(<<Done(f)>>)
  ELSE IF Head(blocks).name = "" THEN Panic("unnamed block")
  ELSE Enter(<<Block(f, Head(blocks), <<Head(blocks).name>>, f.consts), Done(f)>>)

GenerateIf ==
  /\ At("genif")
  /\ LET f == Top
         g == Head(f.todo)
         bad == BadConstant(g.cond, f.consts)
         chosen == IF try_const_eval_with(g.cond, f.consts) > 0 THEN <<g.then>> ELSE g.else
     IN IF bad # "" THEN Panic(bad) ELSE Choose(f, chosen)

\* Labels are evaluated one after another, up to the first that matches.
GenerateCase ==
  /\ At("gencase")
  /\ LET f == Top
         g == Head(f.todo)
         selector == try_const_eval_with(g.selector, f.consts)
         arms == FlattenSeq([j \in DOMAIN g.items |->
                   [l \in DOMAIN g.items[j].labels |->
                     [value |-> try_const_eval_with(g.items[j].labels[l], f.consts),
                      block |-> g.items[j].block]]])
         hit == SelectInSeq(arms, LAMBDA a : BadValue(a.value) # "" \/ a.value = selector)
     IN IF BadValue(selector) # "" THEN Panic(BadValue(selector))
        ELSE IF hit = 0 THEN Choose(f, g.default)
        ELSE IF BadValue(arms[hit].value) # "" THEN Panic(BadValue(arms[hit].value))
        ELSE Choose(f, <<arms[hit].block>>)

GenerateFor ==
  /\ At("genfor")
  /\ LET f == Top
         g == Head(f.todo)
         bad == IF g.stepped # g.genvar THEN "stepped" ELSE BadConstant(g.initial, f.consts)
     IN IF bad # "" THEN Panic(bad)
        ELSE Enter(<<[frame |-> "for", g |-> g, f |-> f, next |-> "test", count |-> 0,
                      value |-> try_const_eval_with(g.initial, f.consts)], Done(f)>>)

\* One pass of the loop: the condition and the block, then the step.
ForTest ==
  /\ Running("for") /\ Top.next = "test"
  /\ LET t == Top
         consts == (t.g.genvar :> t.value) @@ t.f.consts
         cond == try_const_eval_with(t.g.cond, consts)
     IN IF BadValue(cond) # "" THEN Panic(BadValue(cond))
        ELSE IF cond = 0 THEN Enter(<<>>)
        ELSE IF t.g.block.name = "" THEN Panic("unnamed block")
        ELSE Enter(<<Block(t.f, t.g.block, <<t.g.block.name, ToInt(t.value)>>, consts),
                     [t EXCEPT !.next = "step"]>>)

ForStep ==
  /\ Running("for") /\ Top.next = "step"
  /\ LET t == Top
         value == try_const_eval_with(t.g.step, (t.g.genvar :> t.value) @@ t.f.consts)
         bad == First(<<BadValue(value), IF value = t.value THEN "no progress" ELSE "",
                        IF t.count = MaxIterations - 1 THEN "iterations" ELSE "">>)
     IN IF bad # "" THEN Panic(bad)
        ELSE Enter(<<[t EXCEPT !.next = "test", !.count = @ + 1, !.value = value]>>)

\* The panic over unequal widths; of two widths given by the types alone, where
\* the gate sees both, it is "scalar width".
WidthPanic(f, port, name) ==
  IF f.generated \/ HasRange(port.range) \/ HasRange(SignalDecl(modules[f.module], name).range)
  THEN "width" ELSE "scalar width"

\* bind_instance_ports, for one connection: the panic, and the mode otherwise.
BadConnection(f, child, consts, inst, j) ==
  LET c == inst.conns[j]
      n == Target(child.ports, j, c.for)
      port == Named(child.ports, n)
      actual == f.scope[c.actual.n]
  IN IF n \notin Names(child.ports) THEN "no port"
     ELSE IF c.actual.e # "ref" THEN "expression"
     ELSE IF c.actual.n \notin DOMAIN f.scope THEN "unknown signal"
     ELSE IF BadRange(port.range, consts) # "" THEN BadRange(port.range, consts)
     ELSE IF port_connection_mode(port, actual.kind) = "none" THEN "resolution"
     ELSE IF port.dir \in {"inout", "ref"} /\ actual.width # resolve_declared_width(port, consts)
          THEN WidthPanic(f, port, c.actual.n)
     ELSE ""

Binding(f, child, consts, inst, j) ==
  LET port == Named(child.ports, Target(child.ports, j, inst.conns[j].for))
      actual == f.scope[inst.conns[j].actual.n]
  IN [net |-> actual.net,
      mode |-> IF actual.width = resolve_declared_width(port, consts)
               THEN port_connection_mode(port, actual.kind)
               ELSE IF port.dir = "input" THEN "in" ELSE "out"]

\* ModuleItem::Instance; the last connection of a port is the one that stays.
Instantiate ==
  /\ At("inst") /\ Len(stack) < MaxDepth
  /\ LET f == Top
         inst == Head(f.todo)
         child == modules[inst.module]
         consts == bind_module_parameters(child, inst.params, f.consts)
         port == [j \in DOMAIN inst.conns |-> Target(child.ports, j, inst.conns[j].for)]
         Of_(n) == CHOOSE j \in DOMAIN port : port[j] = n /\ \A i \in DOMAIN port : port[i] = n => i <= j
         bound == [n \in Range(port) |-> Binding(f, child, consts, inst, Of_(n))]
         bad == IF inst.module \notin DOMAIN modules THEN "unknown module"
                ELSE First(<<BadParameters(child, inst.params, f.consts, consts)>>
                           \o [j \in DOMAIN inst.conns |-> BadConnection(f, child, consts, inst, j)]
                           \o <<BadPorts(child, consts)>>)
     IN IF bad # "" THEN Panic(bad)
        ELSE /\ elaborate_module_instance(child, Append(f.path, <<inst.name>>), bound, consts,
                                          <<Done(f)>> \o Tail(stack))
             /\ UNCHANGED roots

\* The end of elaborate_module_items.
Return ==
  /\ Running("items") /\ Top.todo = <<>>
  /\ Enter(<<>>)

Over == verdict \in {"rejected", "panicked", "built"} /\ UNCHANGED vars

Next == \/ Gate \/ Root \/ Finish \/ Net \/ Var \/ Procedure \/ Assign \/ GenerateIf \/ GenerateCase
        \/ GenerateFor \/ ForTest \/ ForStep \/ Instantiate \/ Return \/ Over

Spec == Init /\ [][Next]_vars

-----------------------------------------------------------------------------
(* Properties. *)

\* What the gate leaves to elaboration: the values of constants, the widths of
\* ranges, and the names that a procedure uses.
Unchecked == {"unknown bits", "width", "negative bound", "negative delay", "memory size",
              "no progress", "iterations", "unknown name"}

\* GateSound: a file that passes validate fails to elaborate only over the value of
\* a constant, the width of a range, a name in a procedure, or an item of a
\* generate block, whose instances, assignments and delays the gate does not look
\* at.  Everything else that would panic in lib.rs was rejected by conformance.rs,
\* which states the rules of parameters, ports, targets and delays a second time.
GateSound == verdict = "panicked" => why.reason \in Unchecked \/ why.generated

\* HierarchyBounded: no module is being elaborated inside itself; visit_module has
\* seen the instances of every generate block, taken or not, and the recursion
\* of elaborate_module_instance ends.
HierarchyBounded ==
  LET entered == SelectSeq(stack, LAMBDA f : f.frame = "items" /\ ~f.generated)
  IN \A i, j \in DOMAIN entered : i # j => entered[i].module # entered[j].module

\* What flows between the two ends of a port, other than by being one net.
Bridges(from, to) ==
  {j \in DOMAIN drivers : drivers[j].as = "bridge" /\ drivers[j].net = to /\ drivers[j].from = {from}}

\* BuiltAsDeclared: the instances, parameters, port widths, signals and memories
\* that elaboration built, through overrides, defaults, generate blocks and genvars,
\* are the ones the source declares.  A port is one net with its actual, of equal
\* width and (for a net port) equal kind, or is joined by bridges in the direction
\* of the port only; a pull or supply net has one implicit driver however many
\* ports collapse onto it.
BuiltAsDeclared ==
  verdict = "built" =>
    /\ built = expected
    /\ \A l \in links :
         IF l.up = l.down
         THEN nets[l.up].width = l.width /\ l.kind \in {"var", nets[l.up].kind}
         ELSE /\ Bridges(l.up, l.down) # {} <=> l.dir = "input"
              /\ Bridges(l.down, l.up) # {} <=> l.dir = "output"
    /\ \A n \in DOMAIN nets :
         Cardinality({j \in DOMAIN drivers : drivers[j].net = n /\ drivers[j].as = nets[n].kind})
           = Len(Implicit(n, nets[n].kind))
=============================================================================
