-------------------------------- MODULE Code --------------------------------
(***************************************************************************)
(* From a procedural statement to bytecode: lower_stmt of eevee-fe's       *)
(* lower.rs, gen_stmt and gen_expr of eevee-elab's lib.rs, ProgramBuilder  *)
(* of eevee-ir's inst.rs, and the instructions they emit, run by processes *)
(* of one kernel.  Init takes a program of the source language; what the   *)
(* bytecode displays is compared with a definition of the language that    *)
(* knows no registers, labels or jumps.                                    *)
(*                                                                         *)
(* A vector is a number below 4, or X; a queue is a handle to a length.    *)
(* Widths are the subject of module Vectors, the elements of queues of     *)
(* module Collections.                                                     *)
(***************************************************************************)
EXTENDS Integers, Sequences, FiniteSets, SequencesExt, TLC

CONSTANTS
  Keys,         \* names of the programs
  Program(_),   \* name -> [kind, body, params, default, func]
  Horizon,      \* time at which the simulation is stopped
  Fuel          \* bound on loop iterations; programs that need more are left out

ASSUME BoundAssumption == Horizon \in Nat /\ Fuel \in Nat

VARIABLES
  key,       \* the program
  expected,  \* what its source means: [out, net, sig]
  func,      \* the compiled function f
  procs,     \* processes: [prog, pc, regs, frames, given, pending, apply, watch]
  ready,     \* the active queue, the running process first
  parked,    \* waiting for a runtime change
  settling,  \* waiting for the NBA region
  delayed,   \* waiting for the next time
  net,       \* the net n
  nba,       \* values scheduled for n, in order
  store,     \* lengths of the queues made so far, by handle
  time,
  out        \* lines displayed

queues == <<ready, parked, settling, delayed>>
vars == <<key, expected, func, procs, queues, net, nba, store, time, out>>

X == -1
Locals == {"x", "y", "i", "q", "p", "d", "f"}

-----------------------------------------------------------------------------
(* Values. *)

Truthy(v) == v > 0
Operate(op, a, b) ==
  IF a = X \/ b = X THEN X
  ELSE CASE op = "+" -> (a + b) % 4
    [] op = "-" -> (a - b) % 4
    [] op = "<" -> IF a < b THEN 1 ELSE 0
    [] op = "==" -> IF a = b THEN 1 ELSE 0
BitOf(v, i) == (v \div 2^i) % 2
PutBit(v, i, b) == v + ((b % 2) - BitOf(v, i)) * 2^i
Merge(a, b) == IF a = b THEN a ELSE X

-----------------------------------------------------------------------------
(* lower_stmt.  Expressions are lowered as they stand. *)

NoExpr == [k |-> "none"]
Lit(v) == [k |-> "const", v |-> v]
Var(n) == [k |-> "ref", n |-> n]
Bin(op, a, b) == [k |-> "bin", op |-> op, a |-> a, b |-> b]
Null == [op |-> "Null"]

lvalue_read(lhs) ==
  IF lhs.index = NoExpr THEN Var(lhs.name) ELSE [k |-> "bit", n |-> lhs.name, i |-> lhs.index]

lower_compound_assign(lhs, op, operand) ==
  [op |-> "Blocking", lhs |-> lhs, rhs |-> Bin(op, lvalue_read(lhs), operand)]

lower_incdec(lhs, is_dec) == lower_compound_assign(lhs, IF is_dec THEN "-" ELSE "+", Lit(1))

RECURSIVE lower_stmt(_)

lower_all(list) == [j \in DOMAIN list |-> lower_stmt(list[j])]

\* lower_case: a default item may stand anywhere in the list, the last one counts.
lower_case(n) ==
  LET named == SelectSeq(n.items, LAMBDA item : item.values # <<>>)
      defaults == SelectSeq(n.items, LAMBDA item : item.values = <<>>)
  IN [op |-> "Case", expr |-> n.expr,
      items |-> [j \in DOMAIN named |->
                  [values |-> named[j].values, body |-> lower_stmt(named[j].body)]],
      default |-> IF defaults = <<>> THEN <<>>
                  ELSE <<lower_stmt(defaults[Len(defaults)].body)>>]

\* kParBlock: the declarations of a fork block run before it.
lower_par(n) ==
  LET isDecl(s) == s.tag = "decl"
      setup == SelectSeq(n.list, isDecl)
      fork == [op |-> "Fork", branches |-> lower_all(SelectSeq(n.list, LAMBDA s : ~isDecl(s))),
               join |-> n.join]
  IN IF setup = <<>> THEN fork ELSE [op |-> "Block", list |-> Append(lower_all(setup), fork)]

lower_stmt(n) ==
  CASE n.tag = "block" -> [op |-> "Block", list |-> lower_all(n.list)]
    [] n.tag = "decl" -> [op |-> "VarDecl", name |-> n.name, kind |-> n.kind, init |-> n.init]
    [] n.tag = "=" -> [op |-> "Blocking", lhs |-> n.lhs, rhs |-> n.rhs]
    [] n.tag = "<=" -> [op |-> "Nonblocking", lhs |-> n.lhs, rhs |-> n.rhs]
    [] n.tag = "++" -> lower_incdec(n.lhs, FALSE)
    [] n.tag = "--" -> lower_incdec(n.lhs, TRUE)
    [] n.tag = "op=" -> lower_compound_assign(n.lhs, n.op, n.rhs)
    [] n.tag = "if" -> [op |-> "If", cond |-> n.cond, then |-> lower_stmt(n.then),
                        else |-> lower_all(n.else)]
    [] n.tag = "case" -> lower_case(n)
    [] n.tag = "delay" -> [op |-> "Timed", control |-> "Delay", body |-> lower_stmt(n.body)]
    [] n.tag = "wait" -> [op |-> "Timed", control |-> "Wait", cond |-> n.cond,
                          body |-> lower_stmt(n.body)]
    [] n.tag = "@" -> [op |-> "Timed", control |-> "Event", name |-> n.name,
                       body |-> lower_stmt(n.body)]
    [] n.tag = "while" -> [op |-> "While", cond |-> n.cond, body |-> lower_stmt(n.body)]
    [] n.tag = "do" -> [op |-> "DoWhile", cond |-> n.cond, body |-> lower_stmt(n.body)]
    [] n.tag = "forever" -> [op |-> "While", cond |-> Lit(1), body |-> lower_stmt(n.body)]
    [] n.tag = "foreach" -> [op |-> "Foreach", coll |-> n.coll, index |-> n.index,
                             body |-> lower_stmt(n.body)]
    [] n.tag = "par" -> lower_par(n)
    [] n.tag = "show" -> [op |-> "SysCall", args |-> n.args]
    [] n.tag = "push" -> [op |-> "Push", coll |-> n.coll]
    [] n.tag = "return" -> [op |-> "Return", value |-> n.value]
    [] n.tag = "break" -> [op |-> "Break"]
    [] n.tag = "continue" -> [op |-> "Continue"]
    [] OTHER -> Null

-----------------------------------------------------------------------------
(* ProgramBuilder, with the CodeGen tables that gen_stmt threads through.  *)
(* A field "label" holds a label until build puts its address there.       *)

NewBuilder == [code |-> <<>>, labels |-> <<>>, nregs |-> 0, r |-> 0,
               locals |-> [n \in Locals |-> 0], loops |-> <<>>]

emit(b, inst) == [b EXCEPT !.code = Append(@, inst)]
new_reg(b) == [b EXCEPT !.nregs = @ + 1, !.r = b.nregs + 1]
new_labels(b, count) == [b EXCEPT !.labels = @ \o [j \in 1..count |-> 0]]
label(b, j) == Len(b.labels) + j          \* the j-th label that new_labels will make
bind(b, l) == [b EXCEPT !.labels[l] = Len(b.code) + 1]
jump(b, l) == emit(b, [op |-> "Jump", label |-> l])
branch(b, op, reg, l) == emit(b, [op |-> op, cond |-> reg, label |-> l])
push_loop(b, targets) == [b EXCEPT !.loops = Append(@, targets)]     \* <<break, continue>>
pop_loop(b) == [b EXCEPT !.loops = SubSeq(@, 1, Len(@) - 1)]
load_const(b, v) == LET c == new_reg(b) IN emit(c, [op |-> "LoadConst", dst |-> c.r, v |-> v])

build(b, nargs) ==
  [code |-> [j \in DOMAIN b.code |->
              IF "label" \in DOMAIN b.code[j] THEN [b.code[j] EXCEPT !.label = b.labels[@]]
              ELSE b.code[j]],
   nregs |-> b.nregs, nargs |-> nargs]

-----------------------------------------------------------------------------
(* gen_expr: the builder it returns has the result's register in r. *)

RECURSIVE gen_expr(_, _)

\* The registers of a list of expressions are collected left to right.
RECURSIVE gen_list(_, _, _)
gen_list(args, b, regs) ==
  IF args = <<>> THEN [b |-> b, regs |-> regs]
  ELSE LET c == gen_expr(Head(args), b) IN gen_list(Tail(args), c, Append(regs, c.r))

\* The value of the last expression goes to dst.
gen_move(v, dst) == emit(v, [op |-> "Mov", dst |-> dst, a |-> v.r])
gen_select(f, taken, dst) == emit(f, [op |-> "Select", dst |-> dst, a |-> taken, b |-> f.r])
gen_merge(e, t, dst) == gen_select(gen_expr(e.else, t), t.r, dst)

\* The condition is in c.r; when it is unknown both branches are evaluated and merged.
gen_branches(e, c) ==
  LET dst == c.nregs + 1
      known == c.nregs + 2
      whenTrue == label(c, 1)
      whenFalse == label(c, 2)
      done == label(c, 3)
      test == branch(new_reg(new_reg(new_labels(c, 3))), "BranchTrue", c.r, whenTrue)
      unknown == branch(emit(test, [op |-> "IsKnown", dst |-> known, a |-> c.r]),
                        "BranchTrue", known, whenFalse)
      merged == jump(gen_merge(e, gen_expr(e.then, unknown), dst), done)
      then == jump(gen_move(gen_expr(e.then, bind(merged, whenTrue)), dst), done)
      else == bind(gen_move(gen_expr(e.else, bind(then, whenFalse)), dst), done)
  IN [else EXCEPT !.r = dst]

gen_generic_conditional(e, b) == gen_branches(e, gen_expr(e.cond, b))

gen_expr(e, b) ==
  CASE e.k = "const" -> load_const(b, e.v)
    \* a local's register is its value, read in place
    [] e.k = "ref" /\ e.n # "n" -> [b EXCEPT !.r = b.locals[e.n]]
    [] e.k = "ref" /\ e.n = "n" ->
         LET c == new_reg(b) IN emit(c, [op |-> "NetRead", dst |-> c.r])
    [] e.k = "bin" ->
         LET l == gen_expr(e.a, b)
             m == gen_expr(e.b, l)
             d == new_reg(m)
         IN emit(d, [op |-> "Binary", fn |-> e.op, dst |-> d.r, a |-> l.r, b |-> m.r])
    [] e.k = "bit" ->
         LET base == gen_expr(Var(e.n), b)
             idx == gen_expr(e.i, base)
             d == new_reg(idx)
         IN emit(d, [op |-> "IndexGet", dst |-> d.r, a |-> base.r, b |-> idx.r])
    [] e.k = "cond" -> gen_generic_conditional(e, b)
    [] e.k = "size" ->
         LET d == new_reg(b) IN emit(d, [op |-> "Size", dst |-> d.r, a |-> b.locals[e.n]])
    [] e.k = "call" ->
         LET args == gen_list(e.args, b, <<>>)
             d == new_reg(args.b)
         IN emit(d, [op |-> "Call", args |-> args.regs, dst |-> d.r])

-----------------------------------------------------------------------------
(* gen_stmt, one operator per statement. *)

RECURSIVE gen_stmt(_, _)
RECURSIVE gen_all(_, _)
gen_all(list, b) == IF list = <<>> THEN b ELSE gen_all(Tail(list), gen_stmt(Head(list), b))

\* A declaration makes a new register and binds the name to it for the rest of the process.  A
\* variable or string gets its initial or default value, a collection or event new storage, and a
\* handle without an initial value nothing: its register is null when the frame is.
gen_var_decl(s, b) ==
  LET c == new_reg(b)
      d == [c EXCEPT !.locals[s.name] = c.r]
      init == IF s.init = NoExpr THEN load_const(d, 0) ELSE gen_expr(s.init, d)
  IN CASE s.kind = "queue" -> emit(d, [op |-> "NewQueue", dst |-> c.r])
       [] s.kind = "handle" /\ s.init = NoExpr -> d
       [] OTHER -> emit(init, [op |-> "Assign", dst |-> c.r, a |-> init.r])

gen_assign(name, src, nonblocking, b) ==
  IF name # "n" THEN emit(b, [op |-> IF nonblocking THEN "NbaAssign" ELSE "Assign",
                              dst |-> b.locals[name], a |-> src])
  ELSE emit(b, [op |-> IF nonblocking THEN "NbaWrite" ELSE "BlockingWrite", a |-> src])

\* gen_assign_lvalue: a bit of a net is written by writing back the whole net.
gen_assign_lvalue(lhs, src, nonblocking, b) ==
  IF lhs.index = NoExpr THEN gen_assign(lhs.name, src, nonblocking, b)
  ELSE LET cur == new_reg(b)
           idx == gen_expr(lhs.index, emit(cur, [op |-> "NetRead", dst |-> cur.r]))
           set == emit(idx, [op |-> "IndexSet", dst |-> cur.r, a |-> idx.r, b |-> src])
       IN gen_assign("n", cur.r, nonblocking, set)

\* Behind the then branch: the else branch, if there is one.
gen_else(s, t, else) ==
  IF s.else = <<>> THEN bind(t, else)
  ELSE bind(gen_all(s.else, bind(jump(new_labels(t, 1), label(t, 1)), else)), label(t, 1))

gen_then(s, c) ==
  gen_else(s, gen_stmt(s.then, branch(new_labels(c, 1), "BranchFalse", c.r, label(c, 1))), label(c, 1))

gen_if(s, b) == gen_then(s, gen_expr(s.cond, b))

gen_while(s, b) ==
  LET top == label(b, 1)
      done == label(b, 2)
      c == gen_expr(s.cond, bind(new_labels(b, 2), top))
      body == gen_stmt(s.body, push_loop(branch(c, "BranchFalse", c.r, done), <<done, top>>))
  IN bind(jump(pop_loop(body), top), done)

gen_do_while(s, b) ==
  LET top == label(b, 1)
      check == label(b, 2)
      done == label(b, 3)
      body == pop_loop(gen_stmt(s.body, push_loop(bind(new_labels(b, 3), top), <<done, check>>)))
      c == gen_expr(s.cond, bind(body, check))
  IN bind(branch(c, "BranchTrue", c.r, top), done)

\* The tests of a case, each a jump to its item.
RECURSIVE gen_tests(_, _, _, _)
gen_tests(values, selector, l, b) ==
  IF values = <<>> THEN b
  ELSE LET v == gen_expr(Head(values), b)
           eq == new_reg(v)
           test == emit(eq, [op |-> "Binary", fn |-> "==", dst |-> eq.r, a |-> selector, b |-> v.r])
       IN gen_tests(Tail(values), selector, l, branch(test, "BranchTrue", eq.r, l))

RECURSIVE gen_item_tests(_, _, _, _)
gen_item_tests(items, selector, l, b) ==
  IF items = <<>> THEN b
  ELSE gen_item_tests(Tail(items), selector, l + 1,
                      gen_tests(Head(items).values, selector, l, b))

\* An item ends with a jump behind the case.
gen_item_end(b, done) == jump(b, done)

RECURSIVE gen_items(_, _, _, _)
gen_items(items, l, done, b) ==
  IF items = <<>> THEN b
  ELSE gen_items(Tail(items), l + 1, done,
                 gen_item_end(gen_stmt(Head(items).body, bind(b, l)), done))

\* The selector is in sel.r.
gen_choice(s, sel) ==
  LET done == label(sel, 1)
      first == label(sel, 2)
      default == label(sel, 2 + Len(s.items))
      tests == gen_item_tests(s.items, sel.r, first,
                              new_labels(sel, 1 + Len(s.items) + Len(s.default)))
      items == gen_items(s.items, first, done,
                         jump(tests, IF s.default = <<>> THEN done ELSE default))
  IN bind(IF s.default = <<>> THEN items ELSE gen_all(s.default, bind(items, default)), done)

gen_case(s, b) == gen_choice(s, gen_expr(s.expr, b))

\* Behind a foreach its index name means again what it did before.
restore_index(b, name, reg) == [b EXCEPT !.locals[name] = reg]

\* Mutant: continue of a foreach goes to the test and not to the step.
foreach_targets_Stuck(done, check, advance) == <<done, check>>

foreach_targets(done, check, advance) == <<done, advance>>

gen_foreach(s, b) ==
  LET base == b.locals[s.coll]
      i == new_reg(b)
      has == new_reg([i EXCEPT !.locals[s.index] = i.r])
      method(c, op) == emit(c, [op |-> op, dst |-> has.r, base |-> base, index |-> i.r])
      check == label(b, 1)
      advance == label(b, 2)
      done == label(b, 3)
      b1 == bind(new_labels(method(has, "First"), 3), check)
      b2 == push_loop(branch(b1, "BranchFalse", has.r, done), foreach_targets(done, check, advance))
      b3 == bind(pop_loop(gen_stmt(s.body, b2)), advance)
      b4 == bind(jump(method(b3, "Next"), check), done)
  IN restore_index(b4, s.index, b.locals[s.index])

\* gen_timing: a delay, an event control on a local, or a wait that tests again when it is woken.
gen_timing(s, b) ==
  IF s.control = "Delay" THEN emit(b, [op |-> "Delay"])
  ELSE IF s.control = "Event" THEN emit(b, [op |-> "WaitChange", value |-> b.locals[s.name]])
  ELSE LET check == label(b, 1)
           done == label(b, 2)
           c == gen_expr(s.cond, bind(new_labels(b, 2), check))
           w == emit(branch(c, "BranchTrue", c.r, done), [op |-> "WaitRuntime"])
       IN bind(jump(w, check), done)

\* Every enclosing local is captured by the branch: child register -> parent register.
captures(b, bound) == [n \in bound |-> b.locals[n]]

\* gen_fork_branch: a program of its own, with its own registers and no enclosing loop.
gen_fork_branch(body, b) ==
  LET bound == {n \in Locals : b.locals[n] # 0}
      Rank(n) == Cardinality({m \in bound : b.locals[m] <= b.locals[n]})
      child == [NewBuilder EXCEPT !.nregs = Cardinality(bound),
                                  !.locals = [n \in Locals |-> IF n \in bound THEN Rank(n) ELSE 0]]
      taken == captures(b, bound)
  IN [prog |-> build(emit(gen_stmt(body, child), [op |-> "Finish"]), 0),
      captures |-> {<<Rank(n), taken[n]>> : n \in bound}]

\* break and continue jump to the innermost loop's targets.
gen_break(b) == jump(b, b.loops[Len(b.loops)][1])
gen_continue(b) == jump(b, b.loops[Len(b.loops)][2])

gen_stmt(s, b) ==
  CASE s.op = "Block" -> gen_all(s.list, b)
    [] s.op = "VarDecl" -> gen_var_decl(s, b)
    [] s.op = "Timed" -> gen_stmt(s.body, gen_timing(s, b))
    [] s.op = "Blocking" ->
         LET r == gen_expr(s.rhs, b) IN gen_assign_lvalue(s.lhs, r.r, FALSE, r)
    [] s.op = "Nonblocking" ->
         LET r == gen_expr(s.rhs, b) IN gen_assign_lvalue(s.lhs, r.r, TRUE, r)
    [] s.op = "If" -> gen_if(s, b)
    [] s.op = "While" -> gen_while(s, b)
    [] s.op = "DoWhile" -> gen_do_while(s, b)
    [] s.op = "Case" -> gen_case(s, b)
    [] s.op = "Foreach" -> gen_foreach(s, b)
    [] s.op = "SysCall" ->
         LET args == gen_list(s.args, b, <<>>)
         IN emit(args.b, [op |-> "Display", args |-> args.regs])
    [] s.op = "Push" -> emit(b, [op |-> "Push", base |-> b.locals[s.coll]])
    [] s.op = "Return" ->
         LET r == gen_expr(s.value, b) IN emit(r, [op |-> "Return", a |-> r.r])
    [] s.op = "Break" -> gen_break(b)
    [] s.op = "Continue" -> gen_continue(b)
    [] s.op = "Fork" ->
         emit(b, [op |-> "Fork", join |-> s.join,
                  branches |-> [j \in DOMAIN s.branches |-> gen_fork_branch(s.branches[j], b)]])
    [] s.op = "Null" -> b

\* gen_callable: the formals' registers come first, then the result variable, named like
\* the function; the last formal's default is evaluated unless the call supplied it.
gen_callable(p) ==
  LET formals == [NewBuilder EXCEPT !.nregs = Len(p.params),
                    !.locals = [n \in Locals |-> IF \E j \in DOMAIN p.params : p.params[j] = n
                                                 THEN CHOOSE j \in DOMAIN p.params : p.params[j] = n
                                                 ELSE 0]]
      last == Len(p.params)
      supplied == label(formals, 1)
      b1 == emit(new_labels(formals, 1), [op |-> "BranchArgProvided", arg |-> last, label |-> supplied])
      v == gen_expr(p.default, b1)
      ret == load_const(bind(emit(v, [op |-> "Assign", dst |-> last, a |-> v.r]), supplied), 0)
      body == gen_stmt(lower_stmt(p.func), [ret EXCEPT !.locals["f"] = ret.r])
  IN build(emit(body, [op |-> "Return", a |-> ret.r]), last)

gen_initial(p) == build(emit(gen_stmt(lower_stmt(p.body), NewBuilder), [op |-> "Finish"]), 0)

gen_always(p) == build(jump(gen_stmt(lower_stmt(p.body), bind(new_labels(NewBuilder, 1), 1)), 1), 0)

-----------------------------------------------------------------------------
(* The language without registers: statements change variables, display    *)
(* lines and leave a signal.  Declarations are in force until the end of   *)
(* their block, a branch of a fork works on its own copy of the variables. *)
(* The process that runs the body is last in every time slot: a branch     *)
(* runs, where it is forked, until it ends or reaches a delay, and the     *)
(* rest of it, kept in "late", at the beginning of the next slot.  (Here   *)
(* branches wait for nothing but time, outside loops, and do not fork.)    *)

RECURSIVE Exec(_, _)
RECURSIVE ExecAll(_, _)
RECURSIVE Eval(_, _)

Eval(e, m) ==
  CASE e.k = "const" -> e.v
    [] e.k = "ref" -> IF e.n = "n" THEN m.net ELSE m.vars[e.n]
    [] e.k = "bin" -> Operate(e.op, Eval(e.a, m), Eval(e.b, m))
    [] e.k = "size" -> m.store[m.vars[e.n]]
    [] e.k = "bit" -> BitOf(Eval(Var(e.n), m), Eval(e.i, m))
    [] e.k = "cond" -> LET c == Eval(e.cond, m)
                       IN IF c = X THEN Merge(Eval(e.then, m), Eval(e.else, m))
                          ELSE Eval(IF c > 0 THEN e.then ELSE e.else, m)
    [] e.k = "call" ->
         LET p == m.program
             first == Eval(e.args[1], m)
             bound == [m EXCEPT !.vars = [n \in Locals |-> IF n = p.params[1] THEN first ELSE 0]]
             second == IF Len(e.args) = 2 THEN Eval(e.args[2], m) ELSE Eval(p.default, bound)
             done == Exec(p.func, [bound EXCEPT !.vars[p.params[2]] = second])
         IN IF done.sig = "return" THEN done.ret ELSE done.vars["f"]

\* The updates of the NBA region, in order: of one bit, or of the whole net (bit = X).
RECURSIVE ApplyNba(_)
ApplyNba(m) ==
  IF m.nba = <<>> THEN m
  ELSE LET u == m.nba[1]
       IN ApplyNba([m EXCEPT !.net = IF u.bit = X THEN u.v ELSE PutBit(@, u.bit, u.v),
                             !.nba = Tail(@)])

\* Run branches, in order; one that reaches a delay is late.
RECURSIVE RunBranches(_, _)
RunBranches(list, m) ==
  IF list = <<>> THEN m
  ELSE LET child == Exec(list[1].body, [m EXCEPT !.vars = list[1].vars, !.sig = "go", !.branch = TRUE])
           rest == [list[1] EXCEPT !.body = child.rest.body, !.vars = child.rest.vars]
       IN RunBranches(Tail(list),
                      [child EXCEPT !.vars = m.vars, !.sig = m.sig, !.branch = FALSE,
                                    !.late = IF child.sig = "late" THEN Append(@, rest) ELSE @])

\* The end of a time slot, and the branches that were late at the beginning of the next one.
NextSlot(m) ==
  IF m.time = Horizon THEN [ApplyNba(m) EXCEPT !.sig = "stop"]
  ELSE RunBranches(m.late, [ApplyNba(m) EXCEPT !.time = @ + 1, !.late = <<>>])

\* A delay of a branch ends its turn.
ExecDelay(s, m) ==
  IF m.branch THEN [m EXCEPT !.sig = "late", !.rest = [body |-> s.body, vars |-> m.vars]]
  ELSE Exec(s.body, NextSlot(m))

\* join: of the fork's own branches at most "left" may be late.
RECURSIVE Join(_, _, _)
Join(fork, left, m) ==
  IF m.sig # "go" \/ Len(SelectSeq(m.late, LAMBDA c : c.fork = fork)) <= left THEN m
  ELSE Join(fork, left, NextSlot(m))

\* wait: when nothing is left to do in this slot, the NBA region and then later slots may help.
RECURSIVE ExecWait(_, _)
ExecWait(cond, m) ==
  CASE m.sig # "go" \/ Truthy(Eval(cond, m)) -> m
    [] m.sig = "go" /\ ~Truthy(Eval(cond, m)) /\ m.nba # <<>> -> ExecWait(cond, ApplyNba(m))
    [] OTHER -> IF m.late = <<>> THEN [m EXCEPT !.sig = "stuck"] ELSE ExecWait(cond, NextSlot(m))

\* @ of a variable with an update pending: behind the NBA region, with all updates made.
ExecEvent(m) ==
  [ApplyNba(m) EXCEPT !.vars = [v \in Locals |-> IF v \in DOMAIN m.pending THEN m.pending[v] ELSE @[v]],
                      !.pending = <<>>]

\* What is late when the body has ended still runs.
RECURSIVE Drain(_)
Drain(m) == IF m.late = <<>> \/ m.time = Horizon THEN ApplyNba(m) ELSE Drain(NextSlot(m))

\* One more iteration of a loop: how its body ended decides.
RECURSIVE Loop(_, _, _)
Loop(s, m, tested) ==
  LET leave(n) == [n EXCEPT !.sig = IF @ \in {"break", "continue"} THEN "go" ELSE @]
      more == tested \/ Truthy(Eval(s.cond, m))
      n == Exec(s.body, [m EXCEPT !.fuel = @ - 1])
  IN CASE m.fuel = 0 -> [m EXCEPT !.sig = "fuel"]
       [] m.fuel > 0 /\ ~more -> m
       [] OTHER -> IF n.sig \in {"go", "continue"} THEN Loop(s, leave(n), s.tag = "forever")
                   ELSE leave(n)

RECURSIVE LoopOver(_, _, _)
LoopOver(s, m, i) ==
  LET n == Exec(s.body, [m EXCEPT !.vars[s.index] = i])
  IN IF i >= m.store[m.vars[s.coll]] THEN m
     ELSE IF n.sig \in {"go", "continue"} THEN LoopOver(s, [n EXCEPT !.sig = "go"], i + 1)
     ELSE [n EXCEPT !.sig = IF @ = "break" THEN "go" ELSE @]

\* The first item with a matching value, else the default.
Chosen(s, m) ==
  LET v == Eval(s.expr, m)
      match == {j \in DOMAIN s.items : \E k \in DOMAIN s.items[j].values :
                  Operate("==", v, Eval(s.items[j].values[k], m)) = 1}
      default == {j \in DOMAIN s.items : s.items[j].values = <<>>}
      Least(S) == CHOOSE j \in S : \A k \in S : j <= k
  IN IF match # {} THEN <<s.items[Least(match)].body>>
     ELSE IF default # {} THEN <<s.items[Least(default)].body>> ELSE <<>>

Store(lhs, v, m) ==
  IF lhs.name # "n" THEN [m EXCEPT !.vars[lhs.name] = v]
  ELSE IF lhs.index = NoExpr THEN [m EXCEPT !.net = v]
  ELSE [m EXCEPT !.net = PutBit(@, Eval(lhs.index, m), v)]

Declared(list) == {list[j].name : j \in {k \in DOMAIN list : list[k].tag = "decl"}}

Exec(s, m) ==
  CASE m.sig # "go" -> m
    [] m.sig = "go" /\ s.tag = "block" ->
         LET n == ExecAll(s.list, m)
         IN [n EXCEPT !.vars = [v \in Locals |-> IF v \in Declared(s.list) THEN m.vars[v] ELSE @[v]]]
    [] m.sig = "go" /\ s.tag = "decl" ->
         IF s.kind = "queue"
         THEN [m EXCEPT !.store = Append(@, 0), !.vars[s.name] = Len(m.store) + 1]
         ELSE [m EXCEPT !.vars[s.name] = IF s.init = NoExpr THEN 0 ELSE Eval(s.init, m)]
    [] m.sig = "go" /\ s.tag = "=" -> Store(s.lhs, Eval(s.rhs, m), m)
    [] m.sig = "go" /\ s.tag = "<=" /\ s.lhs.name # "n" ->
         [m EXCEPT !.pending = (s.lhs.name :> Eval(s.rhs, m)) @@ @]
    [] m.sig = "go" /\ s.tag = "<=" /\ s.lhs.name = "n" ->
         [m EXCEPT !.nba = Append(@, [bit |-> IF s.lhs.index = NoExpr THEN X ELSE Eval(s.lhs.index, m),
                                      v |-> Eval(s.rhs, m)])]
    [] m.sig = "go" /\ s.tag \in {"++", "--"} ->
         Store(s.lhs, Operate(IF s.tag = "++" THEN "+" ELSE "-", Eval(lvalue_read(s.lhs), m), 1), m)
    [] m.sig = "go" /\ s.tag = "op=" ->
         Store(s.lhs, Operate(s.op, Eval(lvalue_read(s.lhs), m), Eval(s.rhs, m)), m)
    [] m.sig = "go" /\ s.tag = "if" ->
         IF Truthy(Eval(s.cond, m)) THEN Exec(s.then, m) ELSE ExecAll(s.else, m)
    [] m.sig = "go" /\ s.tag = "case" -> ExecAll(Chosen(s, m), m)
    [] m.sig = "go" /\ s.tag = "delay" -> ExecDelay(s, m)
    [] m.sig = "go" /\ s.tag = "wait" -> Exec(s.body, ExecWait(s.cond, m))
    [] m.sig = "go" /\ s.tag = "@" -> Exec(s.body, ExecEvent(m))
    [] m.sig = "go" /\ s.tag = "while" -> Loop(s, m, FALSE)
    [] m.sig = "go" /\ s.tag \in {"do", "forever"} -> Loop(s, m, TRUE)
    [] m.sig = "go" /\ s.tag = "foreach" ->
         [LoopOver(s, m, 0) EXCEPT !.vars[s.index] = m.vars[s.index]]
    [] m.sig = "go" /\ s.tag = "par" ->
         LET decls == ExecAll(SelectSeq(s.list, LAMBDA t : t.tag = "decl"), m)
             branches == SelectSeq(s.list, LAMBDA t : t.tag # "decl")
             fork == decls.forks + 1
             ran == RunBranches([j \in DOMAIN branches |-> [fork |-> fork, body |-> branches[j],
                                                            vars |-> decls.vars]],
                                [decls EXCEPT !.forks = fork])
             left == CASE s.join = "all" -> 0
                       [] s.join = "any" -> IF branches = <<>> THEN 0 ELSE Len(branches) - 1
                       [] s.join = "none" -> Len(branches)
             run == Join(fork, left, ran)
         IN [run EXCEPT !.vars = [v \in Locals |-> IF v \in Declared(s.list) THEN m.vars[v] ELSE @[v]]]
    [] m.sig = "go" /\ s.tag = "show" ->
         [m EXCEPT !.out = Append(@, [j \in DOMAIN s.args |-> Eval(s.args[j], m)])]
    [] m.sig = "go" /\ s.tag = "push" -> [m EXCEPT !.store[m.vars[s.coll]] = @ + 1]
    [] m.sig = "go" /\ s.tag = "return" -> [m EXCEPT !.sig = "return", !.ret = Eval(s.value, m)]
    [] m.sig = "go" /\ s.tag \in {"break", "continue"} -> [m EXCEPT !.sig = s.tag]
    [] OTHER -> m

\* What follows a delay of a branch in its block belongs to the rest of the branch.
ExecAll(list, m) ==
  IF list = <<>> \/ m.sig # "go" THEN m
  ELSE LET n == Exec(Head(list), m)
       IN IF n.sig # "late" THEN ExecAll(Tail(list), n)
          ELSE [n EXCEPT !.rest.body = [tag |-> "block", list |-> <<@>> \o Tail(list)]]

\* What program p means: an initial block ends, an always block starts over.
Meaning(p) ==
  LET start == [vars |-> [n \in Locals |-> 0], pending |-> <<>>, net |-> 0, nba |-> <<>>,
                store |-> <<>>, out |-> <<>>, sig |-> "go", ret |-> 0, time |-> 0, fuel |-> Fuel,
                late |-> <<>>, rest |-> Null, branch |-> FALSE, forks |-> 0, program |-> p]
      end == Exec(IF p.kind = "always" THEN [tag |-> "forever", body |-> p.body] ELSE p.body, start)
      last == Drain(end)
  IN [out |-> last.out, net |-> last.net, sig |-> end.sig]

-----------------------------------------------------------------------------
(* The machine: Interp::run, one instruction at a time. *)

NoWatch == [remaining |-> {}, any |-> FALSE]
Process(prog, regs) ==
  [prog |-> prog, pc |-> 1, regs |-> regs, frames |-> <<>>, given |-> 0,
   pending |-> <<>>, apply |-> FALSE, watch |-> NoWatch]

Unset(n) == [r \in 1..n |-> 0]

Init ==
  /\ key \in Keys
  /\ expected = Meaning(Program(key))
  /\ expected.sig # "fuel"
  /\ LET p == Program(key)
         main == IF p.kind = "always" THEN gen_always(p) ELSE gen_initial(p)
     IN procs = <<Process(main, Unset(main.nregs))>> /\ func = gen_callable(p)
  /\ ready = <<1>> /\ parked = <<>> /\ settling = <<>> /\ delayed = <<>>
  /\ net = 0 /\ nba = <<>> /\ store = <<>> /\ time = 0 /\ out = <<>>

self == ready[1]
me == procs[self]
inst == me.prog.code[me.pc]
Running(ops) == ready # <<>> /\ ~me.apply /\ inst.op \in ops
reg(r) == me.regs[r]
Put(r, v) == procs' = [procs EXCEPT ![self].regs[r] = v, ![self].pc = @ + 1]
Goto(pc) == procs' = [procs EXCEPT ![self].pc = pc]

\* notify_runtime_change: whoever waits for a change tests its condition again.
Notify == ready' = ready \o parked /\ parked' = <<>> /\ UNCHANGED <<settling, delayed>>

\* Instructions that only compute.
Result ==
  CASE inst.op = "LoadConst" -> inst.v
    [] inst.op \in {"Mov", "Assign"} -> reg(inst.a)
    [] inst.op = "NetRead" -> net
    [] inst.op = "Binary" -> Operate(inst.fn, reg(inst.a), reg(inst.b))
    [] inst.op = "IndexGet" -> BitOf(reg(inst.a), reg(inst.b))
    [] inst.op = "IsKnown" -> IF reg(inst.a) = X THEN 0 ELSE 1
    [] inst.op = "Select" -> Merge(reg(inst.a), reg(inst.b))
    [] inst.op = "Size" -> store[reg(inst.a)]

Compute ==
  /\ Running({"LoadConst", "Mov", "Assign", "NetRead", "Binary", "IndexGet", "IsKnown", "Select", "Size"})
  /\ Put(inst.dst, Result)
  /\ UNCHANGED <<key, expected, func, queues, net, nba, store, time, out>>

\* A bit of a vector is set when the index is in range, and only then is it a change.
IndexSet ==
  /\ Running({"IndexSet"})
  /\ IF reg(inst.a) \in 0..1
     THEN Put(inst.dst, PutBit(reg(inst.dst), reg(inst.a), reg(inst.b))) /\ Notify
     ELSE Goto(me.pc + 1) /\ UNCHANGED queues
  /\ UNCHANGED <<key, expected, func, net, nba, store, time, out>>

NewQueue ==
  /\ Running({"NewQueue"})
  /\ store' = Append(store, 0)
  /\ Put(inst.dst, Len(store'))
  /\ UNCHANGED <<key, expected, func, queues, net, nba, time, out>>

\* CollMethod push_back: every process with a handle to the queue sees it.
Push ==
  /\ Running({"Push"})
  /\ store' = [store EXCEPT ![reg(inst.base)] = @ + 1]
  /\ Goto(me.pc + 1)
  /\ Notify
  /\ UNCHANGED <<key, expected, func, net, nba, time, out>>

\* The last value scheduled for a register is the one it will get.
NbaAssign ==
  /\ Running({"NbaAssign"})
  /\ procs' = [procs EXCEPT ![self].pending = (inst.dst :> reg(inst.a)) @@ @, ![self].pc = @ + 1]
  /\ UNCHANGED <<key, expected, func, queues, net, nba, store, time, out>>

\* IrProcess::run begins with the pending updates when the process comes from the NBA region.
ApplyPending ==
  /\ ready # <<>> /\ me.apply
  /\ procs' = [procs EXCEPT ![self].apply = FALSE, ![self].pending = <<>>,
                 ![self].regs = [r \in DOMAIN @ |-> IF r \in DOMAIN me.pending THEN me.pending[r] ELSE @[r]]]
  /\ Notify
  /\ UNCHANGED <<key, expected, func, net, nba, store, time, out>>

\* CollMethod first and next: the index moves only when there is an element there.
Iterate ==
  /\ Running({"First", "Next"})
  /\ LET to == IF inst.op = "First" THEN 0 ELSE reg(inst.index) + 1
         has == to < store[reg(inst.base)]
     IN procs' = [procs EXCEPT ![self].regs[inst.dst] = IF has THEN 1 ELSE 0,
                               ![self].regs[inst.index] = IF has THEN to ELSE @,
                               ![self].pc = @ + 1]
  /\ UNCHANGED <<key, expected, func, queues, net, nba, store, time, out>>

Branch ==
  /\ Running({"Jump", "BranchTrue", "BranchFalse", "BranchArgProvided"})
  /\ Goto(IF \/ inst.op = "Jump"
             \/ inst.op = "BranchTrue" /\ Truthy(reg(inst.cond))
             \/ inst.op = "BranchFalse" /\ ~Truthy(reg(inst.cond))
             \/ inst.op = "BranchArgProvided" /\ inst.arg <= me.given
          THEN inst.label ELSE me.pc + 1)
  /\ UNCHANGED <<key, expected, func, queues, net, nba, store, time, out>>

Display ==
  /\ Running({"Display"})
  /\ out' = Append(out, [j \in DOMAIN inst.args |-> reg(inst.args[j])])
  /\ Goto(me.pc + 1)
  /\ UNCHANGED <<key, expected, func, queues, net, nba, store, time>>

\* A new frame: the arguments in its first registers.
Call ==
  /\ Running({"Call"})
  /\ procs' = [procs EXCEPT ![self].prog = func, ![self].pc = 1, ![self].given = Len(inst.args),
                 ![self].regs = [r \in 1..func.nregs |->
                                  IF r <= Len(inst.args) THEN reg(inst.args[r]) ELSE 0],
                 ![self].frames = Append(@, [prog |-> me.prog, pc |-> me.pc + 1, regs |-> me.regs,
                                             given |-> me.given, dst |-> inst.dst,
                                             pending |-> me.pending]),
                 ![self].pending = <<>>]
  /\ UNCHANGED <<key, expected, func, queues, net, nba, store, time, out>>

Return ==
  /\ Running({"Return"})
  /\ LET caller == me.frames[Len(me.frames)]
     IN procs' = [procs EXCEPT ![self].prog = caller.prog, ![self].pc = caller.pc,
                    ![self].given = caller.given, ![self].pending = caller.pending,
                    ![self].regs = [caller.regs EXCEPT ![caller.dst] = reg(inst.a)],
                    ![self].frames = SubSeq(@, 1, Len(@) - 1)]
  /\ UNCHANGED <<key, expected, func, queues, net, nba, store, time, out>>

\* write_net: a change wakes every process that waits for a runtime change.
BlockingWrite ==
  /\ Running({"BlockingWrite"})
  /\ net' = reg(inst.a)
  /\ IF net' # net THEN Notify ELSE UNCHANGED queues
  /\ Goto(me.pc + 1)
  /\ UNCHANGED <<key, expected, func, nba, store, time, out>>

NbaWrite ==
  /\ Running({"NbaWrite"})
  /\ nba' = Append(nba, reg(inst.a))
  /\ Goto(me.pc + 1)
  /\ UNCHANGED <<key, expected, func, queues, net, store, time, out>>

\* Mutant: the parent of a join_none goes to the queue before its children.
Respawn_First(parent, ids) == parent \o ids

\* JoinWatch: the parent waits for the branches of this fork.
Watch(ids, join) == [remaining |-> ids, any |-> join = "any"]

\* The children, and a parent that does not wait for them, at the end of the active queue.
Respawn(parent, ids) == ids \o parent

\* spawn_fork: the children start with the registers they captured.
Fork ==
  /\ Running({"Fork"})
  /\ LET ids == [j \in DOMAIN inst.branches |-> Len(procs) + j]
         waits == inst.join # "none" /\ ids # <<>>
         Child(br) == LET Seed(r) == {c[2] : c \in {d \in br.captures : d[1] = r}}
                      IN Process(br.prog, [r \in 1..br.prog.nregs |->
                                            IF Seed(r) = {} THEN 0 ELSE reg(CHOOSE p \in Seed(r) : TRUE)])
     IN /\ procs' = [procs EXCEPT ![self].pc = @ + 1,
                       ![self].watch = IF waits THEN Watch(Range(ids), inst.join) ELSE NoWatch]
                    \o [j \in DOMAIN inst.branches |-> Child(inst.branches[j])]
        /\ ready' = Tail(ready) \o Respawn(IF waits THEN <<>> ELSE <<self>>, ids)
  /\ UNCHANGED <<key, expected, func, parked, settling, delayed, net, nba, store, time, out>>

\* A delay, a wait for a change, or @ of a local: for the NBA region if an update of it is pending.
Block ==
  /\ Running({"Delay", "WaitRuntime", "WaitChange"})
  /\ LET nbaWait == inst.op = "WaitChange" /\ inst.value \in DOMAIN me.pending
     IN /\ procs' = [procs EXCEPT ![self].pc = @ + 1, ![self].apply = nbaWait]
        /\ ready' = Tail(ready)
        /\ delayed' = IF inst.op = "Delay" THEN Append(delayed, self) ELSE delayed
        /\ settling' = IF nbaWait THEN Append(settling, self) ELSE settling
        /\ parked' = IF inst.op # "Delay" /\ ~nbaWait THEN Append(parked, self) ELSE parked
  /\ UNCHANGED <<key, expected, func, net, nba, store, time, out>>

\* The children of its fork that a parent still waits for when a process has ended.
Left(p, child) == procs[p].watch.remaining \ {child}

\* notify_finished: the last child watched, or the first of a join_any, sends the parent to the queue.
Finish ==
  /\ Running({"Finish"})
  /\ LET freed == {p \in DOMAIN procs : /\ Left(p, self) # procs[p].watch.remaining
                                        /\ procs[p].watch.any \/ Left(p, self) = {}}
     IN /\ procs' = [p \in DOMAIN procs |->
                      IF p \in freed THEN [procs[p] EXCEPT !.watch = NoWatch]
                      ELSE [procs[p] EXCEPT !.watch.remaining = Left(p, self)]]
        /\ ready' = Tail(ready) \o SetToSeq(freed)
  /\ UNCHANGED <<key, expected, func, parked, settling, delayed, net, nba, store, time, out>>

\* The NBA region, when nothing is active: every scheduled value is written, in order.
NbaRegion ==
  /\ ready = <<>> /\ (nba # <<>> \/ settling # <<>>)
  /\ nba' = <<>> /\ net' = IF nba = <<>> THEN net ELSE nba[Len(nba)]
  /\ LET changed == \E j \in DOMAIN nba : nba[j] # (IF j = 1 THEN net ELSE nba[j - 1])
     IN /\ ready' = (IF changed THEN parked ELSE <<>>) \o settling
        /\ parked' = IF changed THEN <<>> ELSE parked
  /\ settling' = <<>>
  /\ UNCHANGED <<key, expected, func, procs, delayed, store, time, out>>

Advance ==
  /\ ready = <<>> /\ nba = <<>> /\ settling = <<>> /\ delayed # <<>> /\ time < Horizon
  /\ time' = time + 1 /\ ready' = delayed /\ delayed' = <<>>
  /\ UNCHANGED <<key, expected, func, procs, parked, settling, net, nba, store, out>>

Halted == ready = <<>> /\ nba = <<>> /\ settling = <<>> /\ (delayed = <<>> \/ time = Horizon)

Next ==
  \/ Compute \/ IndexSet \/ NewQueue \/ Push \/ Iterate \/ Branch \/ Display \/ Call \/ Return
  \/ BlockingWrite \/ NbaWrite \/ NbaAssign \/ ApplyPending
  \/ Fork \/ Block \/ Finish \/ NbaRegion \/ Advance

\* A process runs until it blocks and the kernel until nothing is left: both are plain loops.
Spec == Init /\ [][Next]_vars /\ WF_vars(Next)

-----------------------------------------------------------------------------
(* Properties. *)

\* What the bytecode displays is at every moment a beginning of what the source program displays,
\* and all of it, with the net as the source leaves it, when the simulation ends: labels, registers,
\* captures and defaults never show, a branch of a fork runs before its parent goes on, a join counts
\* the branches of its own fork, and no wait misses the write it waits for (lower_stmt, gen_stmt,
\* gen_expr, gen_fork_branch, gen_callable, spawn_fork, notify_finished, notify_runtime_change).
RunsAsWritten ==
  /\ Len(out) <= Len(expected.out) /\ \A j \in DOMAIN out : out[j] = expected.out[j]
  /\ Halted => Len(out) = Len(expected.out) /\ net = expected.net

\* A program does end, no loop of the bytecode misses its exit, and one whose source ends leaves
\* no process behind at a join or a wait (gen_while, gen_foreach, gen_timing, notify_finished).
Ends ==
  <>(Halted /\ (expected.sig = "go" => parked = <<>> /\ \A p \in DOMAIN procs : procs[p].watch = NoWatch))

\* Bit writes as README.md describes them: at the end, every bit holds what was last written to it.
BitWritesKept == Halted => net = expected.net
=============================================================================
