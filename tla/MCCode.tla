------------------------------- MODULE MCCode -------------------------------
(***************************************************************************)
(* Programs for Code: every kind of loop around every pair of statements   *)
(* of a list that has each construct the code generator knows.             *)
(***************************************************************************)
EXTENDS Code

CONSTANT Statements, Followers

Plain(n) == [name |-> n, index |-> NoExpr]
BitAt(i) == [name |-> "n", index |-> i]
Block_(list) == [tag |-> "block", list |-> list]
Decl(n, init) == [tag |-> "decl", name |-> n, kind |-> "var", init |-> init]
Set_(lhs, e) == [tag |-> "=", lhs |-> lhs, rhs |-> e]
Nba(lhs, e) == [tag |-> "<=", lhs |-> lhs, rhs |-> e]
Show(args) == [tag |-> "show", args |-> args]
If_(c, s) == [tag |-> "if", cond |-> c, then |-> s, else |-> <<>>]
Is(n, v) == Bin("==", Var(n), Lit(v))
Inc(n) == [tag |-> "++", lhs |-> Plain(n)]
Par(list, join) == [tag |-> "par", list |-> list, join |-> join]
Cond_(c, t, e) == [k |-> "cond", cond |-> c, then |-> t, else |-> e]
Foreach(i, s) == [tag |-> "foreach", coll |-> "q", index |-> i, body |-> s]
Delay_(s) == [tag |-> "delay", body |-> s]
Wait_(c, s) == [tag |-> "wait", cond |-> c, body |-> s]
Push_ == [tag |-> "push", coll |-> "q"]
Size_ == [k |-> "size", n |-> "q"]
Item(values, s) == [values |-> values, body |-> s]

Stmt(a) ==
  CASE a = "show" -> Show(<<Var("x"), Var("y")>>)
    [] a = "break" -> If_(Is("x", 2), [tag |-> "break"])
    [] a = "continue" -> If_(Is("x", 2), [tag |-> "continue"])
    [] a = "if" -> [tag |-> "if", cond |-> Is("x", 1), then |-> Inc("y"),
                    else |-> <<[tag |-> "--", lhs |-> Plain("y")]>>]
    [] a = "case" -> [tag |-> "case", expr |-> Var("x"),
                      items |-> <<Item(<<Lit(1)>>, Show(<<Lit(1)>>)), Item(<<>>, Show(<<Lit(0)>>)),
                                  Item(<<Lit(3), Lit(2)>>, Block_(<<Inc("y"), Show(<<Lit(2)>>)>>))>>]
    [] a = "decl" -> Block_(<<Decl("d", NoExpr), [tag |-> "op=", lhs |-> Plain("d"), op |-> "+", rhs |-> Var("x")],
                              Show(<<Var("d")>>)>>)
    [] a = "handle" -> Block_(<<[tag |-> "decl", name |-> "d", kind |-> "handle", init |-> NoExpr],
                                Show(<<Var("d")>>), Set_(Plain("d"), Var("x")), Show(<<Var("d")>>)>>)
    [] a = "bit" -> [tag |-> "op=", lhs |-> BitAt(Lit(0)), op |-> "-", rhs |-> Lit(1)]
    [] a = "setbit" -> Set_(BitAt(Bin("<", Var("x"), Lit(2))), Lit(1))
    [] a = "net" -> Set_(Plain("n"), Var("x"))
    [] a = "nba" -> Nba(Plain("n"), Var("x"))
    [] a = "nbabit" -> Nba(BitAt(Bin("<", Var("x"), Lit(2))), Lit(1))
    [] a = "delay" -> Delay_(Show(<<Var("n")>>))
    [] a = "local" -> Block_(<<Nba(Plain("x"), Bin("+", Var("x"), Lit(1))), Show(<<Var("x")>>),
                               Nba(Plain("y"), Var("x")), [tag |-> "@", name |-> "x", body |-> Show(<<Var("x"), Var("y")>>)]>>)
    [] a = "push" -> Block_(<<Push_, Show(<<Size_>>)>>)
    [] a = "wait" -> Wait_(Bin("<", Lit(0), Var("n")), Show(<<Var("n")>>))
    [] a = "waitq" -> Wait_(Bin("<", Lit(2), Size_), Show(<<Size_>>))
    [] a = "none" -> Par(<<Block_(<<Inc("x"), Show(<<Var("x"), Var("y")>>), Set_(Plain("n"), Var("x"))>>)>>, "none")
    [] a = "join" -> Par(<<Decl("d", Var("x")), Block_(<<Inc("d"), Show(<<Var("d")>>)>>),
                           Show(<<Var("d"), Var("n")>>)>>, "all")
    [] a = "any" -> Par(<<Set_(Plain("n"), Lit(3)), Show(<<Var("n")>>)>>, "any")
    [] a = "empty" -> Block_(<<Par(<<>>, "any"), Par(<<>>, "all")>>)
    \* branches that outlive the fork, or make its parent wait
    [] a = "late" -> Par(<<Block_(<<Show(<<Var("x")>>), Delay_(Push_), Delay_(Show(<<Size_, Var("n")>>))>>),
                           Block_(<<Set_(Plain("n"), Lit(1)), Delay_(Show(<<Var("n")>>))>>)>>, "none")
    [] a = "latejoin" -> Par(<<Block_(<<Delay_(Nba(Plain("n"), Lit(3))), Delay_(Show(<<Size_, Var("n")>>))>>),
                               Delay_(Show(<<Var("y")>>))>>, "all")
    [] a = "lateany" -> Par(<<Block_(<<Delay_(Set_(Plain("n"), Lit(2))), Delay_(Show(<<Var("x"), Size_>>))>>),
                              Delay_(Block_(<<Push_, Show(<<Var("n")>>)>>))>>, "any")
    [] a = "call" -> Set_(Plain("y"), [k |-> "call", args |-> <<Var("x")>>])
    [] a = "call2" -> Show(<<[k |-> "call", args |-> <<Var("y"), Var("n")>>], Var("x")>>)
    [] a = "cond" -> Set_(Plain("y"), Cond_(Is("x", 1), Lit(2), Var("n")))
    [] a = "merge" -> Show(<<Cond_(Lit(X), Var("x"), Var("y"))>>)
    [] a = "each" -> Foreach("x", Block_(<<If_(Is("x", 0), [tag |-> "continue"]), Show(<<Var("x")>>)>>))

Body(k) == LET a == Stmt(k[2])
               b == Stmt(k[3])
           IN CASE k[1] = "once" -> Block_(<<Inc("x"), a, b>>)
                [] k[1] = "while" -> [tag |-> "while", cond |-> Bin("<", Var("x"), Lit(3)), body |-> Block_(<<Inc("x"), a, b>>)]
                [] k[1] = "do" -> [tag |-> "do", cond |-> Bin("<", Var("x"), Lit(2)), body |-> Block_(<<Inc("x"), a, b>>)]
                [] k[1] = "forever" -> [tag |-> "forever", body |-> Block_(<<Inc("x"), If_(Is("x", 3), [tag |-> "break"]), a, b>>)]
                [] k[1] = "foreach" -> Foreach("i", Block_(<<Inc("x"), a, b, Show(<<Var("i")>>)>>))
                [] k[1] = "nested" -> [tag |-> "while", cond |-> Bin("<", Var("x"), Lit(2)),
                                       body |-> Block_(<<Inc("x"), Foreach("i", Block_(<<a, Inc("y")>>)), b>>)]

MCProgram(k) ==
  [kind |-> k[4], params |-> <<"p", "d">>, default |-> Bin("+", Var("p"), Lit(1)),
   func |-> Block_(<<Set_(Plain("f"), Var("d")),
                     If_(Is("p", 1), [tag |-> "return", value |-> Bin("+", Var("d"), Var("d"))])>>),
   body |-> Block_(<<Decl("x", NoExpr), Decl("y", Lit(1)),
                     [tag |-> "decl", name |-> "q", kind |-> "queue", init |-> NoExpr],
                     Push_, Push_,
                     Body(k), Show(<<Var("x"), Var("y"), Var("n")>>),
                     Delay_(Show(<<Var("n")>>))>>)]

Jumps == {"break", "continue"}
MCKeys == {k \in {"once", "while", "do", "forever", "foreach", "nested"} \X Statements \X Followers
                 \X {"initial", "always"} :
             /\ k[1] = "once" => k[2] \notin Jumps /\ k[3] \notin Jumps
             /\ k[2] = "nbabit" => k[1] = "once" /\ k[3] \in {"show", "delay", "case"}
             /\ k[2] = "handle" => k[1] = "once" /\ k[4] = "initial"
             /\ (k[2] = "push" \/ k[3] = "push") => k[1] \in {"once", "while", "do"}
             /\ k[4] = "always" => k[1] \in {"once", "do"}}

\* Two bits of one net are written in one time slot.
BitKeys == {"while", "do"} \X {"nbabit"} \X {"show", "delay"} \X {"initial"}
=============================================================================
