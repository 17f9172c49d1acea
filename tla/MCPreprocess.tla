---------------------------- MODULE MCPreprocess ----------------------------
(***************************************************************************)
(* Preprocess on a top-level file of any few lines, a guarded header, and  *)
(* a header that includes itself and leaves a conditional open.            *)
(***************************************************************************)
EXTENDS Preprocess

Cond(d, n) == [dir |-> d, name |-> n]
Object(n, body) == [dir |-> "define", name |-> n,
                    macro |-> [like |-> "object", params |-> <<>>, body |-> body]]
FileLine(f) == [dir |-> "include", file |-> f]
TextLine(s) == [dir |-> "text", text |-> s]

\* The character "tick" is the backtick.

\* `define F(p, q=y) p``q `B, and with a blank instead of the paste
DefineF(between) ==
  [dir |-> "define", name |-> <<"F">>,
   macro |-> [like |-> "function",
              params |-> <<[name |-> <<"p">>, default |-> <<>>], [name |-> <<"q">>, default |-> <<"y">>]>>,
              body |-> <<"p">> \o between \o <<"q", " ", "tick", "B">>]]

A == <<"A">>
B == <<"B">>

MCLines ==
  {Cond("ifdef", A), Cond("elsif", B), Cond("else", A), Cond("endif", A),
   Cond("ifndef", <<"F">>),
   Object(A, <<"tick", "B">>), Object(B, <<"x", "tick", "A">>), Object(B, <<"\"", "tick", "A", "\"">>),
   Object(<<"A", "y">>, <<"z">>),
   DefineF(<<"tick", "tick">>), DefineF(<<" ">>), Cond("undef", A),
   FileLine("i"), FileLine("h"), FileLine("none"), [dir |-> "other"],
   TextLine(<<"tick", "F", " ", "(", "tick", "F", "(", "tick", "A", ",", ")", ")", "tick", "__FILE__", "tick", "__LINE__">>),
   TextLine(<<"\"", "tick", "A", "\"", "tick", "A", "tick", "\"", "x", "tick", "\"">>)}

MCFileAt ==
  (<<"src", "main">> :> <<>>) @@
  (<<"inc", "h">> :> <<Cond("ifndef", <<"G">>), Object(<<"G">>, <<>>), FileLine("i"), TextLine(<<"t">>),
                       Cond("endif", <<"G">>)>>) @@
  (<<"inc", "i">> :> <<FileLine("h"), FileLine("i"), FileLine("bad"), Cond("ifdef", A)>>) @@
  (<<"inc", "bad">> :> <<>>)

MCUnreadable == {<<"inc", "bad">>}
MCGuarded == {<<"inc", "h">>}
MCIncludeDirs == <<"none", "inc">>
MCMainPath == <<"src", "main">>

\* A character of each class that the scanners tell apart.
MCAlphabet == {"/", "*", "\"", "\\", "nl", "(", ")", "[", "]", ",", "x"}
=============================================================================
