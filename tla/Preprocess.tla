----------------------------- MODULE Preprocess -----------------------------
(***************************************************************************)
(* The preprocessor: eevee-fe/src/preprocess.rs.                           *)
(*                                                                         *)
(* Files are sequences of lines, a line is a directive or text, text and   *)
(* names are sequences of characters, where a piece of an identifier may   *)
(* be one character of Letters.  The top-level file is any sequence of     *)
(* Lines, read one line at a time; included files are given.  In mode      *)
(* "scan" the machine reads characters instead, for the scanners that run  *)
(* on them.                                                                *)
(***************************************************************************)
EXTENDS Integers, Sequences, FiniteSets, SequencesExt, TLC

CONSTANTS
  Letters,        \* characters of identifiers
  Lines,          \* lines of the top-level file
  FileAt,         \* <<directory, name>> -> lines of an existing file
  Unreadable,     \* files whose read fails
  Guarded,        \* files whose whole text is one line inside an include guard
  IncludeDirs,    \* +incdir+ directories, in order
  MainPath,       \* the top-level file
  Alphabet,       \* characters of mode "scan"
  MaxIncludeDepth, MaxExpandDepth,  \* 64 in the code
  MaxLines,       \* bound on the lines of the top-level file
  MaxScan         \* bound on the characters of mode "scan"

ASSUME FileAssumption ==
  /\ Unreadable \cup Guarded \subseteq DOMAIN FileAt /\ MainPath \in DOMAIN FileAt \ Guarded
  /\ \A path \in DOMAIN FileAt : FileAt[path] \in Seq(Range(FileAt[path]))
  /\ MaxIncludeDepth \in Nat \ {0} /\ {MaxExpandDepth, MaxLines, MaxScan} \subseteq Nat

ASSUME LetterAssumption ==
  Letters \cap {"tick", "\"", "\\", "(", ")", "[", "]", "{", "}", ",", "/", "*", " ", "nl", "end"} = {}

Conditionals == {"ifdef", "ifndef", "elsif", "else", "endif"}
AllLines == Lines \cup UNION {Range(FileAt[path]) : path \in DOMAIN FileAt}
GuardOf(path) == FileAt[path][1].name

\* `ifndef G, `define G, then lines of which one is text, `endif; nobody
\* undefines G.
ASSUME GuardAssumption ==
  \A path \in Guarded :
    LET lines == FileAt[path]
        n == Len(lines)
    IN /\ n > 2
       /\ lines[1].dir = "ifndef" /\ lines[n].dir = "endif"
       /\ lines[2].dir = "define" /\ lines[2].name = GuardOf(path)
       /\ \A i \in 2..(n - 1) : lines[i].dir \notin Conditionals
       /\ \A i, j \in 1..n : lines[i].dir = "text" /\ lines[j].dir = "text" => i = j
       /\ \A line \in AllLines : line.dir = "undef" => line.name # GuardOf(path)

VARIABLES
  mode,         \* "lines" or "scan"
  scanned,      \* the characters read in mode "scan"
  macros,       \* Preprocessor::macros
  frames,       \* the calls of process, innermost last, with include_stack
  currentFile,  \* Preprocessor::current_file
  out,          \* the last line of output: [kind, text]
  texts         \* history: lines of text emitted from each guarded file

vars == <<mode, scanned, macros, frames, currentFile, out, texts>>

-----------------------------------------------------------------------------
(* Scanners.  A string is a sequence of characters. *)

At(s, i) == IF i \in DOMAIN s THEN s[i] ELSE "end"
Blank(c) == IF c = "nl" THEN "nl" ELSE " "

\* Mutant: a block comment swallows its newlines.
StripBlock_Flat(c) == " "

\* What a character of a block comment becomes.
StripBlock(c) == Blank(c)

\* A scanner is a loop over the characters of a text; its state has the position at
\* which its next turn begins, Len(s) + 1 at the end.
Positions(s) == 1..(Len(s) + 1)

\* strip_comments is in a string, a comment or neither.
StripStates(s) == [at : Positions(s), in : {"code", "string", "line", "block"}]

\* What a turn writes, and the state after it.
StripTurn(s, x) ==
  LET c == s[x.at]
      d == At(s, x.at + 1)
      turn(written, reads, in) == [out |-> written, next |-> [at |-> x.at + reads, in |-> in]]
  IN CASE x.in = "string" ->
            IF c = "\\" /\ x.at < Len(s) THEN turn(<<c, d>>, 2, "string")
            ELSE turn(<<c>>, 1, IF c = "\"" THEN "code" ELSE "string")
       [] x.in = "line" ->
            IF c = "nl" THEN turn(<<c>>, 1, "code") ELSE turn(<<" ">>, 1, "line")
       [] x.in = "block" ->
            IF c = "*" /\ d = "/" THEN turn(<<" ", " ">>, 2, "code")
            ELSE turn(<<StripBlock(c)>>, 1, "block")
       [] x.in = "code" ->
            IF c = "/" /\ d = "/" THEN turn(<<" ">>, 1, "line")
            ELSE IF c = "/" /\ d = "*" THEN turn(<<" ", " ">>, 2, "block")
            ELSE turn(<<c>>, 1, IF c = "\"" THEN "string" ELSE "code")

StripComments(s) ==
  LET strip[x \in StripStates(s)] ==
        IF x.at > Len(s) THEN <<>> ELSE StripTurn(s, x).out \o strip[StripTurn(s, x).next]
  IN strip[[at |-> 1, in |-> "code"]]

\* The scanners of arguments: where a turn ends, past an escape in a string, whether
\* in a string there, and at which depth of brackets.
TurnEnd(s, x) == IF x.quoted /\ s[x.at] = "\\" /\ x.at < Len(s) THEN x.at + 2 ELSE x.at + 1
QuotedAfter(s, x) == (s[x.at] = "\"") # x.quoted
DepthAfter(s, x, opening, closing) ==
  x.depth + IF ~x.quoted /\ s[x.at] \in opening THEN 1
            ELSE IF ~x.quoted /\ s[x.at] \in closing THEN -1 ELSE 0

MatchStates(s) == [at : Positions(s), depth : Int, quoted : BOOLEAN]
MatchNext(s, x) ==
  [at |-> TurnEnd(s, x), depth |-> DepthAfter(s, x, {"("}, {")"}), quoted |-> QuotedAfter(s, x)]
Matches(s, x) == ~x.quoted /\ s[x.at] = ")" /\ DepthAfter(s, x, {"("}, {")"}) = 0

\* find_matching_paren from an opening parenthesis; 0 for None.
FindMatchingParen(s, open) ==
  LET match[x \in MatchStates(s)] ==
        IF x.at > Len(s) THEN 0 ELSE IF Matches(s, x) THEN x.at ELSE match[MatchNext(s, x)]
  IN match[[at |-> open, depth |-> 0, quoted |-> FALSE]]

\* Mutant: commas split at any depth.
Splits_AnyDepth(c, depth) == c = ","

\* A comma separates arguments only outside brackets.
Splits(c, depth) == c = "," /\ depth = 0

Opening == {"(", "[", "{"}
Closing == {")", "]", "}"}

\* split_top_level at commas; buf is the part being read.
SplitStates(s) == [at : Positions(s), depth : Int, quoted : BOOLEAN, buf : Seq(Range(s))]
Separates(s, x) == ~x.quoted /\ Splits(s[x.at], x.depth)
SplitNext(s, x) ==
  [at |-> TurnEnd(s, x), depth |-> DepthAfter(s, x, Opening, Closing), quoted |-> QuotedAfter(s, x),
   buf |-> IF Separates(s, x) THEN <<>> ELSE x.buf \o SubSeq(s, x.at, TurnEnd(s, x) - 1)]

SplitTopLevel(s) ==
  LET split[x \in SplitStates(s)] ==
        IF x.at > Len(s) THEN <<x.buf>>
        ELSE (IF Separates(s, x) THEN <<x.buf>> ELSE <<>>) \o split[SplitNext(s, x)]
  IN split[[at |-> 1, depth |-> 0, quoted |-> FALSE, buf |-> <<>>]]

-----------------------------------------------------------------------------
(* Macros: [like, params, body]; like is "object" or "function", params a  *)
(* sequence of [name, default].                                            *)

\* str::trim
Trim(s) ==
  LET inked == {i \in DOMAIN s : s[i] \notin {" ", "nl"}}
  IN IF inked = {} THEN <<>> ELSE SubSeq(s, Min(inked), Max(inked))

\* Behind the identifier at i, and behind the blanks at i.
Behind(s, i, chars) ==
  CHOOSE j \in i..(Len(s) + 1) : At(s, j) \notin chars /\ \A k \in i..(j - 1) : s[k] \in chars
IdentEnd(s, i) == Behind(s, i, Letters)

\* The value bound to the k-th parameter: an argument that is missing or blank is the default.
BoundTo(mac, args, k) ==
  IF k <= Len(args) /\ Trim(args[k]) # <<>> THEN Trim(args[k]) ELSE mac.params[k].default

\* substitute_params: every identifier that is a parameter, wherever it stands.
SubstituteParams(body, mac, args) ==
  LET param(name) == {j \in DOMAIN mac.params : mac.params[j].name = name}
      value(name) == IF param(name) = {} THEN name ELSE BoundTo(mac, args, CHOOSE j \in param(name) : TRUE)
      piece(i) == IF body[i] \notin Letters THEN <<body[i]>>
                  ELSE IF At(body, i - 1) \in Letters THEN <<>>
                  ELSE value(SubSeq(body, i, IdentEnd(body, i) - 1))
  IN FlattenSeq([i \in DOMAIN body |-> piece(i)])


\* Paste marks are deleted pairwise from the left: what stood on both sides is one identifier.
DropPastes(s) ==
  LET ticks(i) == CHOOSE n \in 0..i : /\ \A k \in (i - n + 1)..i : s[k] = "tick"
                                      /\ At(s, i - n) # "tick"
      kept(i) == s[i] # "tick" \/ (At(s, i + 1) # "tick" /\ ticks(i) % 2 = 1)
  IN FlattenSeq([i \in DOMAIN s |-> IF kept(i) THEN <<s[i]>> ELSE <<>>])

ApplyMacro(mac, args) == DropPastes(SubstituteParams(mac.body, mac, args))

\* The depth at which a replacement is expanded.
Rescan(depth) == depth + 1

\* current_line, set before a line is looked at.
CurrentLine == frames[Len(frames)].at + 1

\* expand_text: characters from i on, in a string or not.
ExpandFrom[s \in Seq(STRING), i \in Nat, quoted \in BOOLEAN, depth \in Nat] ==
  LET c == At(s, i)
      d == At(s, i + 1)
      behind == IdentEnd(s, i + 1)
      name == SubSeq(s, i + 1, behind - 1)
      rest(to, q) == ExpandFrom[s, to, q, depth]
      copy == SubSeq(s, i, behind - 1) \o rest(behind, FALSE)
      open == Behind(s, behind, {" "})
      close == IF At(s, open) = "(" THEN FindMatchingParen(s, open) ELSE 0
      replaced(r, to) == (IF Rescan(depth) >= MaxExpandDepth THEN r
                          ELSE ExpandFrom[r, 1, FALSE, Rescan(depth)]) \o rest(to, FALSE)
  IN CASE i > Len(s) -> <<>>
       [] i <= Len(s) /\ (c # "tick" \/ quoted) -> <<c>> \o rest(i + 1, (c = "\"") # quoted)
       [] c = "tick" /\ ~quoted /\ d = "\"" -> <<"\"">> \o rest(i + 2, FALSE)
       [] c = "tick" /\ ~quoted /\ d = "tick" -> rest(i + 2, FALSE)
       [] c = "tick" /\ ~quoted /\ d \notin Letters \cup {"\"", "tick"} -> <<c>> \o rest(i + 1, FALSE)
       [] OTHER ->
            CASE name = <<"__FILE__">> -> <<"\"", currentFile[2], "\"">> \o rest(behind, FALSE)
              [] name = <<"__LINE__">> -> <<ToString(CurrentLine)>> \o rest(behind, FALSE)
              [] name \in DOMAIN macros /\ macros[name].like = "object" ->
                   replaced(macros[name].body, behind)
              [] name \in DOMAIN macros /\ macros[name].like = "function" /\ close # 0 ->
                   LET args == SplitTopLevel(SubSeq(s, open + 1, close - 1))
                   IN replaced(ApplyMacro(macros[name], args), close + 1)
              [] OTHER -> copy

ExpandText(text) == ExpandFrom[text, 1, FALSE, 0]

-----------------------------------------------------------------------------
(* process: a frame is [path, at, rest, cond, chain]; chain is a history   *)
(* of the conditionals of the file, with what their condition was.         *)

Top == frames[Len(frames)]
Emitting(cond) == IF cond = <<>> THEN TRUE ELSE cond[Len(cond)].active

NewFrame(path, lines) == [path |-> path, at |-> 0, rest |-> lines, cond |-> <<>>, chain |-> <<>>]

Init ==
  /\ mode \in {"lines", "scan"} /\ scanned = <<>>
  /\ macros = <<>>
  /\ frames = <<NewFrame(MainPath, <<>>)>>
  /\ currentFile = MainPath
  /\ out = [kind |-> "blank", text |-> <<>>]
  /\ texts = [f \in Guarded |-> 0]

\* The lines that may come next in the file being processed.
NextLines ==
  IF mode = "scan" THEN {}
  ELSE IF Len(frames) = 1 THEN IF Top.at < MaxLines THEN Lines ELSE {}
  ELSE IF Top.rest = <<>> THEN {} ELSE {Head(Top.rest)}

\* The current frame after this line, with these conditional levels.
After(cond, chain) ==
  [Top EXCEPT !.at = @ + 1, !.rest = IF @ = <<>> THEN @ ELSE Tail(@),
              !.cond = cond, !.chain = chain]

\* A line is consumed and leaves output of this kind.
Consume(frame, kind, text) ==
  /\ frames' = [frames EXCEPT ![Len(frames)] = frame]
  /\ out' = [kind |-> kind, text |-> text]
  /\ texts' = [f \in Guarded |-> texts[f] + IF kind = "text" /\ Top.path = f THEN 1 ELSE 0]
  /\ UNCHANGED <<mode, scanned, currentFile>>

Noted(line, held) == Append(Top.chain, [dir |-> line.dir, held |-> held])
Defined(line) == line.name \in DOMAIN macros

Ifdef(line) ==
  /\ line.dir \in {"ifdef", "ifndef"}
  /\ LET want == Defined(line) <=> line.dir = "ifdef"
         parent == Emitting(Top.cond)
         level == [parent |-> parent, taken |-> want, active |-> parent /\ want]
     IN Consume(After(Append(Top.cond, level), Noted(line, want)), "blank", <<>>)
  /\ UNCHANGED macros

\* Mutant: the level forgets that this branch was taken.
Branch_NotTaken(level, holds) == [level EXCEPT !.active = ~level.taken /\ level.parent /\ holds]

\* The level in a further branch whose condition holds or not.
Branch(level, holds) ==
  IF ~level.taken /\ level.parent /\ holds
  THEN [level EXCEPT !.active = TRUE, !.taken = TRUE]
  ELSE [level EXCEPT !.active = FALSE]

\* elsif and else; without an open level they do nothing.
Elsif(line) ==
  /\ line.dir \in {"elsif", "else"}
  /\ LET holds == IF line.dir = "else" THEN TRUE ELSE Defined(line)
         n == Len(Top.cond)
         cond == IF n = 0 THEN <<>> ELSE [Top.cond EXCEPT ![n] = Branch(@, holds)]
     IN Consume(After(cond, Noted(line, holds)), "blank", <<>>)
  /\ UNCHANGED macros

Endif(line) ==
  /\ line.dir = "endif"
  /\ Consume(After(IF Top.cond = <<>> THEN <<>> ELSE SubSeq(Top.cond, 1, Len(Top.cond) - 1),
                   Noted(line, TRUE)), "blank", <<>>)
  /\ UNCHANGED macros

Same == After(Top.cond, Top.chain)

Skip(line) ==
  /\ line.dir \notin Conditionals /\ ~Emitting(Top.cond)
  /\ Consume(Same, "blank", <<>>)
  /\ UNCHANGED macros

\* handle_define and undef
Define(line) ==
  /\ line.dir = "define" /\ Emitting(Top.cond)
  /\ macros' = [n \in DOMAIN macros \cup {line.name} |->
                  IF n = line.name THEN line.macro ELSE macros[n]]
  /\ Consume(Same, "blank", <<>>)

Undef(line) ==
  /\ line.dir = "undef" /\ Emitting(Top.cond)
  /\ macros' = [n \in DOMAIN macros \ {line.name} |-> macros[n]]
  /\ Consume(Same, "blank", <<>>)

\* A directive that consumes its line, or an include without a file name.
Passthrough(line) ==
  /\ line.dir = "other" /\ Emitting(Top.cond)
  /\ Consume(Same, "blank", <<>>)
  /\ UNCHANGED macros

\* Text, and a macro use at the start of a line.
Text(line) ==
  /\ line.dir = "text" /\ Emitting(Top.cond)
  /\ Consume(Same, "text", ExpandText(line.text))
  /\ UNCHANGED macros

-----------------------------------------------------------------------------
(* include *)

\* The directory of the including file first, then the include directories.
SearchDirs == <<Top.path[1]>> \o IncludeDirs
ResolveInclude(fname) ==
  {i \in DOMAIN SearchDirs : /\ <<SearchDirs[i], fname>> \in DOMAIN FileAt
                             /\ \A j \in 1..(i - 1) : <<SearchDirs[j], fname>> \notin DOMAIN FileAt}

\* Mutant: a file that is being processed is included again.
IsOpen_Never(path) == FALSE

\* include_stack.contains
IsOpen(path) == \E i \in DOMAIN frames : frames[i].path = path

\* do_include returns a comment when the file is not processed.
Refuse(reason) == Consume(Same, "comment", <<reason>>) /\ UNCHANGED macros

Include(line) ==
  /\ line.dir = "include" /\ Emitting(Top.cond)
  /\ IF Len(frames) >= MaxIncludeDepth THEN Refuse("depth limit")
     ELSE IF ResolveInclude(line.file) = {} THEN Refuse("not found")
     ELSE LET path == <<SearchDirs[CHOOSE i \in ResolveInclude(line.file) : TRUE], line.file>> IN
          IF IsOpen(path) THEN Refuse("recursive")
          ELSE IF path \in Unreadable THEN Refuse("read error")
          ELSE /\ frames' = Append([frames EXCEPT ![Len(frames)] = Same], NewFrame(path, FileAt[path]))
               /\ currentFile' = path
               /\ out' = [kind |-> "blank", text |-> <<>>]
               /\ UNCHANGED <<mode, scanned, macros, texts>>

\* The included file is done: process of the including file takes its name back.
EndOfFile ==
  /\ mode = "lines" /\ Len(frames) > 1 /\ Top.rest = <<>>
  /\ frames' = SubSeq(frames, 1, Len(frames) - 1)
  /\ currentFile' = frames[Len(frames) - 1].path
  /\ out' = [kind |-> "blank", text |-> <<>>]
  /\ UNCHANGED <<mode, scanned, macros, texts>>

\* Mode "scan": one more character.
Char(c) ==
  /\ mode = "scan" /\ Len(scanned) < MaxScan
  /\ scanned' = Append(scanned, c)
  /\ UNCHANGED <<mode, macros, frames, currentFile, out, texts>>

Next ==
  \/ \E line \in NextLines :
       \/ Ifdef(line) \/ Elsif(line) \/ Endif(line) \/ Skip(line) \/ Define(line) \/ Undef(line)
       \/ Passthrough(line) \/ Text(line) \/ Include(line)
  \/ EndOfFile
  \/ \E c \in Alphabet : Char(c)

Spec == Init /\ [][Next]_vars

-----------------------------------------------------------------------------
(* Properties *)

IsIf(d) == d.dir \in {"ifdef", "ifndef"}

\* Levels open between two conditionals of a file.
Net(chain, i, j) == Cardinality({k \in i..j : IsIf(chain[k])})
                    - Cardinality({k \in i..j : chain[k].dir = "endif"})
OpenIfs(chain) == {i \in DOMAIN chain : IsIf(chain[i]) /\ \A j \in i..Len(chain) : Net(chain, i, j) > 0}
BranchesOf(chain, i) ==
  {j \in i..Len(chain) : j = i \/ (chain[j].dir \in {"elsif", "else"} /\ Net(chain, i, j) = 1)}

\* The text being read is in the first branch that held of every open if.
InFirstBranches(chain) ==
  \A i \in OpenIfs(chain) :
    \E b \in BranchesOf(chain, i) :
      /\ \A c \in BranchesOf(chain, i) : c <= b
      /\ chain[b].held /\ \A c \in BranchesOf(chain, i) : c < b => ~chain[c].held

\* Lines are emitted exactly where every enclosing conditional is in the first of
\* its branches whose condition held when it was reached, for any nesting, also
\* inside skipped text and with stray elsif, else and endif; and a level is
\* active only inside active levels (cond_stack of process, emitting).
BranchesExact ==
  \A f \in DOMAIN frames :
    /\ Emitting(frames[f].cond) <=> InFirstBranches(frames[f].chain)
    /\ \A l \in DOMAIN frames[f].cond :
         LET level == frames[f].cond[l] IN
         /\ level.active => level.parent /\ level.taken
         /\ level.parent = Emitting(SubSeq(frames[f].cond, 1, l - 1))

\* No file is processed inside itself, the include stack stays within its limit,
\* and an include guard works: its text is emitted at most once, whichever files
\* include it and however often.  __FILE__ names the file whose line is expanded,
\* also after an include (do_include, current_file).
IncludedOnce ==
  /\ Len(frames) <= MaxIncludeDepth
  /\ \A i, j \in DOMAIN frames : frames[i].path = frames[j].path => i = j
  /\ \A f \in Guarded : texts[f] <= 1
  /\ currentFile = Top.path

\* Positions of s from i to j outside strings (of s without escapes) with one of
\* these characters.
Outside(s, cs, i, j) ==
  {k \in i..j : s[k] \in cs /\ Cardinality({l \in 1..(k - 1) : s[l] = "\""}) % 2 = 0}

\* The backticks that begin a name where expansion sees them: outside strings and pastes.
Marks(s) ==
  LET from[i \in Nat, quoted \in BOOLEAN] ==
        CASE i > Len(s) -> {}
          [] i <= Len(s) /\ (s[i] # "tick" \/ quoted) -> from[i + 1, (s[i] = "\"") # quoted]
          [] i <= Len(s) /\ ~quoted /\ s[i] = "tick" ->
               CASE At(s, i + 1) \in {"tick", "\""} -> from[i + 2, FALSE]
                 [] At(s, i + 1) \in Letters -> {i} \cup from[i + 1, FALSE]
                 [] OTHER -> from[i + 1, FALSE]
  IN from[1, FALSE]

\* The name there is the longest identifier; it is a use when it is defined, and has arguments if
\* the macro takes some.
NameAt(s, i) == SubSeq(s, i + 1, IdentEnd(s, i + 1) - 1)
NamesIn(s) == {NameAt(s, i) : i \in Marks(s)}
Called(s, i) ==
  LET open == Behind(s, IdentEnd(s, i + 1), {" "})
  IN At(s, open) = "(" /\ FindMatchingParen(s, open) # 0
Uses(s) ==
  {i \in Marks(s) : /\ NameAt(s, i) \in DOMAIN macros
                    /\ macros[NameAt(s, i)].like = "function" => Called(s, i)}

Pastes(mac) == \E i \in DOMAIN mac.body : mac.body[i] = "tick" /\ At(mac.body, i + 1) = "tick"

\* No macro reaches itself through the bodies: of any macros one names no other of them, nor
\* itself.  A paste may build the name of any other macro.
Acyclic ==
  LET named == [m \in DOMAIN macros |-> NamesIn(macros[m].body)
                                       \cup IF Pastes(macros[m]) THEN DOMAIN macros \ {m} ELSE {}]
  IN \A some \in (SUBSET DOMAIN macros) \ {{}} : \E m \in some : named[m] \cap some = {}

\* Every name in a body is defined.
Closed == \A m \in DOMAIN macros : NamesIn(macros[m].body) \subseteq DOMAIN macros

Texts == {line.text : line \in {l \in Lines : l.dir = "text"}}

ReplacedByHand(text, i) ==
  SubSeq(text, 1, i - 1) \o macros[NameAt(text, i)].body \o SubSeq(text, IdentEnd(text, i + 1), Len(text))


\* Where a comment begins in s (without escapes), and where the text goes on behind the one at i.
Openers(s) == {i \in Outside(s, {"/"}, 1, Len(s)) : At(s, i + 1) \in {"/", "*"}}
CommentEnds(s, i) ==
  IF s[i + 1] = "/" THEN {j \in i..Len(s) : s[j] = "nl"}
  ELSE {j \in (i + 4)..(Len(s) + 1) : s[j - 2] = "*" /\ s[j - 1] = "/"}
CommentEnd(s, i) ==
  IF CommentEnds(s, i) = {} THEN Len(s) + 1
  ELSE CHOOSE j \in CommentEnds(s, i) : \A k \in CommentEnds(s, i) : j <= k

\* The text up to the first opening of a comment outside strings is kept, the comment becomes
\* blanks with its newlines kept, and the same holds behind it; without one the text stays as it
\* is.  With escapes too, line numbers stay right and no comment is left (strip_comments).
CommentsStripped ==
  LET r == StripComments(scanned) IN
  /\ Len(r) = Len(scanned)
  /\ \A i \in DOMAIN r : r[i] \in {scanned[i], " "} /\ (scanned[i] = "nl" => r[i] = "nl")
  /\ StripComments(r) = r
  /\ (\A i \in DOMAIN scanned : scanned[i] # "\\") =>
       /\ Openers(scanned) = {} => r = scanned
       /\ \A i \in Openers(scanned) :
            (\A j \in Openers(scanned) : i <= j) =>
              LET end == CommentEnd(scanned, i)
                  rest == StripComments(SubSeq(scanned, end, Len(scanned)))
              IN \A j \in DOMAIN r :
                   r[j] = IF j < i THEN scanned[j] ELSE IF j < end THEN Blank(scanned[j]) ELSE rest[j - end + 1]

Depth(s, opening, closing, i, j) ==
  Cardinality(Outside(s, opening, i, j)) - Cardinality(Outside(s, closing, i, j))

\* The parentheses that close the one at i, the commas that separate arguments,
\* and the k-th of them, the ends of the text included.
ClosingAt(s, i) ==
  {j \in Outside(s, {")"}, i, Len(s)) : Depth(s, {"("}, {")"}, i, j) = 0}
Commas(s) == {j \in Outside(s, {","}, 1, Len(s)) : Depth(s, Opening, Closing, 1, j) = 0}
Cut(s, k) ==
  IF k = 0 THEN 0
  ELSE IF k > Cardinality(Commas(s)) THEN Len(s) + 1
  ELSE CHOOSE j \in Commas(s) : Cardinality(Commas(s) \cap (1..j)) = k

\* The closing parenthesis is the first one at which the text is balanced, and
\* arguments are the text between the commas outside all brackets and strings.
ArgumentsExact ==
  (\A i \in DOMAIN scanned : scanned[i] # "\\") =>
    /\ \A i \in Outside(scanned, {"("}, 1, Len(scanned)) :
         FindMatchingParen(scanned, i) =
           IF ClosingAt(scanned, i) = {} THEN 0
           ELSE CHOOSE j \in ClosingAt(scanned, i) : \A k \in ClosingAt(scanned, i) : j <= k
    /\ SplitTopLevel(scanned) =
         [k \in 1..(Cardinality(Commas(scanned)) + 1) |->
            SubSeq(scanned, Cut(scanned, k - 1) + 1, Cut(scanned, k) - 1)]
=============================================================================
