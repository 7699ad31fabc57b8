------------------------------- MODULE Lines -------------------------------
(***************************************************************************)
(* How a line gets from the prompt to processCommand: the user may press   *)
(* tab (Completion), main splits the line that is entered (Words), and     *)
(* processCommand strips the slashes at the end of a path.  Completion and *)
(* splitting take the path out of the line each in its own way.            *)
(***************************************************************************)
EXTENDS Words, FiniteSets

CONSTANTS
  Letters,   \* of names
  MaxTyped,  \* Bound: characters typed before a tab
  Commands,  \* the names of the commands: sequences of letters
  Names      \* those that children of a node may have

ASSUME LinesAssumption ==
  /\ MaxTyped \in Nat
  /\ {" ", "\t", "/"} \cap Letters = {}
  /\ \A name \in Commands \cup Names :
       name \in Seq(Letters) /\ name # << >> /\ MaxTyped + Len(name) <= MaxLen

VARIABLES typed, tpc, first, ti, tj, path, kids, lc, shown

tabVars == <<typed, tpc, first, ti, tj, path, kids, lc, shown>>

C == INSTANCE Completion
       WITH MaxLen <- MaxTyped, pc <- tpc, i <- ti, j <- tj, line <- shown

\* A line as sdssplitlen sees it.
Separators(l) == [k \in 0..(Len(l) - 1) |-> IF l[k + 1] = " " THEN "sep" ELSE "char"]

\* linenoise edits a line.
Edit == pc = "idle" /\ C!Next /\ UNCHANGED vars

\* A line is entered that was completed, or one without a tab.
EnterShown ==
  /\ tpc = "shown" /\ shown # << >>
  /\ Enter(Len(shown), Separators(shown))
  /\ UNCHANGED tabVars

EnterTyped ==
  /\ tpc = "edit"
  /\ \E n \in 0..MaxLen : \E l \in [0..(n - 1) -> {"sep", "char"}] : Enter(n, l)
  /\ UNCHANGED tabVars

\* sdssplitlen, and what main does with the tokens.
Process == (Grow \/ Scan \/ Last \/ CopyToNull \/ Cleanup \/ Free) /\ UNCHANGED tabVars

Start == Init /\ C!Init

Step == Edit \/ EnterShown \/ EnterTyped \/ Process

Prompt == Start /\ [][Step]_<<vars, tabVars>>

-----------------------------------------------------------------------------
(* What processCommand makes of a token, and properties.                   *)

Token(k) == SubSeq(shown, tokens[k][1] + 1, tokens[k][2])

\* The path with the slashes at its end stripped.
Stripped(p) ==
  LET keep == {k \in 1..Len(p) : k = 1 \/ \E m \in k..Len(p) : p[m] # "/"}
  IN  SubSeq(p, 1, Cardinality(keep))

\* Types of Completion; every index path_completion looks at is one of the line.
IndicesInLine == C!TypeOK

\* What the user typed stays, but for blanks before the command: the line that
\* replaces it goes on from there (path_completion puts "user input" before
\* the only candidate, command_completion compares from its first letter on).
Extends == C!Extends

\* A tab, which no command takes for a separator, or two slashes in a row.
Odd(l) == \E k \in 1..Len(l) : l[k] = "\t" \/ (k > 1 /\ l[k] = "/" /\ l[k - 1] = "/")

\* The line that replaces an ordinary one, once entered and split, is a command
\* on a child of the node whose children were asked for: path_completion,
\* sdssplitlen and processCommand, which cut the path out of the line and strip
\* it in different ways, agree on what it is.
NamesChild ==
  tpc = "shown" /\ pc = "done" /\ path # << >> /\ ~Odd(typed) =>
    \E name \in kids :
      Stripped(Token(count)) = (IF path = <<"/">> THEN path ELSE Append(path, "/")) \o name

TabTypes ==
  /\ typed \in Seq(C!Chars) /\ first \in 0..Len(typed) /\ Len(typed) <= MaxTyped
  /\ tpc \in {"edit", "skip", "blank", "slash", "ask", "match", "shown"}
  /\ path \in Seq(C!Chars) /\ kids \subseteq Names
  /\ lc \subseteq Commands \cup Names /\ shown \in Seq(C!Chars) /\ Len(shown) <= MaxLen

\* The indices of path_completion are indices of the line.
InBuf == ti \in 0..(C!len - 1) /\ tj \in 0..(C!len - 1)

\* Why the indices stay in the line: there is a blank where path_completion
\* looks for one.
TabInv ==
  /\ TabTypes /\ Extends
  /\ tpc \in {"blank", "slash", "ask", "match"} => InBuf
  /\ tpc = "edit" => first = 0
  /\ tpc = "blank" => \E k \in 0..ti : C!At(k) \in C!Blanks
  /\ tpc # "shown" => shown = << >>

\* The character at an index of C is the last blank of what was typed.
LastBlank ==
  /\ InBuf
  /\ C!At(ti) \in C!Blanks
  /\ \A k \in ti + 1 .. C!len - 1 : C!At(k) \notin C!Blanks

Asked == tpc \in {"ask", "match"} \/ (tpc = "shown" /\ path # << >>)

\* Why the path that is asked for is the one in the line: it is all there is
\* between the last blank and a slash, and what is shown goes on after it.
PathInv ==
  /\ tpc \in {"edit", "skip", "blank", "slash"} => path = << >>
  /\ tpc = "blank" =>
       tj = C!len - 1 /\ \A k \in ti + 1 .. C!len - 1 : C!At(k) \notin C!Blanks
  /\ tpc = "slash" \/ Asked => LastBlank
  /\ Asked => ti < tj /\ C!At(tj) = "/" /\ path = C!Trimmed(C!Directory)
  /\ shown # << >> /\ path # << >> =>
       \E name \in kids : shown = SubSeq(C!buf, 1, tj + 1) \o name

\* Why the tokens are of the line that is shown.
EnteredInv ==
  pc # "idle" /\ tpc = "shown" =>
    shown # << >> /\ len = Len(shown) /\ line = Separators(shown)

\* "path like '/admin/' isn't allowed, we should trim it as /admin": what
\* path_completion asks the server for does not end in a slash.
NoSlashAtEnd == C!NoSlashAtEnd
=============================================================================
