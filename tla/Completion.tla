------------------------------ MODULE Completion ------------------------------
(***************************************************************************)
(* What main.c does when the user presses tab: completion looks for the    *)
(* command or the last path in what was typed, path_completion asks the    *)
(* server for the children of its directory, and a single match replaces   *)
(* the line (completeLine of linenoise.c, as main.c uses it).              *)
(***************************************************************************)
EXTENDS Integers, Sequences, FiniteSets, SequencesExt

CONSTANTS
  Letters,   \* of names
  MaxLen,    \* Bound: characters typed
  Commands,  \* the names of the commands: sequences of letters
  Names      \* those that children of a node may have

VARIABLES
  typed,   \* the line before the cursor
  pc,      \* "edit", "skip", "blank", "slash", "ask", "match", "shown"
  first,   \* i of completion, the blanks that are left out
  i, j,    \* of path_completion
  path,    \* what is asked for
  kids,    \* childrens
  lc,      \* the candidates
  line     \* what replaces the line, or nothing

vars == <<typed, pc, first, i, j, path, kids, lc, line>>

Blanks == {" ", "\t"}
Chars  == Letters \cup Blanks \cup {"/"}

\* What completion passes on, and its character at an index of C.
buf    == SubSeq(typed, first + 1, Len(typed))
At(k)  == buf[k + 1]
len    == Len(buf)

Init ==
  /\ typed = << >> /\ pc = "edit" /\ first = 0 /\ i = 0 /\ j = 0
  /\ path = << >> /\ kids = {} /\ lc = {} /\ line = << >>

\* The tab key: the callback is called with the line.  A tab is in it only if
\* it comes from the history, of a session that did not read a terminal.
Tab(t) ==
  /\ pc = "edit"
  /\ typed' = t /\ pc' = "skip"
  /\ UNCHANGED <<first, i, j, path, kids, lc, line>>

Skip ==
  /\ pc = "skip" /\ first < Len(typed) /\ typed[first + 1] \in Blanks
  /\ first' = first + 1
  /\ UNCHANGED <<typed, pc, i, j, path, kids, lc, line>>

Skipped == pc = "skip" /\ (len > 0 => At(0) \notin Blanks)

NothingTyped ==
  /\ Skipped /\ len = 0
  /\ pc' = "shown"
  /\ UNCHANGED <<typed, first, i, j, path, kids, lc, line>>

\* A single candidate becomes the line, before it a part of the line.
Show(before, found) ==
  /\ lc' = found /\ pc' = "shown"
  /\ IF Cardinality(found) = 1 THEN \E name \in found : line' = before \o name
                               ELSE UNCHANGED line

\* command_completion
CompleteCommand ==
  /\ Skipped /\ len > 0 /\ \A k \in 0..(len - 1) : At(k) # " "
  /\ Show(<< >>, {name \in Commands : IsPrefix(buf, name)})
  /\ UNCHANGED <<typed, first, i, j, path, kids>>

\* Fault: from the end of the line, one past its last character.
CompletePathPast ==
  /\ Skipped /\ \E k \in 0..(len - 1) : At(k) = " "
  /\ i' = len /\ j' = len /\ pc' = "blank"
  /\ UNCHANGED <<typed, first, path, kids, lc, line>>

CompletePath ==
  /\ Skipped /\ \E k \in 0..(len - 1) : At(k) = " "
  /\ i' = len - 1 /\ j' = len - 1 /\ pc' = "blank"
  /\ UNCHANGED <<typed, first, path, kids, lc, line>>

BackToBlank ==
  /\ pc = "blank" /\ i >= 0 /\ At(i) \notin Blanks
  /\ i' = i - 1
  /\ UNCHANGED <<typed, pc, first, j, path, kids, lc, line>>

AtBlank ==
  /\ pc = "blank" /\ (i >= 0 => At(i) \in Blanks)
  /\ pc' = IF i = len - 1 THEN "shown" ELSE "slash"
  /\ UNCHANGED <<typed, first, i, j, path, kids, lc, line>>

BackToSlash ==
  /\ pc = "slash" /\ j > 0 /\ At(j) # "/"
  /\ j' = j - 1
  /\ UNCHANGED <<typed, pc, first, i, path, kids, lc, line>>

\* From the blank to the slash, with the slash.
Directory == SubSeq(buf, i + 2, j + 1)

\* "remove last '/' in path if exist"
Trimmed(p) == IF Len(p) > 1 /\ Last(p) = "/" THEN Front(p) ELSE p

AtSlash ==
  /\ pc = "slash" /\ ~(j > 0 /\ At(j) # "/")
  /\ IF j - i <= 0 THEN pc' = "shown" /\ UNCHANGED path
                   ELSE pc' = "ask" /\ path' = Trimmed(Directory)
  /\ UNCHANGED <<typed, first, i, j, kids, lc, line>>

\* Paths a server (not in this repository) takes.
Legal(p) ==
  /\ p # << >> /\ p[1] = "/"
  /\ \A k \in 1..Len(p) : p[k] \notin Blanks /\ (k > 1 /\ p[k] = "/" => p[k - 1] # "/")
  /\ Len(p) > 1 => Last(p) # "/"

\* zk_get_children: the children, or an error, which nobody looks at.
Ask ==
  /\ pc = "ask"
  /\ \/ Legal(path) /\ kids' \in SUBSET Names /\ pc' = "match"
     \/ pc' = "shown" /\ UNCHANGED kids
  /\ UNCHANGED <<typed, first, i, j, path, lc, line>>

\* Fault: the letters typed of the name are not compared.
MatchAll ==
  /\ pc = "match"
  /\ Show(SubSeq(buf, 1, j + 1), kids)
  /\ UNCHANGED <<typed, first, i, j, path, kids>>

\* Fault: the candidate is put where the blank is.
MatchAtBlank ==
  /\ pc = "match"
  /\ Show(SubSeq(buf, 1, i + 1), {name \in kids : IsPrefix(SubSeq(buf, j + 2, len), name)})
  /\ UNCHANGED <<typed, first, i, j, path, kids>>

Match ==
  /\ pc = "match"
  /\ Show(SubSeq(buf, 1, j + 1), {name \in kids : IsPrefix(SubSeq(buf, j + 2, len), name)})
  /\ UNCHANGED <<typed, first, i, j, path, kids>>

\* The user goes on.
Leave ==
  /\ pc = "shown"
  /\ typed' = << >> /\ pc' = "edit" /\ first' = 0 /\ i' = 0 /\ j' = 0
  /\ path' = << >> /\ kids' = {} /\ lc' = {} /\ line' = << >>

Next ==
  \/ \E t \in BoundedSeq(Chars, MaxLen) : Tab(t)
  \/ Skip \/ NothingTyped \/ CompleteCommand \/ CompletePath
  \/ BackToBlank \/ AtBlank \/ BackToSlash \/ AtSlash
  \/ Ask \/ Match \/ Leave

Spec == Init /\ [][Next]_vars

-----------------------------------------------------------------------------
(* Properties.                                                             *)

\* Types; every index the code looks at is one of the line.
TypeOK ==
  /\ typed \in Seq(Chars) /\ first \in 0..Len(typed)
  /\ pc \in {"edit", "skip", "blank", "slash", "ask", "match", "shown"}
  /\ pc \in {"blank", "slash", "ask", "match"} => i \in 0..(len - 1) /\ j \in 0..(len - 1)
  /\ path \in Seq(Chars) /\ kids \subseteq Names
  /\ lc \subseteq Commands \cup Names /\ line \in Seq(Chars)

\* What the user typed stays, but for blanks before the command: the line that
\* replaces it goes on from there (path_completion puts "user input" before
\* the only candidate, command_completion compares from its first letter on).
Extends == line # << >> => IsPrefix(buf, line)

\* "path like '/admin/' isn't allowed, we should trim it as /admin": what the
\* server is asked for does not end in a slash.
NoSlashAtEnd == pc = "ask" => Len(path) = 1 \/ Last(path) # "/"
=============================================================================
