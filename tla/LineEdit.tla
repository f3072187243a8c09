------------------------------ MODULE LineEdit ------------------------------
(***************************************************************************)
(* The lines of one file under sandbox-edit (sandboxEdit, tools.go:805-850)*)
(* Insert before start, or replace start..end, 1-based and inclusive; both *)
(* ends are cut to the file, and an end before start means insert.  Reading*)
(* and writing the file are requests of SandboxFiles; here one edit is one *)
(* step.                                                                   *)
(***************************************************************************)
EXTENDS Integers, Sequences

CONSTANTS
  Lines,     \* the lines there are
  Blank,     \* the empty line
  MaxLen,    \* bound on the lines of a file
  MaxEdits   \* bound on the edits in a row

VARIABLES
  file,      \* the file, split at its newlines: at least one line
  edits,     \* edits so far
  last       \* the last edit, and the file it was made in

editVars == <<file, edits, last>>

NoEdit == [start |-> 1, end |-> 0, new |-> <<>>, before |-> <<>>]

Init == file = <<Blank>> /\ edits = 0 /\ last = NoEdit

----------------------------------------------------------------------------
Cut(n, f) == IF n > Len(f) THEN Len(f) ELSE n

\* Without lines, Join gives the empty text, which Split reads as a blank line.
Rejoined(f) == IF f = <<>> THEN <<Blank>> ELSE f

\* Mutant: end counts from 0, as the slice does.
Spliced_OffByOne(f, start, end, new) ==
  SubSeq(f, 1, Cut(start - 1, f)) \o new
  \o SubSeq(f, Cut(end + 1, f) + 1, Len(f))

\* f with new in place of its lines start..end; end = start - 1 inserts.
Spliced(f, start, end, new) ==
  SubSeq(f, 1, Cut(start - 1, f)) \o new \o SubSeq(f, Cut(end, f) + 1, Len(f))

\* An end before start is no range: the edit inserts.
LastLine(start, end) == IF end < start THEN start - 1 ELSE end

\* new is <<>> if the content is empty.
Edit(start, end, new) ==
  /\ edits < MaxEdits
  /\ start >= 1
  /\ LET v == Spliced(file, start, LastLine(start, end), new)
     IN  /\ Len(v) <= MaxLen
         /\ file' = Rejoined(v)
  /\ edits' = edits + 1
  /\ last' = [start |-> start, end |-> LastLine(start, end), new |-> new,
              before |-> file]

\* start below 1, the default among them (tools.go:219-220): the slice is out
\* of range and the handler panics before it writes.
Panic(start) ==
  /\ edits < MaxEdits
  /\ start < 1
  /\ edits' = edits + 1
  /\ last' = NoEdit
  /\ UNCHANGED file

----------------------------------------------------------------------------
(* Properties *)

\* Lines outside the range survive an edit, in their order: the ones before
\* it where they were, the ones after it at the end, and nothing but the new
\* lines in between - also when the range reaches beyond the file.
EditKeepsOthers ==
  last # NoEdit =>
    LET f     == last.before
        n     == Len(f)
        head  == Cut(last.start - 1, f)
        tail  == n - Cut(last.end, f)
        whole == head + Len(last.new) + tail
    IN  IF whole = 0 THEN file = <<Blank>>
        ELSE /\ Len(file) = whole
             /\ \A i \in 1..head : file[i] = f[i]
             /\ \A i \in 1..Len(last.new) : file[head + i] = last.new[i]
             /\ \A i \in 1..tail : file[whole - tail + i] = f[n - tail + i]
=============================================================================
