---------------------------- MODULE AtomicFiles ----------------------------
(***************************************************************************)
(* What the file tools promise of a session's sandbox and its repository:  *)
(* a call changes only the file or the directory it names, a port adds one *)
(* revision, an answer "ok" means that the call had its effect, and a call *)
(* that nothing overlapped is atomic - an edit is applied to the file that *)
(* is there, a port commits the files that are there.                      *)
(***************************************************************************)
EXTENDS Sequences, Naturals

CONSTANTS
  Files,    \* the files of a directory
  Calls,    \* tool calls, each made at most once; also what a call writes
  Pushes    \* changes others push; also what they write

Absent  == {"absent"}                        \* there is no such file
Content == (SUBSET (Calls \cup Pushes)) \cup {Absent}
Tree    == [Files -> Content]

None == [tool |-> "none", on |-> {}]
Op   == [tool : {"read", "write", "edit", "port"}, on : {{f} : f \in Files}]
          \cup [tool : {"portdir"}, on : {Files}]

VARIABLES
  repo,     \* the revisions of the session's bookmark, oldest first
  pod,      \* the tree in the sandbox
  op,       \* op[c]: what call c does, None before it begins
  answer,   \* answer[c]: "none" while it has none, "ok" or "error"
  alone     \* alone[c]: no other call and no accident overlapped c

vars == <<repo, pod, op, answer, alone>>

Newest     == repo[Len(repo)]
Missing    == [f \in Files |-> Absent]
Running(c) == op[c] # None /\ answer[c] = "none"

\* The tracked files become the revision's, the others stay.
Overlay(tree) ==
  [f \in Files |-> IF tree[f] = Absent THEN pod[f] ELSE tree[f]]

Init ==
  /\ \E t \in [Files -> {{}, Absent}] :
       /\ repo = <<t>>
       /\ pod \in {t, Missing}
  /\ op = [c \in Calls |-> None]
  /\ answer = [c \in Calls |-> "none"]
  /\ alone = [c \in Calls |-> FALSE]

----------------------------------------------------------------------------
Begin(c) ==
  /\ op[c] = None
  /\ \E o \in Op : op' = [op EXCEPT ![c] = o]
  /\ alone' = [d \in Calls |-> IF d = c THEN \A e \in Calls : ~Running(e)
                                        ELSE alone[d] /\ ~Running(d)]
  /\ UNCHANGED <<repo, pod, answer>>

Reply(c, a) == answer' = [answer EXCEPT ![c] = a]

\* A call ends without an effect: only a read may succeed so.
End(c) ==
  /\ Running(c)
  /\ \/ op[c].tool = "read" /\ Reply(c, "ok")
     \/ Reply(c, "error")
  /\ UNCHANGED <<repo, pod, op, alone>>

\* A write or an edit changes its file; the answer may be lost.
Change(c) ==
  /\ Running(c)
  /\ op[c].tool \in {"write", "edit"}
  /\ \E f \in op[c].on, t \in Content :
       /\ pod' = [pod EXCEPT ![f] = t]
       /\ op[c].tool = "write" => t = {c}
       /\ op[c].tool = "edit" => c \in t
       /\ op[c].tool = "edit" /\ alone[c]
            => pod[f] # Absent /\ t = pod[f] \cup {c}
  /\ \E a \in {"ok", "error"} : Reply(c, a)
  /\ UNCHANGED <<repo, op, alone>>

\* A port adds one revision with files of the sandbox on top of the head.
Port(c) ==
  /\ Running(c)
  /\ op[c].tool \in {"port", "portdir"}
  /\ \E F \in (SUBSET op[c].on) \ {{}}, t \in Tree :
       /\ repo' = Append(repo,
                    [f \in Files |-> IF f \in F THEN t[f] ELSE Newest[f]])
       /\ \A f \in F : t[f] # Absent
       /\ alone[c] => \A f \in op[c].on :
                        IF f \in F THEN t[f] = pod[f] ELSE pod[f] = Absent
  /\ \E a \in {"ok", "error"} : Reply(c, a)
  /\ UNCHANGED <<pod, op, alone>>

\* A read or an edit brings a revision to the sandbox, before it does more.
Refresh ==
  /\ \E i \in DOMAIN repo : pod' = Overlay(repo[i])
  /\ UNCHANGED <<repo, op, answer, alone>>

\* Somebody else's revision.
Push ==
  /\ \E f \in Files, p \in Pushes :
       repo' = Append(repo, [Newest EXCEPT ![f] = {p}])
  /\ UNCHANGED <<pod, op, answer, alone>>

\* The pod is replaced, or a sync its caller gave up arrives.
Accident ==
  /\ pod' = Missing \/ \E i \in DOMAIN repo : pod' = Overlay(repo[i])
  /\ alone' = [c \in Calls |-> alone[c] /\ ~Running(c)]
  /\ UNCHANGED <<repo, op, answer>>

Next ==
  \/ \E c \in Calls : Begin(c) \/ End(c) \/ Change(c) \/ Port(c)
  \/ Refresh \/ Push \/ Accident

Spec == Init /\ [][Next]_vars
=============================================================================
