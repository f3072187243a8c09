----------------------------- MODULE RunReport -----------------------------
(***************************************************************************)
(* What sandbox-run promises about one command that has started: it is     *)
(* answered at most once; the answer is the outcome, an error, or "still   *)
(* running in the background"; only a backgrounded command is followed by  *)
(* a mailbox notice, and by at most one.                                   *)
(***************************************************************************)
CONSTANTS Calls, Answers, Notices, None, Background

VARIABLES answer, notice

ReportInit ==
  /\ answer = [c \in Calls |-> None]
  /\ notice = [c \in Calls |-> None]

Answer(c) ==
  /\ answer[c] = None
  /\ \E a \in Answers : answer' = [answer EXCEPT ![c] = a]
  /\ UNCHANGED notice

Notify(c) ==
  /\ answer[c] = Background
  /\ notice[c] = None
  /\ \E n \in Notices : notice' = [notice EXCEPT ![c] = n]
  /\ UNCHANGED answer

ReportNext == \E c \in Calls : Answer(c) \/ Notify(c)

ReportSpec == ReportInit /\ [][ReportNext]_<<answer, notice>>
============================================================================
