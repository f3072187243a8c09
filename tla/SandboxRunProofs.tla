-------------------------- MODULE SandboxRunProofs -------------------------
(***************************************************************************)
(* What sandbox-run reports, for any number of calls and any exit codes:   *)
(* type correctness, that it implements RunReport, and that the watcher's  *)
(* notices name no exit code that the command did not end with.            *)
(***************************************************************************)
EXTENDS SandboxRun, TLAPS

\* A call is answered when its handler leaves the select; only then does the
\* watcher run, for a call told Background and not notified yet.
Phases ==
  \A c \in Calls :
    /\ handler[c] = "select" => /\ answer[c] = None
                                /\ notice[c] = None
    /\ stream[c]["bg"] \in {"connect", "read", "send"} =>
         answer[c] = Background /\ notice[c] = None

\* A stream that ended without an error, and not by an end of file, carries
\* the job's exit code.
Outcome ==
  \A c \in Calls, k \in Kinds :
    stream[c][k] = "send" /\ err[c][k] = "nil" /\ code[c][k] \in Codes =>
      job[c] # Running /\ job[c] = code[c][k]

\* A notice that names an exit code names that of a job that ended.
Noticed ==
  \A c \in Calls :
    notice[c].kind = "finished" /\ notice[c].code \in Codes =>
      job[c] # Running /\ job[c] = notice[c].code

\* The records an answer or a notice can be, told apart.
LEMMA Records ==
  /\ None.kind = "none" /\ Background.kind = "background"
  /\ Broken.kind = "broken" /\ None # Background
  /\ \A n : Finished(n).kind = "finished" /\ Finished(n).code = n
  /\ \A n : Completed(n) # None /\ Finished(n) # None
  /\ Failed # None /\ Broken # None
  BY DEF None, Background, Broken, Finished, Completed, Failed

LEMMA Ranges ==
  /\ \A n \in Reported : Completed(n) \in Answers /\ Finished(n) \in Notices
  /\ Failed \in Answers /\ Background \in Answers /\ Broken \in Notices
  /\ Codes \subseteq Reported /\ 0 \in Reported /\ -1 \in Reported
  /\ Running \notin Codes
  BY CodeAssumption DEF Answers, Notices, Reported, Running

----------------------------------------------------------------------------
LEMMA TypeInit == Init => TypeOK
  BY Ranges DEF Init, TypeOK, Kinds

LEMMA EndsType ==
  ASSUME TypeOK, NEW c \in Calls, NEW k \in Kinds, NEW n \in Reported,
         NEW e \in {"nil", "net", "deadline", "canceled"}, Ends(c, k, n, e)
  PROVE  TypeOK'
  BY DEF TypeOK, Ends

LEMMA TypeStep == TypeOK /\ [Next]_vars => TypeOK'
<1> SUFFICES ASSUME TypeOK, [Next]_vars PROVE TypeOK'
  OBVIOUS
<1>1. ASSUME NEW c \in Calls, NEW k \in Kinds, StreamStep(c, k)
      PROVE  TypeOK'
  <2>1. CASE Connect(c, k)
    BY <2>1 DEF TypeOK, Connect
  <2>2. CASE ConnectFails(c, k)
    <3>1. PICK e \in DialErrors(c, k) : Ends(c, k, 0, e)
      BY <2>2 DEF ConnectFails
    <3>2. e \in {"nil", "net", "deadline", "canceled"}
      BY DEF TypeOK, DialErrors, StreamErrors
    <3> QED
      BY <3>1, <3>2, Ranges, EndsType
  <2>3. CASE JobCompleted(c, k)
    <3>1. job[c] \in Reported
      BY <2>3, Ranges DEF TypeOK, JobCompleted
    <3> QED
      BY <2>3, <3>1, EndsType DEF JobCompleted
  <2>4. CASE ReadFails(c, k)
    <3>1. PICK e \in StreamErrors(c, k) : Ends(c, k, -1, e)
      BY <2>4 DEF ReadFails
    <3>2. e \in {"nil", "net", "deadline", "canceled"}
      BY DEF TypeOK, StreamErrors
    <3> QED
      BY <3>1, <3>2, Ranges, EndsType
  <2>5. CASE Eof(c, k)
    <3> DEFINE e == IF ctx[c][k] = "live" THEN "nil" ELSE ctx[c][k]
    <3>1. e \in {"nil", "net", "deadline", "canceled"}
      BY DEF TypeOK
    <3>2. Ends(c, k, -1, e)
      BY <2>5 DEF Eof
    <3> HIDE DEF e
    <3> QED
      BY <3>1, <3>2, Ranges, EndsType
  <2> QED
    BY <1>1, <2>1, <2>2, <2>3, <2>4, <2>5 DEF StreamStep
<1>2. ASSUME NEW c \in Calls, NEW k \in Kinds, Deadline(c, k) PROVE TypeOK'
  BY <1>2 DEF TypeOK, Deadline
<1>3. ASSUME NEW c \in Calls, Send(c) PROVE TypeOK'
  BY <1>3 DEF TypeOK, Send, Kinds
<1>4. ASSUME NEW c \in Calls, TakeResult(c) PROVE TypeOK'
  <2>1. code[c]["fg"] \in Reported
    BY DEF TypeOK, Kinds
  <2>2. PICK a \in Answers : Returns(c, a)
    BY <1>4, <2>1, Ranges DEF TakeResult
  <2> QED
    BY <1>4, <2>2 DEF TypeOK, TakeResult, Returns, Kinds
<1>5. ASSUME NEW c \in Calls, TakeDone(c) PROVE TypeOK'
  BY <1>5, Ranges DEF TypeOK, TakeDone, Returns, Kinds
<1>6. ASSUME NEW c \in Calls, Notify(c) PROVE TypeOK'
  <2>1. code[c]["bg"] \in Reported
    BY DEF TypeOK, Kinds
  <2>2. PICK n \in Notices : notice' = [notice EXCEPT ![c] = n]
    BY <1>6, <2>1, Ranges DEF Notify
  <2> QED
    BY <1>6, <2>2 DEF TypeOK, Notify, Kinds
<1>7. ASSUME NEW c \in Calls, Cancel(c) PROVE TypeOK'
  BY <1>7 DEF TypeOK, Cancel, Kinds
<1>8. ASSUME NEW c \in Calls, JobExit(c) PROVE TypeOK'
  BY <1>8 DEF TypeOK, JobExit
<1>9. CASE Crash
  BY <1>9 DEF TypeOK, Crash
<1>10. CASE UNCHANGED vars
  BY <1>10 DEF TypeOK, vars
<1>11. ASSUME NEW c \in Calls, NotifyFails(c) PROVE TypeOK'
  BY <1>11 DEF TypeOK, NotifyFails, Kinds
<1> QED
  BY <1>1, <1>2, <1>3, <1>4, <1>5, <1>6, <1>7, <1>8, <1>9, <1>10,
     <1>11 DEF Next

\* Every variable keeps its type.
THEOREM RunTypeCorrect == Spec => []TypeOK
  BY TypeInit, TypeStep, PTL DEF Spec

----------------------------------------------------------------------------
(* The phases of a call, and the refinement *)

LEMMA PhasesInit == Init => Phases
<1> SUFFICES ASSUME Init, NEW c \in Calls
             PROVE  /\ answer[c] = None /\ notice[c] = None
                    /\ stream[c]["bg"] = "off"
  BY DEF Phases
<1>1. stream[c] = [k \in Kinds |-> IF k = "fg" THEN "connect" ELSE "off"]
  BY DEF Init
<1>2. stream[c]["bg"] = "off"
  BY <1>1 DEF Kinds
<1> QED
  BY <1>2 DEF Init

LEMMA PhasesStep == TypeOK /\ Phases /\ [Next]_vars => Phases'
<1> SUFFICES ASSUME TypeOK, Phases, [Next]_vars PROVE Phases'
  OBVIOUS
<1> USE DEF TypeOK, Phases, Kinds
<1>1. ASSUME NEW c \in Calls, NEW k \in Kinds, StreamStep(c, k)
      PROVE  Phases'
  <2>1. /\ stream[c][k] \in {"connect", "read"}
        /\ stream'[c][k] \in {"read", "send"}
        /\ \A d \in Calls, l \in Kinds :
             d # c \/ l # k => stream'[d][l] = stream[d][l]
        /\ UNCHANGED <<handler, answer, notice, lost>>
    BY <1>1 DEF StreamStep, Connect, ConnectFails, JobCompleted, ReadFails,
                Eof, Ends
  <2> QED
    BY <2>1
<1>2. ASSUME NEW c \in Calls, NEW k \in Kinds, Deadline(c, k) PROVE Phases'
  BY <1>2 DEF Deadline
<1>3. ASSUME NEW c \in Calls, Send(c) PROVE Phases'
  BY <1>3 DEF Send
<1>4. ASSUME NEW c \in Calls, TakeResult(c) PROVE Phases'
  BY <1>4, Records DEF TakeResult, Returns
<1>5. ASSUME NEW c \in Calls, TakeDone(c) PROVE Phases'
  BY <1>5 DEF TakeDone, Returns
<1>6. ASSUME NEW c \in Calls, Notify(c) PROVE Phases'
  BY <1>6, Records DEF Notify
<1>7. ASSUME NEW c \in Calls, Cancel(c) PROVE Phases'
  BY <1>7 DEF Cancel
<1>8. ASSUME NEW c \in Calls, JobExit(c) PROVE Phases'
  BY <1>8 DEF JobExit
<1>9. CASE Crash
  BY <1>9 DEF Crash
<1>10. CASE UNCHANGED vars
  BY <1>10 DEF vars
<1>11. ASSUME NEW c \in Calls, NotifyFails(c) PROVE Phases'
  BY <1>11 DEF NotifyFails
<1> QED
  BY <1>1, <1>2, <1>3, <1>4, <1>5, <1>6, <1>7, <1>8, <1>9, <1>10,
     <1>11 DEF Next

LEMMA ReportInits == Init => Report!ReportInit
  BY DEF Init, Report!ReportInit

\* Answering is the abstract Answer, notifying the abstract Notify, and every
\* other step changes neither.
LEMMA ReportStep ==
  TypeOK /\ Phases /\ [Next]_vars =>
    [Report!ReportNext]_<<answer, notice>>
<1> SUFFICES ASSUME TypeOK, Phases, [Next]_vars
             PROVE  [Report!ReportNext]_<<answer, notice>>
  OBVIOUS
<1>1. ASSUME NEW c \in Calls, NEW a \in Answers, handler[c] = "select",
             Returns(c, a), UNCHANGED notice
      PROVE  Report!ReportNext
  BY <1>1 DEF Returns, Phases, Report!ReportNext, Report!Answer
<1>2. ASSUME NEW c \in Calls, TakeResult(c) PROVE Report!ReportNext
  <2>1. code[c]["fg"] \in Reported
    BY DEF TypeOK, Kinds
  <2>2. PICK a \in Answers : Returns(c, a)
    BY <1>2, <2>1, Ranges DEF TakeResult
  <2> QED
    BY <1>1, <1>2, <2>2 DEF TakeResult
<1>3. ASSUME NEW c \in Calls, TakeDone(c) PROVE Report!ReportNext
  BY <1>1, <1>3, Ranges DEF TakeDone
<1>4. ASSUME NEW c \in Calls, Notify(c) PROVE Report!ReportNext
  <2>1. code[c]["bg"] \in Reported
    BY DEF TypeOK, Kinds
  <2>2. PICK n \in Notices : notice' = [notice EXCEPT ![c] = n]
    BY <1>4, <2>1, Ranges DEF Notify
  <2>3. answer[c] = Background /\ notice[c] = None /\ UNCHANGED answer
    BY <1>4 DEF Notify, Phases
  <2>4. Report!Notify(c)
    BY <2>2, <2>3 DEF Report!Notify
  <2> QED
    BY <2>4 DEF Report!ReportNext
<1>5. ASSUME NEW c \in Calls, NEW k \in Kinds, StreamStep(c, k)
      PROVE  UNCHANGED <<answer, notice>>
  BY <1>5 DEF StreamStep, Connect, ConnectFails, JobCompleted, ReadFails,
              Eof, Ends
<1>6. ASSUME NEW c \in Calls, NEW k \in Kinds, Deadline(c, k)
      PROVE  UNCHANGED <<answer, notice>>
  BY <1>6 DEF Deadline
<1>7. ASSUME NEW c \in Calls, Send(c) \/ Cancel(c) \/ JobExit(c)
      PROVE  UNCHANGED <<answer, notice>>
  BY <1>7 DEF Send, Cancel, JobExit
<1>8. CASE Crash
  BY <1>8 DEF Crash
<1>9. CASE UNCHANGED vars
  BY <1>9 DEF vars
<1>10. ASSUME NEW c \in Calls, NotifyFails(c)
       PROVE  UNCHANGED <<answer, notice>>
  BY <1>10 DEF NotifyFails
<1> QED
  BY <1>2, <1>3, <1>4, <1>5, <1>6, <1>7, <1>8, <1>9, <1>10
     DEF Next

\* sandbox-run keeps what RunReport promises: one answer per call, and one
\* notice at most, for a backgrounded call only.
THEOREM RunImplementsReport == Spec => ReportedOnce
<1>1. TypeOK /\ Phases /\ [Next]_vars => TypeOK' /\ Phases'
  BY TypeStep, PhasesStep
<1> QED
  BY TypeInit, PhasesInit, ReportInits, ReportStep, <1>1, PTL
     DEF Spec, ReportedOnce, Report!ReportSpec

----------------------------------------------------------------------------
(* Honest notices *)

Honest == Outcome /\ Noticed

LEMMA HonestInit == Init => Honest
  BY Records DEF Init, Honest, Outcome, Noticed, Kinds

LEMMA HonestStep ==
  ASSUME TypeOK, Honest, [Next]_vars
  PROVE  Honest'
<1> USE DEF TypeOK, Honest, Outcome, Noticed, Kinds
<1>1. ASSUME NEW c \in Calls, NEW k \in Kinds, StreamStep(c, k)
      PROVE  Honest'
  <2>1. CASE Connect(c, k)
    BY <2>1 DEF Connect
  <2>2. CASE ConnectFails(c, k)
    <3>1. PICK e \in DialErrors(c, k) : Ends(c, k, 0, e)
      BY <2>2 DEF ConnectFails
    <3>2. e # "nil"
      BY DEF DialErrors, StreamErrors
    <3> QED
      BY <3>1, <3>2 DEF Ends
  <2>3. CASE JobCompleted(c, k)
    BY <2>3 DEF JobCompleted, Ends
  <2>4. CASE ReadFails(c, k)
    <3>1. PICK e \in StreamErrors(c, k) : Ends(c, k, -1, e)
      BY <2>4 DEF ReadFails
    <3>2. e # "nil"
      BY DEF StreamErrors
    <3> QED
      BY <3>1, <3>2 DEF Ends
  <2>5. CASE Eof(c, k)
    <3>1. PICK e : Ends(c, k, -1, e)
      BY <2>5 DEF Eof
    <3>2. -1 \notin Codes
      BY Ranges DEF Running
    <3> QED
      BY <3>1, <3>2 DEF Ends
  <2> QED
    BY <1>1, <2>1, <2>2, <2>3, <2>4, <2>5 DEF StreamStep
<1>2. ASSUME NEW c \in Calls, NEW k \in Kinds, Deadline(c, k) PROVE Honest'
  BY <1>2 DEF Deadline
<1>3. ASSUME NEW c \in Calls, Send(c) PROVE Honest'
  BY <1>3 DEF Send
<1>4. ASSUME NEW c \in Calls, TakeResult(c) \/ Cancel(c) PROVE Honest'
  BY <1>4 DEF TakeResult, Cancel, Returns
<1>5. ASSUME NEW c \in Calls, TakeDone(c) PROVE Honest'
  BY <1>5 DEF TakeDone, Returns
<1>6. ASSUME NEW c \in Calls, Notify(c) PROVE Honest'
  <2>1. Outcome'
    BY <1>6 DEF Notify
  <2>2. CASE err[c]["bg"] = "nil"
    <3>1. notice' = [notice EXCEPT ![c] = Finished(code[c]["bg"])]
      BY <1>6, <2>2 DEF Notify
    <3>2. /\ code[c]["bg"] \in Codes =>
               job[c] # Running /\ job[c] = code[c]["bg"]
          /\ UNCHANGED job
      BY <1>6, <2>2 DEF Notify
    <3> QED
      BY <2>1, <3>1, <3>2, Records
  <2>3. CASE err[c]["bg"] # "nil"
    <3>1. notice' = [notice EXCEPT ![c] = Broken] /\ UNCHANGED job
      BY <1>6, <2>3 DEF Notify
    <3> QED
      BY <2>1, <3>1, Records
  <2> QED
    BY <2>2, <2>3
<1>7. ASSUME NEW c \in Calls, JobExit(c) PROVE Honest'
  BY <1>7 DEF JobExit
<1>8. CASE Crash
  BY <1>8 DEF Crash
<1>9. CASE UNCHANGED vars
  BY <1>9 DEF vars
<1>11. ASSUME NEW c \in Calls, NotifyFails(c) PROVE Honest'
  BY <1>11 DEF NotifyFails
<1> QED
  BY <1>1, <1>2, <1>3, <1>4, <1>5, <1>6, <1>7, <1>8, <1>9,
     <1>11 DEF Next

\* Whatever breaks the streams, the watcher's notice never names an exit code
\* the command did not end with.
THEOREM NoticesAreHonest == Spec => []HonestNotice
<1>1. TypeOK /\ Honest /\ [Next]_vars => TypeOK' /\ Honest'
  BY TypeStep, HonestStep
<1>2. Honest => HonestNotice
  BY DEF Honest, Noticed, HonestNotice
<1> QED
  BY TypeInit, HonestInit, <1>1, <1>2, PTL DEF Spec

----------------------------------------------------------------------------
(* The safety halves of EveryRunAnswers, BackgroundIsNoticed and           *)
(* NoGoroutineLeaks: whoever waits has something to wait for.              *)

AtWork == {"connect", "read", "send"}

\* A handler in its select has a result to take or a reader that will send
\* one; the reader's send finds resultCh empty; once the handler returned, the
\* reader's context has ended; and a call told "you will be notified" has a
\* notice or a watcher, unless ops-extension died.
NobodyIsForgotten ==
  \A c \in Calls :
    /\ handler[c] = "select" => sent[c] \/ stream[c]["fg"] \in AtWork
    /\ stream[c]["fg"] = "send" => ~sent[c]
    /\ handler[c] = "returned" => ctx[c]["fg"] # "live"
    /\ answer[c] = Background =>
         \/ notice[c] # None \/ handler[c] = "dead" \/ lost[c]
         \/ stream[c]["bg"] \in AtWork

\* What a stream still has to do, at most.
StreamStepsLeft(c, k) ==
  CASE stream[c][k] = "off"     -> 4
    [] stream[c][k] = "connect" -> 3
    [] stream[c][k] = "read"    -> 2
    [] stream[c][k] = "send"    -> 1
    [] stream[c][k] = "ended"   -> 0

\* No stream starts again: a job has one reader and one watcher, whatever the
\* order in which the result, the timeout and the interrupt come.
StreamsDescend ==
  \A c \in Calls, k \in Kinds :
    /\ StreamStepsLeft(c, k)' <= StreamStepsLeft(c, k)
    /\ StreamStep(c, k) => StreamStepsLeft(c, k)' < StreamStepsLeft(c, k)

\* The strengthening: the watcher starts after the select only, and a result
\* was sent by a reader that has ended.
Waiting ==
  /\ NobodyIsForgotten
  /\ \A c \in Calls :
       /\ handler[c] = "select" =>
            stream[c]["bg"] = "off" /\ answer[c] = None
       /\ sent[c] => stream[c]["fg"] = "ended"

LEMMA WaitingInit == Init => Waiting
<1> SUFFICES ASSUME Init, NEW c \in Calls
             PROVE  /\ stream[c]["fg"] = "connect" /\ stream[c]["bg"] = "off"
                    /\ handler[c] = "select" /\ ~sent[c] /\ answer[c] = None
  BY Records DEF Waiting, NobodyIsForgotten, AtWork
<1>1. stream[c] = [k \in Kinds |-> IF k = "fg" THEN "connect" ELSE "off"]
  BY DEF Init
<1> QED
  BY <1>1 DEF Init, Kinds

LEMMA WaitingStep ==
  ASSUME TypeOK, Waiting, [Next]_vars
  PROVE  Waiting'
<1> USE DEF TypeOK, Waiting, NobodyIsForgotten, AtWork, Kinds
<1>1. ASSUME NEW c \in Calls, NEW k \in Kinds, StreamStep(c, k)
      PROVE  Waiting'
  <2>1. /\ stream[c][k] \in {"connect", "read"}
        /\ stream'[c][k] \in {"read", "send"}
        /\ \A d \in Calls, l \in Kinds :
             d # c \/ l # k => stream'[d][l] = stream[d][l]
        /\ UNCHANGED <<ctx, sent, handler, answer, notice, lost>>
    BY <1>1 DEF StreamStep, Connect, ConnectFails, JobCompleted, ReadFails,
                Eof, Ends
  <2> QED
    BY <2>1
<1>2. ASSUME NEW c \in Calls, NEW k \in Kinds, Deadline(c, k) PROVE Waiting'
  BY <1>2 DEF Deadline
<1>3. ASSUME NEW c \in Calls, Send(c) PROVE Waiting'
  BY <1>3 DEF Send
<1>4. ASSUME NEW c \in Calls, TakeResult(c) PROVE Waiting'
  <2>1. PICK a : a # Background /\ Returns(c, a)
    BY <1>4 DEF TakeResult, Completed, Failed, Background
  <2>2. UNCHANGED <<stream, sent, notice, lost>>
    BY <1>4 DEF TakeResult
  <2>3. /\ answer' = [answer EXCEPT ![c] = a]
        /\ handler' = [handler EXCEPT ![c] = "returned"]
        /\ ctx' = [ctx EXCEPT ![c]["fg"] = IF @ = "live" THEN "canceled" ELSE @]
    BY <2>1 DEF Returns
  <2> QED
    BY <2>1, <2>2, <2>3
<1>5. ASSUME NEW c \in Calls, TakeDone(c) PROVE Waiting'
  <2>1. /\ answer' = [answer EXCEPT ![c] = Background]
        /\ handler' = [handler EXCEPT ![c] = "returned"]
        /\ ctx' = [ctx EXCEPT ![c]["fg"] = IF @ = "live" THEN "canceled" ELSE @]
        /\ stream' = [stream EXCEPT ![c]["bg"] = "connect"]
        /\ UNCHANGED <<sent, notice, lost>>
    BY <1>5 DEF TakeDone, Returns
  <2> QED
    BY <2>1
<1>6. ASSUME NEW c \in Calls, Notify(c) PROVE Waiting'
  <2>1. PICK n : n # None /\ notice' = [notice EXCEPT ![c] = n]
    BY <1>6, Records DEF Notify
  <2>2. /\ stream' = [stream EXCEPT ![c]["bg"] = "ended"]
        /\ stream[c]["bg"] = "send"
        /\ UNCHANGED <<ctx, sent, handler, answer, lost>>
    BY <1>6 DEF Notify
  <2> QED
    BY <2>1, <2>2
<1>7. ASSUME NEW c \in Calls, Cancel(c) PROVE Waiting'
  BY <1>7 DEF Cancel
<1>8. ASSUME NEW c \in Calls, JobExit(c) PROVE Waiting'
  BY <1>8 DEF JobExit
<1>9. CASE Crash
  BY <1>9 DEF Crash
<1>10. CASE UNCHANGED vars
  BY <1>10 DEF vars
<1>11. ASSUME NEW c \in Calls, NotifyFails(c) PROVE Waiting'
  BY <1>11 DEF NotifyFails
<1> QED
  BY <1>1, <1>2, <1>3, <1>4, <1>5, <1>6, <1>7, <1>8, <1>9, <1>10,
     <1>11 DEF Next

LEMMA StreamsStep ==
  ASSUME TypeOK, Waiting, [Next]_vars
  PROVE  [StreamsDescend]_vars
<1> USE DEF TypeOK, Kinds, StreamStepsLeft
<1>1. ASSUME NEW c \in Calls, NEW k \in Kinds, StreamStep(c, k)
      PROVE  StreamStepsLeft(c, k)' < StreamStepsLeft(c, k)
  <2>1. \/ stream[c][k] = "connect" /\ stream'[c][k] \in {"read", "send"}
        \/ stream[c][k] = "read" /\ stream'[c][k] = "send"
    BY <1>1 DEF StreamStep, Connect, ConnectFails, JobCompleted, ReadFails,
                Eof, Ends
  <2> QED
    BY <2>1
<1>2. SUFFICES ASSUME Next, NEW c \in Calls, NEW k \in Kinds
               PROVE  \/ stream'[c][k] = stream[c][k]
                      \/ stream'[c][k] = "ended"
                      \/ stream[c][k] = "off" /\ stream'[c][k] = "connect"
                      \/ stream[c][k] = "connect"
                           /\ stream'[c][k] \in {"read", "send"}
                      \/ stream[c][k] = "read" /\ stream'[c][k] = "send"
  <2>1. ASSUME NEW c \in Calls, NEW k \in Kinds,
               \/ stream'[c][k] = stream[c][k]
               \/ stream'[c][k] = "ended"
               \/ stream[c][k] = "off" /\ stream'[c][k] = "connect"
               \/ stream[c][k] = "connect"
                    /\ stream'[c][k] \in {"read", "send"}
               \/ stream[c][k] = "read" /\ stream'[c][k] = "send"
        PROVE  StreamStepsLeft(c, k)' <= StreamStepsLeft(c, k)
    BY <2>1
  <2> QED
    BY <1>1, <1>2, <2>1 DEF StreamsDescend
<1>3. ASSUME NEW d \in Calls, NEW l \in Kinds, StreamStep(d, l)
      PROVE  /\ \/ stream[d][l] = "connect"
                     /\ stream'[d][l] \in {"read", "send"}
                \/ stream[d][l] = "read" /\ stream'[d][l] = "send"
             /\ c # d \/ k # l => stream'[c][k] = stream[c][k]
  BY <1>3 DEF StreamStep, Connect, ConnectFails, JobCompleted, ReadFails,
              Eof, Ends
<1>4. ASSUME NEW d \in Calls, TakeDone(d)
      PROVE  \/ stream'[c][k] = stream[c][k]
             \/ stream[c][k] = "off" /\ stream'[c][k] = "connect"
  BY <1>4 DEF TakeDone, Waiting
<1>5. ASSUME NEW d \in Calls, Send(d) \/ Notify(d) \/ NotifyFails(d)
      PROVE  stream'[c][k] = stream[c][k] \/ stream'[c][k] = "ended"
  <2>1. PICK l \in Kinds :
          stream' = [stream EXCEPT ![d][l] = "ended"]
    BY <1>5 DEF Send, Notify, NotifyFails
  <2> QED
    BY <2>1
<1>6. ASSUME NEW d \in Calls, TakeResult(d) \/ Cancel(d) \/ JobExit(d)
      PROVE  UNCHANGED stream
  BY <1>6 DEF TakeResult, Cancel, JobExit
<1>7. ASSUME NEW d \in Calls, NEW l \in Kinds, Deadline(d, l)
      PROVE  UNCHANGED stream
  BY <1>7 DEF Deadline
<1>8. CASE Crash
  BY <1>8 DEF Crash
<1> QED
  BY <1>2, <1>3, <1>4, <1>5, <1>6, <1>7, <1>8 DEF Next

LEMMA WaitingAlways == Spec => []Waiting
<1>1. TypeOK /\ Waiting /\ [Next]_vars => TypeOK' /\ Waiting'
  BY TypeStep, WaitingStep
<1> QED
  BY TypeInit, WaitingInit, <1>1, PTL DEF Spec

\* Every wait of sandbox-run has its source, and every backgrounded command
\* its watcher or its notice: what is left of the three liveness properties is
\* that timers fire and goroutines run.
THEOREM EveryoneIsAnswered == Spec => []NobodyIsForgotten
<1>1. Waiting => NobodyIsForgotten
  BY DEF Waiting
<1> QED
  BY WaitingAlways, <1>1, PTL

\* A stream that ended stays ended, and every step of a stream brings it
\* nearer to its end.
THEOREM StreamsEndOnce == Spec => [][StreamsDescend]_vars
<1>1. TypeOK /\ Waiting /\ [Next]_vars => [StreamsDescend]_vars
  BY StreamsStep
<1> QED
  BY RunTypeCorrect, WaitingAlways, <1>1, PTL DEF Spec
============================================================================
