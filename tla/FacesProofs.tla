---------------------------- MODULE FacesProofs ----------------------------
(***************************************************************************)
(* What the parts behind the router promise, whatever else is served and   *)
(* for every value of the constants.  The parts share no variable, so each *)
(* has an invariant of its own, and a step of one leaves the others alone: *)
(*   - a worker that answers at all answers in time, for any length of the *)
(*     waits, the read deadline and the lags that leave the margin the code*)
(*     claims;                                                             *)
(*   - no pump of the proxy is left behind by the other or by the handler; *)
(*   - what a handler answers is so, and what a publishing step reads has  *)
(*     reached it;                                                         *)
(*   - an edit keeps the lines outside its range, for files of any length; *)
(*   - session names and sandbox keys are unique, for names of any length. *)
(***************************************************************************)
EXTENDS Faces, SequenceTheorems, TLAPS

----------------------------------------------------------------------------
(* The socket *)

\* While a request is read for, the deadline is later than the reply: a worker
\* that holds it has less left than the deadline, and once it has replied the
\* clock stands until the reply is read.
InTime ==
  rpc = "recv" =>
    /\ worker = "busy" => held < left
    /\ worker = "replied" => left > 0
    /\ worker \notin {"free", "full"}

\* There is an answer only once the command has returned.
Answered == answer # "none" => rpc = "returned"

Messages == {"event", "ok", "refused"}

SocketInv == Socket!TypeOK /\ InTime /\ Answered /\ Socket!WaitInTime

LEMMA SocketInit == Socket!Init => SocketInv
<1> SUFFICES ASSUME Socket!Init PROVE SocketInv
  OBVIOUS
<1>1. wire \in Seq(Messages)
  BY DEF Socket!Init
<1> QED
  BY <1>1
     DEF Socket!Init, SocketInv, Socket!TypeOK, InTime, Answered,
         Socket!WaitInTime, Messages

LEMMA SendStep ==
  ASSUME Socket!SocketAssumption, SocketInv,
         NEW lag \in 0..Lag, Socket!Send(lag)
  PROVE  SocketInv'
<1>1. Socket!AtMost(wait, WaitCap) \in 0..WaitCap
  <2>1. wait \in Nat
    BY DEF SocketInv, Socket!TypeOK
  <2> QED
    BY <2>1 DEF Socket!AtMost, Socket!SocketAssumption
<1>2. held' \in Nat /\ held' < left' /\ left' \in Nat
  BY <1>1 DEF Socket!Send, Socket!ReadDeadline, Socket!SocketAssumption
<1> QED
  BY <1>2
     DEF Socket!Send, SocketInv, Socket!TypeOK, InTime, Answered,
         Socket!WaitInTime

LEMMA SocketStep ==
  ASSUME Socket!SocketAssumption
  PROVE  SocketInv /\ [Socket!Next]_(Socket!socketVars) => SocketInv'
<1> SUFFICES ASSUME SocketInv, [Socket!Next]_(Socket!socketVars)
             PROVE  SocketInv'
  OBVIOUS
<1>1. ASSUME NEW face \in {"http", "tool"}, NEW m \in Socket!Methods,
             NEW t \in 0..MaxWait, Socket!Ask(face, m, t)
      PROVE  SocketInv'
  <2>1. Socket!Waits(face, t) \in Nat
    BY DEF Socket!SocketAssumption, Socket!Waits, Socket!AtMost
  <2> QED
    BY <1>1, <2>1
       DEF Socket!Ask, SocketInv, Socket!TypeOK, InTime, Answered,
           Socket!WaitInTime
<1>2. CASE \/ Socket!NoCommand \/ Socket!Resolve \/ Socket!ResolveFails
           \/ Socket!Dial \/ Socket!DialFails \/ Socket!SendFails
  BY <1>2
     DEF Socket!NoCommand, Socket!Resolve, Socket!ResolveFails, Socket!Dial,
         Socket!DialFails, Socket!SendFails, Socket!Return, SocketInv,
         Socket!TypeOK, InTime, Answered, Socket!WaitInTime, Socket!Methods
<1>3. ASSUME NEW lag \in 0..Lag, Socket!Send(lag) PROVE SocketInv'
  BY <1>3, SendStep
<1>4. CASE Socket!Recv
  <2>1. Head(wire) \in Messages /\ wire' \in Seq(Messages)
    <3>1. wire \in Seq(Messages)
      BY DEF SocketInv, Socket!TypeOK, Messages
    <3> QED
      BY <1>4, <3>1 DEF Socket!Recv
  <2> QED
    BY <1>4, <2>1
       DEF Socket!Recv, Socket!Return, Messages, SocketInv, Socket!TypeOK,
           InTime, Answered, Socket!WaitInTime
<1>5. CASE Socket!Expire
  <2>1. worker \in {"hung", "gone"}
    <3>1. /\ left = 0 /\ rpc = "recv" /\ held \in Nat
          /\ worker \in {"free", "busy", "hung", "full", "replied", "gone"}
      BY <1>5 DEF Socket!Expire, SocketInv, Socket!TypeOK
    <3> QED
      BY <3>1 DEF SocketInv, InTime
  <2>2. rpc' = "returned" /\ answer' = "timeout"
        /\ UNCHANGED <<method, wait, ctx, left, wire, worker, held>>
    BY <1>5 DEF Socket!Expire, Socket!Return
  <2> QED
    BY <2>1, <2>2
       DEF SocketInv, Socket!TypeOK, InTime, Answered, Socket!WaitInTime
<1>6. CASE Socket!Reset
  BY <1>6
     DEF Socket!Reset, Socket!Return, SocketInv, Socket!TypeOK, InTime,
         Answered, Socket!WaitInTime
<1>7. CASE Socket!Event \/ Socket!Reply
  <2>1. wire' \in Seq(Messages)
    <3>1. wire \in Seq(Messages)
      BY DEF SocketInv, Socket!TypeOK, Messages
    <3> QED
      BY <1>7, <3>1 DEF Socket!Event, Socket!Reply, Messages
  <2> QED
    BY <1>7, <2>1
       DEF Socket!Event, Socket!Reply, Messages, SocketInv, Socket!TypeOK,
           InTime, Answered, Socket!WaitInTime
<1>8. CASE Socket!JobEnds
  <2>1. left \in Nat /\ held \in Nat
    BY DEF SocketInv, Socket!TypeOK
  <2>2. InTime'
    BY <1>8, <2>1 DEF Socket!JobEnds, SocketInv, InTime
  <2> QED
    BY <1>8, <2>2
       DEF Socket!JobEnds, SocketInv, Socket!TypeOK, Answered, Socket!WaitInTime
<1>9. CASE Socket!Stall \/ Socket!Drop
  BY <1>9
     DEF Socket!Stall, Socket!Drop, SocketInv, Socket!TypeOK, InTime, Answered,
         Socket!WaitInTime
<1>10. CASE Socket!Interrupt
  <2>1. ctx' \in BOOLEAN
    BY <1>10 DEF Socket!Interrupt
  <2> QED
    BY <1>10, <2>1
       DEF Socket!Interrupt, SocketInv, Socket!TypeOK, InTime, Answered,
           Socket!WaitInTime
<1>11. CASE Socket!Tick
  <2>1. left \in Nat /\ held \in Nat /\ InTime
    BY DEF SocketInv, Socket!TypeOK
  <2>2. left' \in Nat /\ held' \in Nat /\ InTime'
    BY <1>11, <2>1 DEF Socket!Tick, InTime
  <2> QED
    BY <1>11, <2>2
       DEF Socket!Tick, SocketInv, Socket!TypeOK, Answered, Socket!WaitInTime
<1>12. CASE UNCHANGED Socket!socketVars
  BY <1>12
     DEF Socket!socketVars, SocketInv, Socket!TypeOK, InTime, Answered,
         Socket!WaitInTime
<1> QED
  BY <1>1, <1>2, <1>3, <1>4, <1>5, <1>6, <1>7, <1>8, <1>9,
     <1>10, <1>11, <1>12
     DEF Socket!Next, Socket!CommandStep

----------------------------------------------------------------------------
(* Routes *)

\* A request that was answered "ok", or whose replies so far were taken for
\* answers, made its change; nothing precedes its arrival.
RouteInv ==
  /\ step \in Nat
  /\ route = "none" =>
       step = 0 /\ reply = "none" /\ made = "none" /\ shown = {}
  /\ route \in Passes!Changes /\ reply \in {"none", "ok"} /\ step > 0 =>
       made # "none"
  /\ route \in Passes!Changes /\ reply = "ok" => step > 0
  /\ reply # "ok" => shown = {}
  /\ Passes!AnswersAreReal

\* A change is one request, made by a helper that refuses refusals.
LEMMA ChangesAsk ==
  ASSUME NEW r \in Passes!Changes
  PROVE  /\ Len(Passes!Requests(r)) = 1
         /\ Passes!Requests(r)[1] \in {"json", "status", "typed"}
         /\ ~Passes!GoesOn(r)
<1>1. /\ r \notin Passes!Local /\ r # "sandbox" /\ r # "status"
      /\ r \notin Passes!Catalogs
  BY DEF Passes!Changes, Passes!Local, Passes!Catalogs
<1>2. CASE r \in Passes!Queries \cup {"pull-git-repo"}
  BY <1>1, <1>2 DEF Passes!Requests, Passes!GoesOn
<1>3. CASE /\ r \notin Passes!Queries \cup {"pull-git-repo"}
           /\ r \in Passes!Changes \ {"deploy", "pull-git-repo"}
  BY <1>1, <1>3 DEF Passes!Requests, Passes!GoesOn
<1>4. CASE /\ r \notin Passes!Queries \cup {"pull-git-repo"}
           /\ r = "deploy"
  <2>1. Passes!Requests(r) = Passes!Typed(1)
    BY <1>1, <1>4 DEF Passes!Requests
  <2> QED
    BY <1>1, <2>1 DEF Passes!Typed, Passes!GoesOn
<1> QED
  BY <1>2, <1>3, <1>4

LEMMA RouteArrives ==
  ASSUME RouteInv, NEW r, NEW b, NEW c, NEW ask, Passes!Arrive(r, b, c, ask)
  PROVE  RouteInv'
  BY DEF RouteInv, Passes!Arrive, Passes!AnswersAreReal

LEMMA RouteRejects ==
  ASSUME RouteInv, Passes!Reject
  PROVE  RouteInv'
  BY DEF RouteInv, Passes!Reject, Passes!AnswersAreReal, Passes!Checked

LEMMA RouteAsks ==
  ASSUME RouteInv, NEW r \in Replies, NEW S, Passes!Ask(r, S)
  PROVE  RouteInv'
<1>1. /\ route # "none" /\ reply = "none" /\ step' = step + 1
      /\ step < Len(Passes!Requests(route))
      /\ ~(route \in Passes!Checked /\ body = "missing")
      /\ UNCHANGED <<route, body, caller, asked, shown>>
      /\ reply' \in {"none", "error"}
  BY DEF Passes!Ask
<1>2. ASSUME route \in Passes!Changes, reply' = "none" PROVE made' # "none"
  <2>0. /\ Len(Passes!Requests(route)) = 1
        /\ Passes!Requests(route)[1] \in {"json", "status", "typed"}
        /\ ~Passes!GoesOn(route)
    BY <1>2, ChangesAsk
  <2>1. step' = 1
    BY <1>1, <2>0 DEF RouteInv
  <2>2. r \in {"ok", "empty", "odd"}
    BY <1>2, <2>0, <2>1 DEF Passes!Ask, Passes!Accepts
  <2>3. made' = Passes!Change
    BY <1>2, <2>2 DEF Passes!Ask
  <2> QED
    BY <2>3 DEF Passes!Change
<1> QED
  BY <1>1, <1>2 DEF RouteInv, Passes!AnswersAreReal

LEMMA RouteAnswers ==
  ASSUME RouteInv, Passes!Answer
  PROVE  RouteInv'
<1>1. /\ route # "none" /\ reply = "none" /\ reply' = "ok"
      /\ step = Len(Passes!Requests(route))
      /\ shown' = Passes!Shown(route, services, caller, asked)
      /\ UNCHANGED <<route, body, caller, asked, step, made, odd>>
  BY DEF Passes!Answer
<1>2. route \in Passes!Changes => step > 0
  BY <1>1, ChangesAsk
<1>3. route = "service-list" /\ caller # NoSession /\ ~asked.all /\ ~odd =>
        \A s \in shown' : s.session = caller
  BY <1>1
     DEF Passes!Shown, Passes!Own, Passes!Matching, Passes!Lists
<1> QED
  BY <1>1, <1>2, <1>3 DEF RouteInv, Passes!AnswersAreReal

LEMMA RouteInit == Passes!Init => RouteInv
  BY DEF Passes!Init, RouteInv, Passes!AnswersAreReal, Passes!Changes,
         Passes!Checked

LEMMA RouteStep ==
  ASSUME RouteInv, ServeRoute \/ UNCHANGED routeVars
  PROVE  RouteInv'
<1>1. ASSUME NEW r, NEW b, NEW c, NEW ask, Passes!Arrive(r, b, c, ask)
      PROVE  RouteInv'
  BY <1>1, RouteArrives
<1>2. CASE Passes!Reject
  BY <1>2, RouteRejects
<1>3. ASSUME NEW r \in Replies, NEW S, Passes!Ask(r, S) PROVE RouteInv'
  BY <1>3, RouteAsks
<1>4. CASE Passes!Answer
  BY <1>4, RouteAnswers
<1>5. CASE UNCHANGED routeVars
  BY <1>5 DEF routeVars, RouteInv, Passes!AnswersAreReal
<1> QED
  BY <1>1, <1>2, <1>3, <1>4, <1>5 DEF ServeRoute

----------------------------------------------------------------------------
(* Publishing *)

\* A target and an outcome belong to a request that has arrived.
PublishInv ==
  /\ package.protocol = "none" => target = <<>> /\ published.is = "none"
  /\ Publish!ArgsArrive

\* The text of a template reads what spec.args lists, or a standard argument.
LEMMA UsesListed ==
  ASSUME NEW p
  PROVE  Publish!Uses(p) \subseteq Publish!Standard \cup Publish!Args(p)
<1> USE DEF Publish!Standard
<1>1. CASE p = "npm"
  BY <1>1
     DEF Publish!Uses, Publish!Args, Publish!Versioned, Publish!Python
<1>2. CASE p \in {"maven", "go", "hex", "composer", "swift"}
  <2>1. p \in Publish!Versioned /\ p # "npm"
    BY <1>2 DEF Publish!Versioned, Publish!Python
  <2>2. Publish!Args(p) = {"NAME", "VERSION"}
    BY <2>1 DEF Publish!Args, Publish!Versioned, Publish!Python
  <2> QED
    BY <1>2, <2>2 DEF Publish!Uses
<1>3. CASE p = "generic"
  BY <1>3
     DEF Publish!Uses, Publish!Args, Publish!Versioned, Publish!Python
<1>4. CASE p \notin {"npm", "generic", "maven", "go", "hex", "composer",
                     "swift"}
  BY <1>4 DEF Publish!Uses
<1> QED
  BY <1>1, <1>2, <1>3, <1>4

\* What the publishing step of a protocol reads is declared in the last stage.
LEMMA LastStageDeclares ==
  ASSUME NEW p
  PROVE  LET stages == Publish!Stages(p)
         IN  Publish!Uses(p) \subseteq stages[Len(stages)]
<1>1. Publish!Uses(p) \subseteq Publish!Standard \cup Publish!Args(p)
  BY UsesListed
<1>2. CASE p \in Publish!Multi
  <2>1. p = "helm"
    BY <1>2 DEF Publish!Multi
  <2>2. Publish!Args(p) = {}
    BY <2>1 DEF Publish!Args, Publish!Versioned, Publish!Python
  <2>3. Publish!Stages(p) = <<{}, Publish!Standard>>
    BY <1>2 DEF Publish!Stages
  <2> QED
    BY <1>1, <2>2, <2>3
<1>3. CASE p \notin Publish!Multi
  BY <1>1, <1>3 DEF Publish!Stages
<1> QED
  BY <1>2, <1>3

\* What the step cannot do without is required of the caller, computed, or
\* configured.
LEMMA RequiredHaveValues ==
  ASSUME NEW p, Publish!Required(p) \subseteq package.given
  PROVE  (Publish!MustHave(p)
            \ (IF package.token THEN {} ELSE {"ARTIFACT_TOKEN"}))
           \subseteq Publish!BuildArgs(p)
<1>1. Publish!Args(p) \subseteq Publish!BuildArgs(p)
  <2>1. CASE p = "npm"
    <3>1. Publish!Args(p) = {"NPMRC_LINE"}
      BY <2>1 DEF Publish!Args, Publish!Versioned, Publish!Python
    <3> QED
      BY <3>1 DEF Publish!BuildArgs
  <2>2. CASE p # "npm"
    BY <2>2 DEF Publish!Required, Publish!BuildArgs
  <2> QED
    BY <2>1, <2>2
<1>2. Publish!MustHave(p) \subseteq Publish!Standard \cup Publish!Args(p)
  BY UsesListed DEF Publish!MustHave
<1>3. Publish!Standard
        \ (IF package.token THEN {} ELSE {"ARTIFACT_TOKEN"})
        \subseteq Publish!BuildArgs(p)
  <2>1. CASE package.token
    BY <2>1 DEF Publish!BuildArgs
  <2>2. CASE ~package.token
    BY <2>2 DEF Publish!BuildArgs
  <2> QED
    BY <2>1, <2>2
<1> QED
  BY <1>1, <1>2, <1>3

LEMMA PublishArrives ==
  ASSUME PublishInv, NEW f, NEW p, NEW g, NEW s, NEW t,
         p # "none", Publish!Arrive(f, p, g, s, t)
  PROVE  PublishInv'
  BY DEF PublishInv, Publish!Arrive, Publish!ArgsArrive

LEMMA PublishTargets ==
  ASSUME PublishInv, Publish!Target
  PROVE  PublishInv'
<1>1. /\ package.protocol # "none" /\ UNCHANGED package
      /\ UNCHANGED published \/ published' = [is |-> "rejected"]
  BY DEF Publish!Target
<1>2. published' = [is |-> "rejected"] => published'.is # "built"
  OBVIOUS
<1> QED
  BY <1>1, <1>2
     DEF PublishInv, Publish!ArgsArrive, Publish!MustHave, Publish!Uses

LEMMA PublishBuilds ==
  ASSUME PublishInv, Publish!Publish
  PROVE  PublishInv'
<1> DEFINE p == package.protocol
<1>1. /\ package.protocol # "none" /\ UNCHANGED package
      /\ target # <<>>
  BY DEF PublishInv, Publish!Publish
<1>2. CASE /\ ~Publish!Refused
           /\ published' = [is |-> "built", args |-> Publish!BuildArgs(p),
                            stages |-> Publish!Stages(p)]
  <2>1. /\ published'.args = Publish!BuildArgs(p)
        /\ published'.stages = Publish!Stages(p)
    BY <1>2
  <2>2. Publish!Uses(p) \subseteq
          published'.stages[Len(published'.stages)]
    BY <2>1, LastStageDeclares
  <2>3. (Publish!MustHave(p)
           \ (IF package.token THEN {} ELSE {"ARTIFACT_TOKEN"}))
          \subseteq published'.args
    BY <1>2, <2>1, RequiredHaveValues DEF Publish!Refused
  <2> QED
    BY <1>1, <2>2, <2>3
       DEF PublishInv, Publish!ArgsArrive, Publish!MustHave, Publish!Uses
<1>3. CASE \/ published' = [is |-> "custom", args |-> Publish!BuildArgs(p)]
           \/ published' = [is |-> "rejected"]
  <2>1. published'.is # "built"
    BY <1>3
  <2> QED
    BY <1>1, <2>1 DEF PublishInv, Publish!ArgsArrive
<1> QED
  BY <1>2, <1>3 DEF Publish!Publish

LEMMA PublishInit == Publish!Init => PublishInv
  BY DEF Publish!Init, PublishInv, Publish!ArgsArrive

LEMMA PublishStep ==
  ASSUME PublishInv, ServePublish \/ UNCHANGED <<package, target, published>>
  PROVE  PublishInv'
<1>1. ASSUME NEW f, NEW p \in Publish!Protocols \cup {"unknown"}, NEW g, NEW s,
             NEW t, Publish!Arrive(f, p, g, s, t)
      PROVE  PublishInv'
  <2>1. p # "none"
    BY DEF Publish!Protocols, Publish!Versioned, Publish!Python, Publish!Multi
  <2> QED
    BY <1>1, <2>1, PublishArrives
<1>2. CASE Publish!Target
  BY <1>2, PublishTargets
<1>3. CASE Publish!Publish
  BY <1>3, PublishBuilds
<1>4. CASE UNCHANGED <<package, target, published>>
  BY <1>4 DEF PublishInv, Publish!ArgsArrive, Publish!MustHave, Publish!Uses
<1> QED
  BY <1>1, <1>2, <1>3, <1>4 DEF ServePublish

----------------------------------------------------------------------------
(* Line edits *)

EditInv == file \in Seq(Lines) /\ Editor!EditKeepsOthers

\* v is f with new in place of its lines start..end.
Kept(v, f, start, end, new) ==
  LET n     == Len(f)
      head  == Editor!Cut(start - 1, f)
      tail  == n - Editor!Cut(end, f)
      whole == head + Len(new) + tail
  IN  /\ Len(v) = whole
      /\ \A i \in 1..head : v[i] = f[i]
      /\ \A i \in 1..Len(new) : v[head + i] = new[i]
      /\ \A i \in 1..tail : v[whole - tail + i] = f[n - tail + i]

\* Splicing keeps the lines outside the range, wherever the range lies.
LEMMA SplicedLines ==
  ASSUME NEW f \in Seq(Lines), NEW new \in Seq(Lines),
         NEW start \in Nat \ {0}, NEW end \in Nat, end >= start - 1
  PROVE  /\ Editor!Spliced(f, start, end, new) \in Seq(Lines)
         /\ Kept(Editor!Spliced(f, start, end, new), f, start, end, new)
<1> DEFINE n     == Len(f)
           head  == Editor!Cut(start - 1, f)
           cut   == Editor!Cut(end, f)
           first == SubSeq(f, 1, head)
           final == SubSeq(f, cut + 1, n)
           v     == Editor!Spliced(f, start, end, new)
<1>1. n \in Nat /\ head \in 0..n /\ cut \in 0..n /\ Len(new) \in Nat
  BY DEF Editor!Cut
<1>2. /\ first \in Seq(Lines) /\ Len(first) = head
      /\ \A i \in 1..head : first[i] = f[i]
  <2>1. \A i \in 1..head : f[i] \in Lines
    BY <1>1
  <2> QED
    BY <1>1, <2>1, SubSeqProperties
<1>3. /\ final \in Seq(Lines) /\ Len(final) = n - cut
      /\ \A i \in 1..(n - cut) : final[i] = f[cut + i]
  <2>1. \A i \in (cut + 1)..n : f[i] \in Lines
    BY <1>1
  <2>2. /\ final \in Seq(Lines)
        /\ Len(final) = IF cut + 1 <= n THEN n - (cut + 1) + 1 ELSE 0
        /\ \A i \in 1..(n - (cut + 1) + 1) : final[i] = f[cut + 1 + i - 1]
    <3> HIDE DEF cut, n
    <3> QED
      BY <1>1, <2>1, SubSeqProperties
  <2> QED
    BY <1>1, <2>2
<1>4. v = (first \o new) \o final
  BY DEF Editor!Spliced
<1>5. /\ first \o new \in Seq(Lines)
      /\ Len(first \o new) = head + Len(new)
      /\ \A i \in 1..(head + Len(new)) :
           (first \o new)[i] = IF i <= head THEN first[i] ELSE new[i - head]
  <2> HIDE DEF first, head
  <2> QED
    BY <1>2, ConcatProperties
<1>6. /\ v \in Seq(Lines) /\ Len(v) = head + Len(new) + (n - cut)
      /\ \A i \in 1..(head + Len(new) + (n - cut)) :
           v[i] = IF i <= head + Len(new) THEN (first \o new)[i]
                  ELSE final[i - (head + Len(new))]
  <2> DEFINE both == first \o new
  <2>1. both \in Seq(Lines) /\ Len(both) = head + Len(new)
    BY <1>5
  <2> HIDE DEF both, first, final, head, cut, n, v
  <2>2. /\ both \o final \in Seq(Lines)
        /\ Len(both \o final) = Len(both) + Len(final)
        /\ \A i \in 1..(Len(both) + Len(final)) :
             (both \o final)[i] = IF i <= Len(both) THEN both[i]
                                  ELSE final[i - Len(both)]
    BY <1>3, <2>1, ConcatProperties
  <2>3. v = both \o final
    BY <1>4 DEF both
  <2> QED
    BY <1>3, <2>1, <2>2, <2>3 DEF both
<1> HIDE DEF first, final, head, cut, n, v
<1>7. \A i \in 1..head : v[i] = f[i]
  BY <1>1, <1>2, <1>5, <1>6
<1>8. ASSUME NEW i \in 1..Len(new) PROVE v[head + i] = new[i]
  <2> DEFINE j == head + i
  <2>1. /\ j \in 1..(head + Len(new)) /\ ~(j <= head) /\ j - head = i
        /\ j \in 1..(head + Len(new) + (n - cut)) /\ j <= head + Len(new)
    BY <1>1
  <2> HIDE DEF j
  <2>2. v[j] = (first \o new)[j]
    BY <1>6, <2>1
  <2>3. (first \o new)[j] = new[j - head]
    BY <1>5, <2>1
  <2> QED
    BY <2>1, <2>2, <2>3 DEF j
<1>9. ASSUME NEW i \in 1..(n - cut)
      PROVE  v[head + Len(new) + i] = f[cut + i]
  <2> DEFINE m == head + Len(new)
             j == m + i
  <2>1. /\ j \in 1..(head + Len(new) + (n - cut))
        /\ ~(j <= head + Len(new)) /\ j - (head + Len(new)) = i
    BY <1>1
  <2> HIDE DEF j
  <2>2. v[j] = final[i]
    BY <1>6, <2>1
  <2> QED
    BY <1>3, <2>2 DEF j
<1>10. \A i \in 1..(n - cut) :
         v[(head + Len(new) + (n - cut)) - (n - cut) + i] =
           f[n - (n - cut) + i]
  BY <1>1, <1>9
<1> QED
  BY <1>6, <1>7, <1>8, <1>10 DEF Kept, head, cut, n, v

LEMMA EditStep ==
  ASSUME FacesAssumption, EditInv,
         NEW start \in Nat, NEW end \in Nat, NEW new \in Seq(Lines),
         Editor!Edit(start, end, new)
  PROVE  EditInv'
<1> DEFINE until == Editor!LastLine(start, end)
           v     == Editor!Spliced(file, start, until, new)
<1>1. /\ start \in Nat \ {0} /\ until \in Nat /\ until >= start - 1
      /\ file \in Seq(Lines)
  BY DEF Editor!Edit, Editor!LastLine, EditInv
<1>2. /\ file' = Editor!Rejoined(v)
      /\ last' = [start |-> start, end |-> until, new |-> new,
                  before |-> file]
  BY DEF Editor!Edit
<1>3. /\ last'.start = start /\ last'.end = until
      /\ last'.new = new /\ last'.before = file
  BY <1>2
<1> HIDE DEF until, v
<1>4. v \in Seq(Lines) /\ Kept(v, file, start, until, new)
  BY <1>1, SplicedLines DEF v
<1>5. file' \in Seq(Lines)
  BY <1>2, <1>4 DEF Editor!Rejoined, FacesAssumption
<1>6. CASE v = <<>>
  <2>1. file' = <<Blank>> /\ Len(v) = 0
    BY <1>2, <1>6 DEF Editor!Rejoined
  <2> QED
    BY <1>3, <1>4, <1>5, <2>1
       DEF EditInv, Editor!EditKeepsOthers, Editor!Cut, Kept
<1>7. CASE v # <<>>
  <2>1. file' = v /\ Len(v) # 0
    BY <1>2, <1>4, <1>7, EmptySeq DEF Editor!Rejoined
  <2>2. Editor!EditKeepsOthers'
    <3>1. Kept(file', last'.before, last'.start, last'.end, last'.new)
      BY <1>3, <1>4, <2>1
    <3>2. Len(file') # 0
      BY <2>1
    <3> QED
      BY <3>1, <3>2, Zenon DEF Editor!EditKeepsOthers, Kept
  <2> QED
    BY <1>5, <2>2 DEF EditInv
<1> QED
  BY <1>6, <1>7

LEMMA EditPanics ==
  ASSUME EditInv, Editor!Panic(0)
  PROVE  EditInv'
  BY DEF EditInv, Editor!Panic, Editor!EditKeepsOthers, Editor!NoEdit

LEMMA EditInit == Editor!Init => EditInv
<1> SUFFICES ASSUME Editor!Init PROVE EditInv
  OBVIOUS
<1>1. file \in Seq(Lines)
  BY FacesAssumption DEF Editor!Init
<1> QED
  BY <1>1 DEF Editor!Init, EditInv, Editor!EditKeepsOthers

LEMMA EditsStep ==
  ASSUME EditInv, ServeEdit \/ UNCHANGED <<file, edits, last>>
  PROVE  EditInv'
<1>1. ASSUME NEW start \in 0..(MaxLen + 1), NEW end \in 0..(MaxLen + 1),
             NEW n \in 0..2, NEW new \in [1..n -> Lines],
             Editor!Edit(start, end, new)
      PROVE  EditInv'
  <2>1. start \in Nat /\ end \in Nat /\ new \in Seq(Lines)
    OBVIOUS
  <2> QED
    BY <1>1, <2>1, FacesAssumption, EditStep
<1>2. CASE Editor!Panic(0)
  BY <1>2, EditPanics
<1>3. CASE UNCHANGED <<file, edits, last>>
  BY <1>3 DEF EditInv, Editor!EditKeepsOthers
<1> QED
  BY <1>1, <1>2, <1>3 DEF ServeEdit

----------------------------------------------------------------------------
(* Names *)

Triples == Seq(STRING) \X Seq(STRING) \X Seq(STRING)

\* c is a, a separator, and b.
Around(c, a, sep, b) ==
  /\ Len(c) = Len(a) + 1 + Len(b)
  /\ \A i \in 1..Len(a) : c[i] = a[i]
  /\ c[Len(a) + 1] = sep
  /\ \A i \in 1..Len(b) : c[Len(a) + 1 + i] = b[i]

LEMMA SeparatedTokens ==
  ASSUME NEW S, NEW a \in Seq(S), NEW b \in Seq(S), NEW sep \in S
  PROVE  /\ a \o <<sep>> \o b \in Seq(S)
         /\ Around(a \o <<sep>> \o b, a, sep, b)
<1> DEFINE s == <<sep>>
           h == a \o s
           c == h \o b
<1>1. s \in Seq(S) /\ Len(s) = 1 /\ s[1] = sep
  OBVIOUS
<1>2. Len(a) \in Nat /\ Len(b) \in Nat
  OBVIOUS
<1> HIDE DEF s
<1>3. /\ h \in Seq(S) /\ Len(h) = Len(a) + Len(s)
      /\ \A i \in 1..(Len(a) + Len(s)) :
           h[i] = IF i <= Len(a) THEN a[i] ELSE s[i - Len(a)]
  BY <1>1, ConcatProperties
<1> HIDE DEF h
<1>4. (\A i \in 1..Len(a) : h[i] = a[i]) /\ h[Len(a) + 1] = sep
  <2>1. \A i \in 1..Len(a) : i \in 1..(Len(a) + Len(s)) /\ i <= Len(a)
    BY <1>1, <1>2
  <2>2. /\ Len(a) + 1 \in 1..(Len(a) + Len(s))
        /\ ~(Len(a) + 1 <= Len(a)) /\ Len(a) + 1 - Len(a) = 1
    BY <1>1, <1>2
  <2> QED
    BY <1>1, <1>3, <2>1, <2>2
<1>5. /\ c \in Seq(S) /\ Len(c) = Len(h) + Len(b)
      /\ \A i \in 1..(Len(h) + Len(b)) :
           c[i] = IF i <= Len(h) THEN h[i] ELSE b[i - Len(h)]
  <2>1. h \in Seq(S)
    BY <1>3
  <2> QED
    BY <2>1, ConcatProperties
<1> HIDE DEF c
<1>6. ASSUME NEW i \in 1..(Len(a) + 1) PROVE c[i] = h[i]
  <2>1. i \in 1..(Len(h) + Len(b)) /\ i <= Len(h)
    BY <1>1, <1>2, <1>3
  <2> QED
    BY <1>5, <2>1
<1>7. ASSUME NEW i \in 1..Len(b) PROVE c[Len(a) + 1 + i] = b[i]
  <2> DEFINE j == Len(a) + 1 + i
  <2>1. /\ j \in 1..(Len(h) + Len(b)) /\ ~(j <= Len(h)) /\ j - Len(h) = i
    BY <1>1, <1>2, <1>3
  <2> HIDE DEF j
  <2>2. c[j] = b[j - Len(h)]
    BY <1>5, <2>1
  <2> QED
    BY <2>1, <2>2 DEF j
<1>8. Len(c) = Len(a) + 1 + Len(b)
  BY <1>1, <1>3, <1>5
<1>9. (\A i \in 1..Len(a) : c[i] = a[i]) /\ c[Len(a) + 1] = sep
  BY <1>2, <1>4, <1>6
<1>10. c \in Seq(S) /\ Around(c, a, sep, b)
  BY <1>5, <1>7, <1>8, <1>9 DEF Around
<1> QED
  BY <1>10 DEF c, h, s

\* c is a first component without the separator, the separator, and a rest.
Splits(S, c, sep, a, b) ==
  /\ a \in Seq(S) /\ b \in Seq(S)
  /\ ~Names!Has(a, sep)
  /\ c = a \o <<sep>> \o b

\* A sequence has at most one first component.
LEMMA SplitsOnce ==
  ASSUME NEW S, NEW sep \in S, NEW c, NEW a, NEW b, NEW d, NEW e,
         Splits(S, c, sep, a, b), Splits(S, c, sep, d, e)
  PROVE  a = d /\ b = e
<1>1. /\ a \in Seq(S) /\ b \in Seq(S) /\ d \in Seq(S) /\ e \in Seq(S)
      /\ ~Names!Has(a, sep) /\ ~Names!Has(d, sep)
      /\ Around(c, a, sep, b) /\ Around(c, d, sep, e)
  BY SeparatedTokens DEF Splits
<1>2. /\ Len(a) \in Nat /\ Len(d) \in Nat /\ Len(b) \in Nat /\ Len(e) \in Nat
      /\ DOMAIN a = 1..Len(a) /\ DOMAIN d = 1..Len(d)
  BY <1>1
<1>3. ~(Len(a) < Len(d))
  <2> SUFFICES ASSUME Len(a) < Len(d) PROVE FALSE
    OBVIOUS
  <2>1. Len(a) + 1 \in 1..Len(d)
    BY <1>2
  <2>2. d[Len(a) + 1] = sep
    BY <1>1, <2>1 DEF Around
  <2> QED
    BY <1>1, <1>2, <2>1, <2>2 DEF Names!Has
<1>4. ~(Len(d) < Len(a))
  <2> SUFFICES ASSUME Len(d) < Len(a) PROVE FALSE
    OBVIOUS
  <2>1. Len(d) + 1 \in 1..Len(a)
    BY <1>2
  <2>2. a[Len(d) + 1] = sep
    BY <1>1, <2>1 DEF Around
  <2> QED
    BY <1>1, <1>2, <2>1, <2>2 DEF Names!Has
<1>5. Len(a) = Len(d)
  <2>1. \A m, n \in Nat : m < n \/ n < m \/ m = n
    OBVIOUS
  <2> QED
    BY <1>2, <1>3, <1>4, <2>1, Zenon
<1>6. a = d
  <2>1. \A i \in 1..Len(a) : a[i] = d[i]
    BY <1>1, <1>5 DEF Around
  <2> QED
    BY <1>1, <1>5, <2>1, SeqEqual
<1>7. b = e
  <2>1. Len(b) = Len(e)
    BY <1>1, <1>2, <1>5 DEF Around
  <2>2. \A i \in 1..Len(b) : b[i] = e[i]
    BY <1>1, <1>5, <2>1 DEF Around
  <2> QED
    BY <1>1, <2>1, <2>2, SeqEqual
<1> QED
  BY <1>6, <1>7

Four(S, a, b, c, s) ==
  a \in Seq(S) /\ b \in Seq(S) /\ c \in Seq(S) /\ s \in Seq(S)

Late(S, a, b, c, s) ==
  /\ b \o s \o c \in Seq(S)
  /\ a \o s \o b \o s \o c = a \o s \o (b \o s \o c)

\* Where three sequences are joined, the last two may be joined first.
LEMMA JoinedLate ==
  ASSUME NEW S, NEW a, NEW b, NEW c, NEW s, Four(S, a, b, c, s)
  PROVE  Late(S, a, b, c, s)
<1>1. a \in Seq(S) /\ b \in Seq(S) /\ c \in Seq(S) /\ s \in Seq(S)
  BY DEF Four
<1>2. a \o s \in Seq(S) /\ b \o s \in Seq(S)
  BY <1>1, ConcatProperties
<1>3. ASSUME NEW y \in Seq(S) PROVE y \o c \in Seq(S)
  BY <1>1, ConcatProperties
<1>4. ASSUME NEW x \in Seq(S)
      PROVE  x \o b \o s \o c = x \o (b \o s \o c)
  <2>1. x \o b \o s = x \o (b \o s)
    BY <1>1, ConcatAssociative
  <2>2. ASSUME NEW y \in Seq(S) PROVE x \o y \o c = x \o (y \o c)
    BY <1>1, ConcatAssociative
  <2>3. x \o (b \o s) \o c = x \o (b \o s \o c)
    BY <1>2, <2>2
  <2> QED
    BY <2>1, <2>3
<1>5. a \o s \o b \o s \o c = a \o s \o (b \o s \o c)
  BY <1>2, <1>4
<1> QED
  BY <1>2, <1>3, <1>5 DEF Late

LEMMA JoinedParts ==
  ASSUME NEW S, NEW t \in Seq(S) \X Seq(S) \X Seq(S), NEW sep \in S
  PROVE  /\ t[1] \in Seq(S) /\ t[2] \in Seq(S) /\ t[3] \in Seq(S)
         /\ t[2] \o <<sep>> \o t[3] \in Seq(S)
         /\ Names!Joined(t, sep)
              = t[1] \o <<sep>> \o (t[2] \o <<sep>> \o t[3])
<1>1. t[1] \in Seq(S) /\ t[2] \in Seq(S) /\ t[3] \in Seq(S)
  OBVIOUS
<1>2. Four(S, t[1], t[2], t[3], <<sep>>)
  <2>1. <<sep>> \in Seq(S)
    OBVIOUS
  <2> QED
    BY <1>1, <2>1 DEF Four
<1>3. Late(S, t[1], t[2], t[3], <<sep>>)
  BY <1>2, JoinedLate
<1>4. /\ t[2] \o <<sep>> \o t[3] \in Seq(S)
      /\ t[1] \o <<sep>> \o t[2] \o <<sep>> \o t[3]
           = t[1] \o <<sep>> \o (t[2] \o <<sep>> \o t[3])
  BY <1>3 DEF Late
<1> QED
  BY <1>1, <1>4 DEF Names!Joined

\* A joined triple is split at its first component, and the rest at its second.
LEMMA JoinedSplits ==
  ASSUME NEW S, NEW t \in Seq(S) \X Seq(S) \X Seq(S), NEW sep \in S,
         \A k \in 1..3 : ~Names!Has(t[k], sep)
  PROVE  /\ Splits(S, Names!Joined(t, sep), sep,
                   t[1], t[2] \o <<sep>> \o t[3])
         /\ Splits(S, t[2] \o <<sep>> \o t[3], sep, t[2], t[3])
<1>1. ~Names!Has(t[1], sep) /\ ~Names!Has(t[2], sep)
  OBVIOUS
<1> QED
  BY <1>1, JoinedParts DEF Splits

\* A joined name has one triple whose components lack the separator.
LEMMA JoinedOnce ==
  ASSUME NEW S, NEW s \in Seq(S) \X Seq(S) \X Seq(S),
         NEW t \in Seq(S) \X Seq(S) \X Seq(S), NEW sep \in S,
         \A k \in 1..3 : ~Names!Has(s[k], sep) /\ ~Names!Has(t[k], sep),
         Names!Joined(s, sep) = Names!Joined(t, sep)
  PROVE  s = t
<1> DEFINE d == s[2] \o <<sep>> \o s[3]
           e == t[2] \o <<sep>> \o t[3]
<1>1. /\ Splits(S, Names!Joined(s, sep), sep, s[1], d)
      /\ Splits(S, d, sep, s[2], s[3])
  BY JoinedSplits
<1>2. /\ Splits(S, Names!Joined(s, sep), sep, t[1], e)
      /\ Splits(S, e, sep, t[2], t[3])
  BY JoinedSplits
<1> HIDE DEF d, e
<1>3. s[1] = t[1] /\ d = e
  BY <1>1, <1>2, SplitsOnce
<1>4. s[2] = t[2] /\ s[3] = t[3]
  BY <1>1, <1>2, <1>3, SplitsOnce
<1> QED
  BY <1>3, <1>4

\* A name is spelled by three components and two separators.
Spelled(name, t, sep) ==
  LET m == Len(t[1]) + 1
      n == m + Len(t[2]) + 1
  IN  /\ Len(name) = n + Len(t[3])
      /\ name[m] = sep /\ name[n] = sep
      /\ \A i \in 1..Len(t[1]) : name[i] = t[1][i]
      /\ \A i \in 1..Len(t[2]) : name[m + i] = t[2][i]
      /\ \A i \in 1..Len(t[3]) : name[n + i] = t[3][i]

LEMMA JoinedSpells ==
  ASSUME NEW S, NEW t \in Seq(S) \X Seq(S) \X Seq(S), NEW sep \in S
  PROVE  /\ Names!Joined(t, sep) \in Seq(S)
         /\ Spelled(Names!Joined(t, sep), t, sep)
<1> DEFINE name == Names!Joined(t, sep)
           rest == t[2] \o <<sep>> \o t[3]
<1>1. /\ t[1] \in Seq(S) /\ t[2] \in Seq(S) /\ t[3] \in Seq(S)
      /\ rest \in Seq(S) /\ name = t[1] \o <<sep>> \o rest
  BY JoinedParts
<1>2. rest \in Seq(S) /\ Around(rest, t[2], sep, t[3])
  BY <1>1, SeparatedTokens
<1> HIDE DEF rest
<1>3. name \in Seq(S) /\ Around(name, t[1], sep, rest)
  BY <1>1, <1>2, SeparatedTokens
<1> HIDE DEF name
<1>4. /\ Len(t[1]) \in Nat /\ Len(t[2]) \in Nat /\ Len(t[3]) \in Nat
      /\ Len(rest) = Len(t[2]) + 1 + Len(t[3])
      /\ Len(name) = Len(t[1]) + 1 + Len(rest)
  BY <1>1, <1>2, <1>3 DEF Around
<1> DEFINE m == Len(t[1]) + 1
           n == m + Len(t[2]) + 1
<1>5. \A i \in 1..Len(rest) : name[m + i] = rest[i]
  BY <1>3 DEF Around
<1>6. name[m] = sep /\ \A i \in 1..Len(t[1]) : name[i] = t[1][i]
  BY <1>3 DEF Around
<1>7. \A i \in 1..Len(t[2]) : name[m + i] = t[2][i]
  <2>1. \A i \in 1..Len(t[2]) : i \in 1..Len(rest) /\ rest[i] = t[2][i]
    BY <1>2, <1>4 DEF Around
  <2> QED
    BY <1>5, <2>1
<1>8. name[n] = sep
  <2> DEFINE j == Len(t[2]) + 1
  <2>1. j \in 1..Len(rest) /\ rest[j] = sep /\ n = m + j
    BY <1>2, <1>4 DEF Around
  <2> HIDE DEF j, m, n
  <2> QED
    BY <1>5, <2>1
<1>9. ASSUME NEW i \in 1..Len(t[3]) PROVE name[n + i] = t[3][i]
  <2> DEFINE j == Len(t[2]) + 1 + i
  <2>1. j \in 1..Len(rest) /\ rest[j] = t[3][i] /\ n + i = m + j
    BY <1>2, <1>4 DEF Around
  <2> HIDE DEF j, m, n
  <2> QED
    BY <1>5, <2>1
<1>10. Len(name) = n + Len(t[3])
  BY <1>4
<1>11. Spelled(name, t, sep)
  BY <1>6, <1>7, <1>8, <1>9, <1>10 DEF Spelled
<1> QED
  BY <1>3, <1>11 DEF name

\* The three parts of a name cut at two places.
Cut(name, i, j) ==
  <<SubSeq(name, 1, i - 1), SubSeq(name, i + 1, j - 1),
    SubSeq(name, j + 1, Len(name))>>

LEMMA CutParts ==
  ASSUME NEW S, NEW name \in Seq(S), NEW i \in DOMAIN name,
         NEW j \in DOMAIN name
  PROVE  Cut(name, i, j) \in Seq(S) \X Seq(S) \X Seq(S)
<1>1. i \in 1..Len(name) /\ j \in 1..Len(name) /\ Len(name) \in Nat
  OBVIOUS
<1>2. \A k \in 1..Len(name) : name[k] \in S
  OBVIOUS
<1>3. SubSeq(name, 1, i - 1) \in Seq(S)
  <2>1. \A k \in 1..(i - 1) : name[k] \in S
    BY <1>1, <1>2
  <2> QED
    BY <1>1, <2>1, SubSeqProperties
<1>4. SubSeq(name, i + 1, j - 1) \in Seq(S)
  <2>1. \A k \in (i + 1)..(j - 1) : name[k] \in S
    BY <1>1, <1>2
  <2> QED
    BY <1>1, <2>1, SubSeqProperties
<1>5. SubSeq(name, j + 1, Len(name)) \in Seq(S)
  <2>1. \A k \in (j + 1)..Len(name) : name[k] \in S
    BY <1>1, <1>2
  <2> QED
    BY <1>1, <2>1, SubSeqProperties
<1> QED
  BY <1>3, <1>4, <1>5 DEF Cut

\* A stretch of a sequence that agrees with b is b.
LEMMA StretchIs ==
  ASSUME NEW S, NEW c \in Seq(S), NEW b \in Seq(S), NEW m \in Nat,
         m + Len(b) <= Len(c), \A k \in 1..Len(b) : c[m + k] = b[k]
  PROVE  SubSeq(c, m + 1, m + Len(b)) = b
<1> DEFINE first == m + 1
           end   == m + Len(b)
<1>1. Len(b) \in Nat /\ Len(c) \in Nat
  OBVIOUS
<1>2. /\ first \in Int /\ end \in Int /\ end - first + 1 = Len(b)
      /\ \A i \in first..end : i \in 1..Len(c)
      /\ (first <= end) = (Len(b) # 0)
      /\ \A k \in 1..Len(b) : first + k - 1 = m + k
  BY <1>1
<1>3. \A i \in first..end : c[i] \in S
  BY <1>2
<1> HIDE DEF first, end
<1>4. /\ SubSeq(c, first, end) \in Seq(S)
      /\ Len(SubSeq(c, first, end)) =
           IF first <= end THEN end - first + 1 ELSE 0
      /\ \A k \in 1..(end - first + 1) :
           SubSeq(c, first, end)[k] = c[first + k - 1]
  BY <1>2, <1>3, SubSeqProperties
<1>5. Len(SubSeq(c, first, end)) = Len(b)
  BY <1>1, <1>2, <1>4
<1>6. \A k \in 1..Len(b) : SubSeq(c, first, end)[k] = b[k]
  BY <1>2, <1>4
<1>7. SubSeq(c, first, end) = b
  BY <1>4, <1>5, <1>6, SeqEqual
<1> QED
  BY <1>7 DEF first, end

\* A name cut at its separators is the triple it joins.
LEMMA CutBack ==
  ASSUME NEW S, NEW t \in Seq(S) \X Seq(S) \X Seq(S), NEW sep \in S,
         NEW name \in Seq(S), Spelled(name, t, sep)
  PROVE  \E i, j \in DOMAIN name :
           name[i] = sep /\ name[j] = sep /\ Cut(name, i, j) = t
<1> DEFINE m == Len(t[1]) + 1
           n == m + Len(t[2]) + 1
<1>1. /\ t[1] \in Seq(S) /\ t[2] \in Seq(S) /\ t[3] \in Seq(S)
      /\ Len(t[1]) \in Nat /\ Len(t[2]) \in Nat /\ Len(t[3]) \in Nat
      /\ t = <<t[1], t[2], t[3]>>
  OBVIOUS
<1>2. /\ Len(name) = n + Len(t[3])
      /\ name[m] = sep /\ name[n] = sep
      /\ \A i \in 1..Len(t[1]) : name[i] = t[1][i]
      /\ \A i \in 1..Len(t[2]) : name[m + i] = t[2][i]
      /\ \A i \in 1..Len(t[3]) : name[n + i] = t[3][i]
  BY DEF Spelled
<1>3. /\ m \in Nat /\ n \in Nat /\ m \in 1..Len(name) /\ n \in 1..Len(name)
      /\ m - 1 = 0 + Len(t[1]) /\ n - 1 = m + Len(t[2])
      /\ m + Len(t[2]) <= Len(name) /\ 0 + Len(t[1]) <= Len(name)
      /\ 0 + 1 = 1
  BY <1>1, <1>2
<1>4. m \in DOMAIN name /\ n \in DOMAIN name
  BY <1>3
<1> HIDE DEF m, n
<1>5. SubSeq(name, 0 + 1, 0 + Len(t[1])) = t[1]
  <2>1. \A i \in 1..Len(t[1]) : name[0 + i] = t[1][i]
    BY <1>2
  <2> QED
    BY <1>1, <1>3, <2>1, StretchIs
<1>6. SubSeq(name, m + 1, m + Len(t[2])) = t[2]
  BY <1>1, <1>2, <1>3, StretchIs
<1>7. SubSeq(name, n + 1, n + Len(t[3])) = t[3]
  <2>1. n + Len(t[3]) <= Len(name)
    BY <1>1, <1>2, <1>3
  <2> QED
    BY <1>1, <1>2, <1>3, <2>1, StretchIs
<1>8. Cut(name, m, n) = <<t[1], t[2], t[3]>>
  BY <1>2, <1>3, <1>5, <1>6, <1>7 DEF Cut
<1> QED
  BY <1>1, <1>2, <1>4, <1>8

\* A session's name stands for the one triple of valid components it joins.
LEMMA ParsedBack ==
  ASSUME NEW S, ":" \in S, NEW s \in Seq(S) \X Seq(S) \X Seq(S),
         \A i \in 1..3 : Names!ValidComponent(s[i])
  PROVE  Names!Parsed(Names!Joined(s, ":")) = {s}
<1> DEFINE name == Names!Joined(s, ":")
           colons == {k \in DOMAIN name : name[k] = ":"}
<1>1. name \in Seq(S) /\ Spelled(name, s, ":")
  BY JoinedSpells
<1>2. \A k \in 1..3 : Names!ValidComponent(s[k]) /\ ~Names!Has(s[k], ":")
  BY DEF Names!ValidComponent
<1>3. Names!Parsed(name) =
        {t \in {Cut(name, i, j) : i, j \in colons} :
           /\ Names!Joined(t, ":") = name
           /\ \A k \in 1..3 :
                Names!ValidComponent(t[k]) /\ ~Names!Has(t[k], ":")}
  BY DEF Names!Parsed, Cut
<1>4. s \in Names!Parsed(name)
  <2>1. \E i, j \in colons : Cut(name, i, j) = s
    <3> HIDE DEF name
    <3> QED
      BY <1>1, CutBack
  <2>2. s \in {Cut(name, i, j) : i, j \in colons}
    BY <2>1
  <2> QED
    BY <1>2, <1>3, <2>2
<1>5. ASSUME NEW t \in Names!Parsed(name) PROVE t = s
  <2>1. PICK i \in colons, j \in colons : t = Cut(name, i, j)
    BY <1>3
  <2>2. t \in Seq(S) \X Seq(S) \X Seq(S)
    <3> HIDE DEF name
    <3> QED
      BY <1>1, <2>1, CutParts
  <2>3. /\ Names!Joined(t, ":") = Names!Joined(s, ":")
        /\ \A k \in 1..3 : ~Names!Has(t[k], ":")
    BY <1>3
  <2>4. \A k \in 1..3 : ~Names!Has(s[k], ":") /\ ~Names!Has(t[k], ":")
    BY <1>2, <2>3
  <2> QED
    BY <2>2, <2>3, <2>4, JoinedOnce
<1> QED
  BY <1>4, <1>5

\* The name of a session is never a label: its key is a hash.
LEMMA KeyIsHash ==
  ASSUME NEW S, ":" \in S, NEW s \in Seq(S) \X Seq(S) \X Seq(S)
  PROVE  Names!SessionKey(Names!Joined(s, ":"))
           = <<"sha256", Names!Joined(s, ":")>>
<1> DEFINE name == Names!Joined(s, ":")
           m == Len(s[1]) + 1
<1>1. name \in Seq(S) /\ Spelled(name, s, ":")
  BY JoinedSpells
<1> HIDE DEF name
<1>2. m \in DOMAIN name /\ name[m] = ":"
  <2>1. /\ Len(s[1]) \in Nat /\ Len(s[2]) \in Nat /\ Len(s[3]) \in Nat
        /\ DOMAIN name = 1..Len(name)
    BY <1>1
  <2> QED
    BY <1>1, <2>1 DEF Spelled
<1>3. Names!Has(name, ":")
  BY <1>2 DEF Names!Has
<1>4. Names!SessionKey(name) = <<"sha256", name>>
  BY <1>3 DEF Names!SessionKey
<1> QED
  BY <1>4 DEF name

LEMMA KeysDiffer ==
  ASSUME NEW S, ":" \in S, NEW s \in Seq(S) \X Seq(S) \X Seq(S),
         NEW t \in Seq(S) \X Seq(S) \X Seq(S),
         s # t,
         \A i \in 1..3 :
           Names!ValidComponent(s[i]) /\ Names!ValidComponent(t[i])
  PROVE  Names!SessionKey(Names!Joined(s, ":"))
           # Names!SessionKey(Names!Joined(t, ":"))
<1>1. /\ Names!SessionKey(Names!Joined(s, ":"))
           = <<"sha256", Names!Joined(s, ":")>>
      /\ Names!SessionKey(Names!Joined(t, ":"))
           = <<"sha256", Names!Joined(t, ":")>>
  BY KeyIsHash
<1>2. \A k \in 1..3 : ~Names!Has(s[k], ":") /\ ~Names!Has(t[k], ":")
  BY DEF Names!ValidComponent
<1>3. Names!Joined(s, ":") # Names!Joined(t, ":")
  BY <1>2, JoinedOnce
<1> QED
  BY <1>1, <1>3

\* What the names of services are made of, unless they were changed to fit.
Small == (Names!Letters \ {"A"}) \cup {"-"}

LEMMA SmallTriple ==
  ASSUME NEW s \in Triples, Names!Kept(s),
         \A i \in 1..3 : Names!ValidComponent(s[i])
  PROVE  /\ s \in Seq(Small) \X Seq(Small) \X Seq(Small)
         /\ s[3] # <<>>
         /\ s[3][Len(s[3])] # "-"
<1>1. /\ s[1] \in Seq(STRING) /\ s[2] \in Seq(STRING) /\ s[3] \in Seq(STRING)
      /\ s = <<s[1], s[2], s[3]>>
  BY DEF Triples
<1>2. \A i \in 1..3 : \A j \in DOMAIN s[i] : s[i][j] \in Small
  BY DEF Names!Kept, Small, Names!Letters
<1>3. ASSUME NEW a \in Seq(STRING), \A j \in DOMAIN a : a[j] \in Small
      PROVE  a \in Seq(Small)
  <2>1. a \in Seq(STRING) /\ \A j \in 1..Len(a) : a[j] \in Small
    BY <1>3
  <2> QED
    BY <2>1
<1>4. s[1] \in Seq(Small) /\ s[2] \in Seq(Small) /\ s[3] \in Seq(Small)
  BY <1>1, <1>2, <1>3
<1>5. s[3] # <<>>
  BY DEF Names!ValidComponent
<1>6. s[3][Len(s[3])] # "-"
  BY DEF Names!Kept, Names!Last
<1> QED
  BY <1>1, <1>4, <1>5, <1>6

\* The name of a service spells the workspace, or is the hash of it.
LEMMA ServiceSpells ==
  ASSUME NEW s \in Seq(Small) \X Seq(Small) \X Seq(Small), s[3] # <<>>,
         s[3][Len(s[3])] # "-"
  PROVE  Names!ServiceName(s) =
           IF Len(Names!Joined(s, "-")) <= MaxLabel
           THEN Names!Joined(s, "-") ELSE <<"svc", s>>
<1> DEFINE name == Names!Joined(s, "-")
           lower == [i \in DOMAIN name |-> Names!Lower(name[i])]
           Ends(k) == /\ \A i \in (k+1)..Len(lower) : lower[i] = "-"
                      /\ k = 0 \/ lower[k] # "-"
           end == CHOOSE k \in 0..Len(lower) : Ends(k)
<1>1. name \in Seq(Small) /\ Spelled(name, s, "-")
  <2>1. "-" \in Small
    BY DEF Small
  <2> QED
    BY <2>1, JoinedSpells
<1>2. Names!ServiceName(s) =
        IF Len(SubSeq(lower, 1, end)) <= MaxLabel
        THEN SubSeq(lower, 1, end) ELSE <<"svc", s>>
  BY DEF Names!ServiceName
<1> HIDE DEF name
<1>3. lower = name
  <2>1. \A x \in Small : Names!Lower(x) = x
    BY DEF Small, Names!Lower, Names!Letters
  <2>2. \A i \in DOMAIN name : name[i] \in Small
    BY <1>1
  <2>3. \A i \in DOMAIN name : Names!Lower(name[i]) = name[i]
    BY <2>1, <2>2
  <2>4. name = [i \in DOMAIN name |-> name[i]]
    BY <1>1
  <2> QED
    BY <2>3, <2>4
<1>4. Len(name) \in Nat /\ Len(name) > 0 /\ name[Len(name)] # "-"
  <2>1. /\ Len(s[1]) \in Nat /\ Len(s[2]) \in Nat /\ Len(s[3]) \in Nat
        /\ Len(s[3]) > 0 /\ Len(s[3]) \in DOMAIN s[3]
    OBVIOUS
  <2>2. name[Len(name)] = s[3][Len(s[3])] /\ Len(name) > 0
    <3> DEFINE n == Len(s[1]) + 1 + Len(s[2]) + 1
               i == Len(s[3])
    <3>1. /\ Len(name) = n + i
          /\ \A j \in 1..Len(s[3]) : name[n + j] = s[3][j]
      BY <1>1 DEF Spelled
    <3>2. i \in 1..Len(s[3]) /\ n \in Nat /\ n + i > 0
      BY <2>1
    <3> HIDE DEF i, n
    <3>3. name[n + i] = s[3][i] /\ Len(name) = n + i /\ n + i > 0
      BY <3>1, <3>2
    <3> QED
      BY <3>3 DEF i
  <2> QED
    BY <1>1, <2>1, <2>2
<1> HIDE DEF lower
<1>5. end = Len(name)
  <2>1. Len(lower) = Len(name) /\ Len(lower) \in 0..Len(lower)
    BY <1>3, <1>4
  <2>2. Ends(Len(lower))
    BY <1>3, <1>4, <2>1
  <2>3. end \in 0..Len(lower) /\ Ends(end)
    <3> HIDE DEF Ends
    <3> QED
      BY <2>1, <2>2
  <2>4. ~(end < Len(lower))
    <3> SUFFICES ASSUME end < Len(lower) PROVE FALSE
      OBVIOUS
    <3> HIDE DEF end
    <3>1. Len(lower) \in (end + 1)..Len(lower)
      BY <1>4, <2>1, <2>3
    <3>2. lower[Len(lower)] = "-"
      BY <2>3, <3>1
    <3> QED
      BY <1>3, <1>4, <3>2
  <2> HIDE DEF end, Ends
  <2> QED
    BY <1>4, <2>1, <2>3, <2>4
<1>6. SubSeq(lower, 1, end) = name
  <2> HIDE DEF end
  <2>1. SubSeq(name, 1, Len(name)) = name
    BY <1>1, SubSeqFull
  <2> QED
    BY <1>3, <1>5, <2>1
<1> HIDE DEF end
<1>7. Names!ServiceName(s) =
        IF Len(name) <= MaxLabel THEN name ELSE <<"svc", s>>
  BY <1>2, <1>6
<1> QED
  BY <1>7 DEF name

\* The bookmarks of one repository spell different names.
LEMMA BookmarksDiffer ==
  ASSUME NEW S, NEW s \in Seq(S) \X Seq(S) \X Seq(S),
         NEW t \in Seq(S) \X Seq(S) \X Seq(S), NEW sep \in S,
         s[1] = t[1], s[2] = t[2],
         Names!Joined(s, sep) = Names!Joined(t, sep)
  PROVE  s = t
<1> DEFINE name == Names!Joined(s, sep)
           n == Len(s[1]) + 1 + Len(s[2]) + 1
<1>1. Spelled(name, s, sep) /\ Spelled(name, t, sep)
  BY JoinedSpells
<1> HIDE DEF name
<1>2. /\ s[1] \in Seq(S) /\ s[2] \in Seq(S) /\ s[3] \in Seq(S)
      /\ t[3] \in Seq(S)
      /\ s = <<s[1], s[2], s[3]>> /\ t = <<t[1], t[2], t[3]>>
  OBVIOUS
<1>3. n \in Nat
  BY <1>2
<1>4. /\ Len(name) = n + Len(s[3])
      /\ Len(name) = n + Len(t[3])
      /\ \A i \in 1..Len(s[3]) : name[n + i] = s[3][i]
      /\ \A i \in 1..Len(t[3]) : name[n + i] = t[3][i]
  BY <1>1 DEF Spelled
<1> HIDE DEF n
<1>5. Len(s[3]) = Len(t[3])
  BY <1>2, <1>3, <1>4
<1>6. s[3] = t[3]
  BY <1>2, <1>4, <1>5
<1> QED
  BY <1>2, <1>6

LEMMA ServicesDiffer ==
  ASSUME NEW s \in Triples, NEW t \in Triples, s # t,
         \A i \in 1..3 : Names!ValidComponent(s[i]),
         \A i \in 1..3 : Names!ValidComponent(t[i]),
         Names!Kept(s), Names!Kept(t),
         \/ s[1] = t[1] /\ s[2] = t[2]
         \/ ~Names!Hyphenated(s) /\ ~Names!Hyphenated(t)
  PROVE  Names!ServiceName(s) # Names!ServiceName(t)
<1> DEFINE S == Small
           j == Names!Joined(s, "-")
           k == Names!Joined(t, "-")
<1>1. /\ s \in Seq(S) \X Seq(S) \X Seq(S) /\ t \in Seq(S) \X Seq(S) \X Seq(S)
      /\ Names!ServiceName(s) = IF Len(j) <= MaxLabel THEN j ELSE <<"svc", s>>
      /\ Names!ServiceName(t) = IF Len(k) <= MaxLabel THEN k ELSE <<"svc", t>>
  BY SmallTriple, ServiceSpells
<1>2. "-" \in S /\ "svc" \notin S
  BY DEF Small, Names!Letters
<1>3. j # k
  <2>1. CASE s[1] = t[1] /\ s[2] = t[2]
    BY <1>1, <1>2, <2>1, BookmarksDiffer
  <2>2. CASE ~Names!Hyphenated(s) /\ ~Names!Hyphenated(t)
    <3>1. \A i \in 1..3 : ~Names!Has(s[i], "-") /\ ~Names!Has(t[i], "-")
      BY <2>2 DEF Names!Hyphenated
    <3> QED
      BY <1>1, <1>2, <3>1, JoinedOnce
  <2> QED
    BY <2>1, <2>2
<1>4. ASSUME NEW u \in Seq(S) \X Seq(S) \X Seq(S), NEW v
      PROVE  Names!Joined(u, "-") # <<"svc", v>>
  <2> DEFINE name == Names!Joined(u, "-")
  <2>1. name \in Seq(S) /\ Spelled(name, u, "-")
    BY <1>2, JoinedSpells
  <2> HIDE DEF name
  <2>2. Len(name) > 0 /\ Len(name) \in Nat
    <3>1. Len(u[1]) \in Nat /\ Len(u[2]) \in Nat /\ Len(u[3]) \in Nat
      OBVIOUS
    <3> QED
      BY <2>1, <3>1 DEF Spelled
  <2>3. name[1] \in S
    BY <2>1, <2>2
  <2>4. name # <<"svc", v>>
    BY <1>2, <2>3
  <2> QED
    BY <2>4 DEF name
<1>5. j # <<"svc", t>> /\ k # <<"svc", s>>
  BY <1>1, <1>4
<1> HIDE DEF j, k
<1> QED
  BY <1>1, <1>3, <1>5

\* The workspaces whose services differ.
Distinct(s, t) ==
  /\ s # t /\ Names!Kept(s) /\ Names!Kept(t)
  /\ \/ s[1] = t[1] /\ s[2] = t[2]
     \/ ~Names!Hyphenated(s) /\ ~Names!Hyphenated(t)

\* What NamesAreUnique says of two workspaces.
Unique(s, t) ==
  (\A i \in 1..3 : Names!ValidComponent(s[i]) /\ Names!ValidComponent(t[i])) =>
    /\ Names!Parsed(Names!Joined(s, ":")) = {s}
    /\ s # t => Names!SessionKey(Names!Joined(s, ":"))
                  # Names!SessionKey(Names!Joined(t, ":"))
    /\ Distinct(s, t) => Names!ServiceName(s) # Names!ServiceName(t)

LEMMA PairUnique ==
  ASSUME NEW s \in Triples, NEW t \in Triples
  PROVE  Unique(s, t)
<1> SUFFICES ASSUME \A i \in 1..3 :
                      Names!ValidComponent(s[i]) /\ Names!ValidComponent(t[i])
             PROVE  /\ Names!Parsed(Names!Joined(s, ":")) = {s}
                    /\ s # t => Names!SessionKey(Names!Joined(s, ":"))
                                  # Names!SessionKey(Names!Joined(t, ":"))
                    /\ Distinct(s, t) =>
                         Names!ServiceName(s) # Names!ServiceName(t)
  BY DEF Unique
<1> DEFINE S == STRING \cup {":"}
<1>1. ":" \in S
  OBVIOUS
<1>2. s \in Seq(S) \X Seq(S) \X Seq(S) /\ t \in Seq(S) \X Seq(S) \X Seq(S)
  <2>1. ASSUME NEW a \in Seq(STRING) PROVE a \in Seq(S)
    <3>1. \A j \in 1..Len(a) : a[j] \in S
      OBVIOUS
    <3> HIDE DEF S
    <3> QED
      BY <3>1
  <2> HIDE DEF S
  <2> QED
    BY <2>1 DEF Triples
<1> HIDE DEF S
<1>3. Names!Parsed(Names!Joined(s, ":")) = {s}
  BY <1>1, <1>2, ParsedBack
<1>4. ASSUME s # t
      PROVE  Names!SessionKey(Names!Joined(s, ":"))
               # Names!SessionKey(Names!Joined(t, ":"))
  BY <1>1, <1>2, <1>4, KeysDiffer
<1>5. ASSUME Distinct(s, t)
      PROVE  Names!ServiceName(s) # Names!ServiceName(t)
  BY <1>5, ServicesDiffer DEF Distinct
<1> QED
  BY <1>3, <1>4, <1>5

NamesInv == Names!NamesAreUnique /\ Names!BuiltIsDeployed

LEMMA NamesInit == Names!Init => NamesInv
  BY DEF Names!Init, NamesInv, Names!NamesAreUnique, Names!BuiltIsDeployed

LEMMA NameStep ==
  ASSUME Names!NameAssumption, NamesInv,
         NEW s \in Workspaces, NEW t \in Workspaces, Names!Name(s, t)
  PROVE  NamesInv'
<1>1. s \in Triples /\ t \in Triples
  BY DEF Names!NameAssumption, Triples
<1>2. Unique(s, t) /\ named' = <<s, t>> /\ image' = image
  BY <1>1, PairUnique DEF Names!Name
<1>3. Names!NamesAreUnique'
  BY <1>2 DEF Unique, Distinct, Names!NamesAreUnique
<1>4. Names!BuiltIsDeployed'
  BY <1>2 DEF NamesInv, Names!BuiltIsDeployed
<1> QED
  BY <1>3, <1>4 DEF NamesInv

\* An image runs as it was pushed exactly if the tags agree.
LEMMA TagsAgree ==
  ASSUME NEW S, NEW name \in Seq(S), NEW x \in S, NEW y \in S,
         {"host.name", "/", ":"} \subseteq S
  PROVE  (Names!Host \o name \o <<":", x>> = Names!Host \o name \o <<":", y>>)
           <=> x = y
<1> DEFINE h == Names!Host \o name
           n == Len(h)
<1>1. h \in Seq(S) /\ n \in Nat
  BY DEF Names!Host
<1> HIDE DEF h
<1>2. (h \o <<":", x>>)[n + 2] = x /\ (h \o <<":", y>>)[n + 2] = y
  BY <1>1
<1> QED
  BY <1>2 DEF h

LEMMA DeployStep ==
  ASSUME Names!NameAssumption, NamesInv, NEW tag \in Tags, NEW b, NEW t,
         NEW spelled \in BOOLEAN,
         Names!Deploy(tag, t, b, spelled)
  PROVE  NamesInv'
<1> DEFINE full == Names!TagOf(t, b)
           ref == IF spelled THEN tag \o <<":", full>> ELSE tag
           S == STRING \cup {"host.name", "/", ":", b, t}
<1>1. /\ named' = named
      /\ image' = [name |-> tag, tag |-> full, bookmark |-> b, ref |-> ref,
                   pushed |-> Names!Built(tag, t, b),
                   runs |-> Names!Qualified(ref, b)]
  BY DEF Names!Deploy
<1>2. Names!NamesAreUnique'
  BY <1>1 DEF NamesInv, Names!NamesAreUnique
<1>3. /\ tag \in Seq(S) /\ full \in S /\ b \in S
      /\ {"host.name", "/", ":"} \subseteq S
  <2>1. \A j \in 1..Len(tag) : tag[j] \in S
    BY DEF Names!NameAssumption
  <2>2. tag \in Seq(STRING)
    BY DEF Names!NameAssumption
  <2>3. full \in S
    BY DEF Names!TagOf
  <2>4. b \in S /\ {"host.name", "/", ":"} \subseteq S
    OBVIOUS
  <2> HIDE DEF S
  <2> QED
    BY <2>1, <2>2, <2>3, <2>4
<1> HIDE DEF S
<1>4. ASSUME ~Names!Has(tag, ":"),
             ~Names!RegistryHost(Names!FirstSegment(ref))
      PROVE  Names!Qualified(ref, b) = Names!Built(tag, t, b)
               <=> ref # tag \/ full = b
  <2>1. CASE spelled
    <3>1. ref[Len(tag) + 1] = ":" /\ Len(tag) + 1 \in DOMAIN ref /\ ref # tag
      <4>1. ref = tag \o <<":", full>>
        BY <2>1
      <4>2. Len(ref) = Len(tag) + 2 /\ ref[Len(tag) + 1] = ":"
        BY <1>3, <4>1
      <4> QED
        BY <1>3, <4>1, <4>2
    <3>2. Names!Has(ref, ":")
      BY <3>1 DEF Names!Has
    <3>3. Names!Qualified(ref, b) = Names!Host \o ref \o <<>>
      BY <1>4, <3>2 DEF Names!Qualified
    <3>4. Names!Host \in Seq(S) /\ ref \in Seq(S)
      BY <1>3, <2>1 DEF Names!Host
    <3>5. Names!Host \o ref \o <<>> = Names!Host \o ref
      BY <3>4
    <3>6. Names!Host \o ref = Names!Host \o tag \o <<":", full>>
      <4>1. <<":", full>> \in Seq(S)
        BY <1>3
      <4> HIDE DEF full
      <4> QED
        BY <1>3, <2>1, <3>4, <4>1, ConcatAssociative
    <3> QED
      BY <3>1, <3>3, <3>5, <3>6 DEF Names!Built
  <2>2. CASE ~spelled
    <3>1. ref = tag
      BY <2>2
    <3>2. Names!Qualified(ref, b) = Names!Host \o tag \o <<":", b>>
      BY <1>4, <3>1 DEF Names!Qualified
    <3> HIDE DEF full
    <3>3. Names!Built(tag, t, b) = Names!Host \o tag \o <<":", full>>
      BY DEF Names!Built, full
    <3> QED
      BY <1>3, <3>1, <3>2, <3>3, TagsAgree
  <2> QED
    BY <2>1, <2>2
<1> HIDE DEF ref, full
<1>5. Names!BuiltIsDeployed'
  BY <1>1, <1>4 DEF Names!BuiltIsDeployed
<1> QED
  BY <1>2, <1>5 DEF NamesInv

LEMMA NamesStep ==
  ASSUME NamesInv,
         ServeNames \/ UNCHANGED <<named, image>>
  PROVE  NamesInv'
<1>1. ASSUME ServeNames PROVE NamesInv'
  BY <1>1, FacesAssumption, NameStep, DeployStep DEF ServeNames
<1>2. ASSUME UNCHANGED <<named, image>> PROVE NamesInv'
  BY <1>2 DEF NamesInv, Names!NamesAreUnique, Names!BuiltIsDeployed
<1> QED
  BY <1>1, <1>2

----------------------------------------------------------------------------
(* The proxy *)

Linked  == {"open", "ended"}
Gone    == {"none", "closed"}
Done(e) == IF pump[e] = "done" THEN 1 ELSE 0

\* The safety half of ProxyEnds.  A pump that failed always finds room for its
\* error, a handler that waits while a pump has ended has an error to take,
\* and a handler that returned has left no connection behind, so that a pump
\* which still reads fails.
NoPumpIsStuck ==
  /\ \A e \in Proxy!Ends : pump[e] = "fail" => errs < Proxy!Room
  /\ proxy = "wait" /\ (\E e \in Proxy!Ends : pump[e] = "done") => errs > 0
  /\ proxy = "returned" => \A e \in Proxy!Ends : conn[e] \in Gone

ProxyTypeOK ==
  /\ proxy \in {"idle", "upgrade", "dial", "forward", "copy", "wait", "close",
                "returned"}
  /\ conn \in [Proxy!Ends -> Linked \cup Gone]
  /\ pump \in [Proxy!Ends -> {"none", "read", "write", "fail", "done"}]
  /\ errs \in Nat

\* Which connections there are at each statement of the handler.
Connections ==
  /\ proxy \in {"idle", "upgrade", "forward"} =>
       conn["client"] = "none" /\ conn["backend"] = "none"
  /\ proxy = "dial" => conn["client"] \in Linked /\ conn["backend"] = "none"
  /\ proxy \in {"wait", "copy"} =>
       conn["client"] \in Linked /\ conn["backend"] \in Linked
  /\ proxy = "close" => conn["client"] \in Linked
  /\ proxy = "returned" => conn["client"] \in Gone /\ conn["backend"] \in Gone

\* An error is on its way for every pump that has ended, but for the one that
\* the handler took.
ErrorsAreOfPumps ==
  /\ errs <= Done("client") + Done("backend")
  /\ proxy = "wait" => errs = Done("client") + Done("backend")
  /\ proxy \in {"idle", "upgrade", "forward", "dial", "copy"} =>
       pump["client"] = "none" /\ pump["backend"] = "none"

ProxyInv == ProxyTypeOK /\ Connections /\ ErrorsAreOfPumps

LEMMA ProxyInit == Proxy!Init => ProxyInv
  BY DEF Proxy!Init, ProxyInv, ProxyTypeOK, Connections, ErrorsAreOfPumps,
         Proxy!Ends, Linked, Gone, Done

LEMMA HandlerKeeps ==
  ASSUME ProxyInv, Proxy!Enter \/ Proxy!NoWorker \/ Proxy!HandlerStep
  PROVE  ProxyInv'
<1> USE DEF ProxyInv, ProxyTypeOK, Connections, ErrorsAreOfPumps,
            Proxy!Ends, Linked, Gone, Done
<1>1. CASE Proxy!Enter \/ Proxy!NoWorker
  BY <1>1 DEF Proxy!Enter, Proxy!NoWorker
<1>2. CASE Proxy!Upgrade
  BY <1>2 DEF Proxy!Upgrade
<1>3. CASE Proxy!Dial
  BY <1>3 DEF Proxy!Dial
<1>4. CASE Proxy!Forward \/ Proxy!ForwardEnds
  BY <1>4 DEF Proxy!Forward, Proxy!ForwardEnds
<1>5. CASE Proxy!Wait
  BY <1>5 DEF Proxy!Wait
<1>6. CASE Proxy!Close
  BY <1>6 DEF Proxy!Close
<1> QED
  BY <1>1, <1>2, <1>3, <1>4, <1>5, <1>6 DEF Proxy!HandlerStep

LEMMA PumpKeeps ==
  ASSUME ProxyInv, NEW e \in Proxy!Ends,
         \/ Proxy!ReadMessage(e) \/ Proxy!ReadFails(e) \/ Proxy!WriteMessage(e)
         \/ Proxy!Fail(e) \/ Proxy!PeerEnds(e)
  PROVE  ProxyInv'
<1> USE DEF ProxyInv, ProxyTypeOK, Connections, ErrorsAreOfPumps,
            Proxy!Ends, Linked, Gone, Done
<1>1. CASE Proxy!ReadMessage(e) \/ Proxy!ReadFails(e)
  BY <1>1 DEF Proxy!ReadMessage, Proxy!ReadFails, Proxy!Goto
<1>2. CASE Proxy!WriteMessage(e)
  BY <1>2 DEF Proxy!WriteMessage, Proxy!Goto
<1>3. CASE Proxy!Fail(e)
  BY <1>3 DEF Proxy!Fail, Proxy!Goto
<1>4. CASE Proxy!PeerEnds(e)
  BY <1>4 DEF Proxy!PeerEnds
<1> QED
  BY <1>1, <1>2, <1>3, <1>4

LEMMA ProxyStep ==
  ProxyInv /\ (ServeProxy \/ UNCHANGED proxyVars) => ProxyInv'
<1> SUFFICES ASSUME ProxyInv, ServeProxy \/ UNCHANGED proxyVars
             PROVE  ProxyInv'
  OBVIOUS
<1>1. CASE ServeProxy
  BY <1>1, HandlerKeeps, PumpKeeps DEF ServeProxy, Proxy!Next
<1>2. CASE UNCHANGED proxyVars
  BY <1>2 DEF proxyVars, ProxyInv, ProxyTypeOK, Connections, ErrorsAreOfPumps,
              Done
<1> QED
  BY <1>1, <1>2

\* A pump at "fail" has not ended, so at most the other's error is pending.
LEMMA ProxyRoom == ProxyInv => NoPumpIsStuck
  BY DEF ProxyInv, ProxyTypeOK, Connections, ErrorsAreOfPumps, NoPumpIsStuck,
         Proxy!Ends, Proxy!Room, Linked, Gone, Done

----------------------------------------------------------------------------
(* The router sends one request to one part; the others leave it alone. *)

FacesInv ==
  /\ SocketInv /\ ProxyInv
  /\ RouteInv /\ PublishInv /\ EditInv /\ NamesInv

LEMMA FacesInit == Init => FacesInv
  BY SocketInit, ProxyInit, RouteInit, PublishInit, EditInit, NamesInit
     DEF Init, FacesInv

LEMMA FacesStep == FacesInv /\ [Next]_vars => FacesInv'
<1> SUFFICES ASSUME FacesInv, [Next]_vars PROVE FacesInv'
  OBVIOUS
<1>1. /\ SocketInv /\ ProxyInv
      /\ RouteInv /\ PublishInv /\ EditInv /\ NamesInv
  BY DEF FacesInv
<1>2. /\ ServeSocket \/ UNCHANGED socketVars
      /\ ServeProxy \/ UNCHANGED proxyVars
      /\ ServeRoute \/ UNCHANGED routeVars
      /\ ServePublish \/ UNCHANGED <<package, target, published>>
      /\ ServeEdit \/ UNCHANGED <<file, edits, last>>
      /\ ServeNames \/ UNCHANGED <<named, image>>
  BY DEF Next, Dispatch, ServeSocket, ServeProxy, ServeRoute, ServePublish,
         ServeEdit, ServeNames, vars, pureVars
<1>3. SocketInv'
  <2>1. Socket!SocketAssumption
    BY FacesAssumption
  <2> QED
    BY <1>1, <1>2, <2>1, SocketStep
       DEF ServeSocket, socketVars, Socket!socketVars
<1>4. ProxyInv' /\ RouteInv' /\ PublishInv' /\ EditInv' /\ NamesInv'
  BY <1>1, <1>2, ProxyStep, RouteStep, PublishStep, EditsStep, NamesStep
<1> QED
  BY <1>3, <1>4 DEF FacesInv

LEMMA FacesAlways == Spec => []FacesInv
  BY FacesInit, FacesStep, PTL DEF Spec

----------------------------------------------------------------------------
\* The variables of a worker command keep their types.
THEOREM SocketTypeCorrect == Spec => []Socket!TypeOK
<1>1. FacesInv => Socket!TypeOK
  BY DEF FacesInv, SocketInv
<1> QED
  BY FacesAlways, <1>1, PTL

\* "a job_wait response always arrives before this deadline": with the margin
\* of the code, only a worker that is gone or hangs makes a read time out.
THEOREM WaitsAreInTime == Spec => []WaitInTime
<1>1. FacesInv => WaitInTime
  BY DEF FacesInv, SocketInv, WaitInTime
<1> QED
  BY FacesAlways, <1>1, PTL

\* When a proxied connection breaks, from either end and at any moment, the
\* handler and both pumps can go on to their ends.
THEOREM PumpsAreFree == Spec => []NoPumpIsStuck
<1>1. FacesInv => NoPumpIsStuck
  BY ProxyRoom DEF FacesInv
<1> QED
  BY FacesAlways, <1>1, PTL

\* Every handler that passes a request on says ok to a change only if the
\* change was made, changes nothing on a body without what it needs, and shows
\* a session nothing of another's unless it was asked for all or could not
\* decode the list.
THEOREM AnswersAreTrue == Spec => []AnswersAreReal
<1>1. FacesInv => AnswersAreReal
  BY DEF FacesInv, RouteInv, AnswersAreReal
<1> QED
  BY FacesAlways, <1>1, PTL

\* What the text of a publishing step reads is declared in the stage it runs
\* in, and has a value unless the step can do without it or a token is not
\* configured: for every protocol, from either face, whatever the caller gives.
THEOREM ArgumentsReachRun == Spec => []ArgsArrive
<1>1. FacesInv => ArgsArrive
  BY DEF FacesInv, PublishInv, ArgsArrive
<1> QED
  BY FacesAlways, <1>1, PTL

\* An edit of any range of a file of any length keeps every line outside the
\* range, in its order.
THEOREM EditsKeepTheRest == Spec => []EditKeepsOthers
<1>1. FacesInv => EditKeepsOthers
  BY DEF FacesInv, EditInv, EditKeepsOthers
<1> QED
  BY FacesAlways, <1>1, PTL

\* Session names of valid workspaces are parsed back to them and their keys
\* never collide, for names of any length over any alphabet.  Of names in which
\* nothing has to be changed, those of one repository have services of their
\* own, and so have those without hyphens; others may collide (a-b/c, a/b-c).
THEOREM NamesStayUnique == Spec => []NamesAreUnique
<1>1. FacesInv => NamesAreUnique
  BY DEF FacesInv, NamesInv, NamesAreUnique
<1> QED
  BY FacesAlways, <1>1, PTL

\* For a name without a tag and a reference that does not look like a
\* registry's, service-deploy runs the image container-build pushed exactly if
\* the tag was spelled out, or is the bookmark.
THEOREM DeploysWhatWasBuilt == Spec => []BuiltIsDeployed
<1>1. FacesInv => BuiltIsDeployed
  BY DEF FacesInv, NamesInv, BuiltIsDeployed
<1> QED
  BY FacesAlways, <1>1, PTL
=============================================================================
