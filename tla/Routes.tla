------------------------------- MODULE Routes -------------------------------
(***************************************************************************)
(* The handlers that pass one request on: most of the HTTP face (status.go,*)
(* handlers.go, helm.go, builder.go), the resolvers of the session         *)
(* variables (variables.go) and the tools that only ask jjlab (tools.go).  *)
(* Each makes a fixed sequence of requests with one of the helpers of      *)
(* httpclient.go and internal/jjlab, and answers.                          *)
(*                                                                         *)
(* The helpers differ in what they take for an answer: "json" decodes the  *)
(* body before it looks at the status, "typed" after it, "status" and "raw"*)
(* do not need a decodable body.                                           *)
(*                                                                         *)
(* External: jjlab and the artifact registry.  They answer 2xx only to what*)
(* they did; a lost reply (the client's own 60 s included) says nothing.   *)
(***************************************************************************)
EXTENDS Naturals, Sequences

CONSTANTS
  Sessions,    \* sessions whose names parse
  NoSession    \* a caller without one, or whose name does not parse

VARIABLES
  route,     \* the route or tool that is called
  body,      \* "good", "missing": nothing in a field that is needed, or
             \* "mistyped": one of the other fields does not decode
  caller,    \* the session that calls
  asked,     \* what service-list is asked for
  step,      \* requests made so far
  fine,      \* the ones whose reply the helper took for an answer
  made,      \* the change that was made: "none", "asked", "zero"
  services,  \* what jjlab's list holds, once it was asked for
  odd,       \* whether that list did not decode
  shown,     \* the services in the answer
  answer     \* "none", "ok", "error", "bad request"

routeVars ==
  <<route, body, caller, asked, step, fine, made, services, odd, shown,
    answer>>

----------------------------------------------------------------------------
(* The routes *)

Typed(n)  == [i \in 1..n |-> "typed"]
Lists     == {"sandboxes", "deployments"}
\* Those that show jjlab's list of services.
Listing   == Lists \cup {"sandbox", "service-list"}
Reads     == {"pods", "deployment status", "events", "revisions"}
Catalogs  == {"packages", "images"}
Queries   == {"helm list", "helm status", "helm values", "container-search",
              "package-search", "service-list"}
Changes   == {"delete sandbox", "deploy", "delete deployment", "restart",
              "scale", "rollback", "helm uninstall", "helm rollback",
              "pull-git-repo"}
\* The session variables, which have a resolver each; a sandbox that is not
\* there is an error, so neither ever says "not-created".
Resolvers == {"sandbox-id", "sandbox-status"}
Local     == {"health", "k8s config", "templates", "publish-specs"}
AllRoutes == Lists \cup Reads \cup Catalogs \cup Queries \cup Changes
             \cup Resolvers \cup Local \cup {"sandbox", "status"}

\* The requests a handler makes, by the helper it makes them with.
Requests(r) ==
  CASE r \in Local -> <<>>
    [] r = "sandbox" -> Typed(2)
    [] r = "status" -> <<"status", "status", "typed", "typed">>
    [] r \in Catalogs -> <<"raw">>
    [] r \in Queries \cup {"pull-git-repo"} -> <<"json">>
    [] r \in Changes \ {"deploy", "pull-git-repo"} -> <<"status">>
    [] OTHER -> Typed(1)

\* status reports its failures instead of returning them.
GoesOn(r) == r = "status"

\* A missing name (image, release, URL) is noticed before anything is sent.
Checked == {"deploy", "helm status", "helm uninstall", "pull-git-repo"}
\* Bodies whose decoding error is ignored: what did not decode counts as 0.
Unchecked == {"deploy", "scale", "rollback", "helm rollback"}

\* Mutant: a DELETE is taken for done whatever its status says.
Accepts_AnyStatus(by) ==
  CASE by = "typed" -> {"ok"}
    [] by = "json"  -> {"ok", "odd"}
    [] OTHER        -> {"ok", "empty", "odd", "refused"}

\* The replies a helper takes for an answer; "empty" is a 2xx without JSON,
\* "odd" one with JSON of another shape.
Accepts(by) ==
  CASE by = "typed" -> {"ok"}
    [] by = "json"  -> {"ok", "odd"}
    [] OTHER        -> {"ok", "empty", "odd"}

----------------------------------------------------------------------------
(* The service lists *)

\* filterServicesByExtra: kind, org and repo, each if it was asked for.
Matching(S, want) == {s \in S : \A f \in DOMAIN want : s[f] = want[f]}

\* filterServicesBySession, for a caller whose session parses.
Own(S, c) == IF c = NoSession THEN S ELSE {s \in S : s.session = c}

\* What a list shows.  sandboxGet's session filter reads a field that the
\* services do not have, so it filters nothing.  Where the list does not
\* decode, service-list shows it as it is; its other filters show nothing.
Shown(r, S, c, ask) ==
  CASE r = "sandboxes" -> S
    [] r \in {"deployments", "sandbox"} -> {s \in S : s.kind = "deployment"}
    [] r = "service-list" /\ odd -> IF DOMAIN ask.want = {} THEN S ELSE {}
    [] r = "service-list" /\ ~odd ->
         Matching(IF ask.all THEN S ELSE Own(S, c), ask.want)
    [] OTHER -> {}

----------------------------------------------------------------------------
Init ==
  /\ route = "none" /\ body = "good" /\ caller = NoSession
  /\ asked = [all |-> FALSE, want |-> <<>>]
  /\ step = 0 /\ fine = {} /\ made = "none"
  /\ services = {} /\ odd = FALSE /\ shown = {} /\ answer = "none"

\* A request arrives; its body can be bad if the handler reads one.
Arrive(r, b, c, ask) ==
  /\ route = "none"
  /\ b = "missing" => r \in Checked \cup Unchecked
  /\ b = "mistyped" => r \in Unchecked
  /\ route' = r /\ body' = b /\ caller' = c /\ asked' = ask
  /\ UNCHANGED <<step, fine, made, services, odd, shown, answer>>

Reject ==
  /\ route \in Checked /\ body = "missing" /\ answer = "none"
  /\ answer' = "bad request"
  /\ UNCHANGED <<route, body, caller, asked, step, fine, made, services, odd,
                shown>>

\* What a change makes of a body.
Change == IF body # "good" /\ route \in Unchecked THEN "zero" ELSE "asked"

\* One request and its reply, S being jjlab's list at that moment.
Ask(reply, S) ==
  /\ route # "none" /\ answer = "none" /\ step < Len(Requests(route))
  /\ ~(route \in Checked /\ body = "missing")
  /\ step' = step + 1
  /\ IF reply \in Accepts(Requests(route)[step'])
       THEN fine' = fine \cup {step'} /\ UNCHANGED answer
       ELSE /\ answer' = IF GoesOn(route) THEN answer ELSE "error"
            /\ UNCHANGED fine
  /\ \/ route \in Changes /\ reply # "refused" /\ made' = Change
     \/ (route \notin Changes \/ reply \in {"refused", "lost"})
        /\ UNCHANGED made
  /\ services' = S /\ odd' = (reply = "odd")
  /\ UNCHANGED <<route, body, caller, asked, shown>>

Answer ==
  /\ route # "none" /\ answer = "none" /\ step = Len(Requests(route))
  /\ answer' = "ok"
  /\ shown' = Shown(route, services, caller, asked)
  /\ UNCHANGED <<route, body, caller, asked, step, fine, made, services, odd>>

----------------------------------------------------------------------------
(* Properties *)

\* What a handler answers is so: it says ok to a change only if the change
\* was made; a body without what it needs changes nothing, unless zeros do
\* for it (status.go:218, 231, helm.go:144); and service-list, unless it was
\* asked for all, shows a session nothing of another's, as long as jjlab's
\* list decodes (the filter fails open, tools.go:485).
AnswersAreReal ==
  /\ answer = "ok" /\ route \in Changes => made # "none"
  /\ body = "missing" /\ route \in Checked => made = "none"
  /\ route = "service-list" /\ caller # NoSession /\ ~asked.all /\ ~odd =>
       \A s \in shown : s.session = caller
=============================================================================
