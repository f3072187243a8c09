-------------------------------- MODULE Faces --------------------------------
(***************************************************************************)
(* The front of the service: the router of the HTTP face with its tool     *)
(* bridge (main.go) hands a request to the part that serves it.  The parts *)
(* composed here keep nothing between requests and share nothing, so one   *)
(* request at a time is served; what requests do to each other through the *)
(* maps, the pods and the registry is the subject of the other modules.    *)
(***************************************************************************)
EXTENDS Naturals, Sequences

CONSTANTS
  WaitCap, ReadTimeout, Lag, MaxWait, WireRoom,   \* WorkerSocket
  Sessions, NoSession, Listed, Wants,             \* Routes
  Lines, Blank, MaxLen, MaxEdits,                 \* LineEdit
  Workspaces, Tags, MaxLabel                      \* Naming

VARIABLES
  part,      \* the part the request went to
  rpc, method, wait, ctx, left, wire, worker, held, answer,
  proxy, conn, pump, errs,
  route, body, caller, asked, step, fine, made, services, odd, shown, reply,
  package, target, published,
  file, edits, last,
  named, image

Socket  == INSTANCE WorkerSocket
Proxy   == INSTANCE WsProxy
Passes  == INSTANCE Routes WITH answer <- reply
Publish == INSTANCE Publishing
Editor  == INSTANCE LineEdit
Names   == INSTANCE Naming

ASSUME FacesAssumption ==
  /\ Socket!SocketAssumption
  /\ NoSession \notin Sessions
  /\ Blank \in Lines /\ MaxLen \in Nat /\ MaxEdits \in Nat
  /\ Names!NameAssumption

socketVars == <<rpc, method, wait, ctx, left, wire, worker, held, answer>>
proxyVars  == <<proxy, conn, pump, errs>>
routeVars  ==
  <<route, body, caller, asked, step, fine, made, services, odd, shown, reply>>
pureVars   == <<package, target, published, file, edits, last, named, image>>
vars == <<part, socketVars, proxyVars, routeVars, pureVars>>

Init ==
  /\ part = "none"
  /\ Socket!Init /\ Proxy!Init /\ Passes!Init
  /\ Publish!Init /\ Editor!Init /\ Names!Init

----------------------------------------------------------------------------
\* The router: which part serves a request.
Dispatch(p) ==
  /\ part = "none"
  /\ part' = p
  /\ UNCHANGED <<socketVars, proxyVars, routeVars, pureVars>>

Serve(p) == part = p /\ UNCHANGED part

ServeSocket ==
  /\ Serve("socket") /\ Socket!Next
  /\ UNCHANGED <<proxyVars, routeVars, pureVars>>

ServeProxy ==
  /\ Serve("proxy") /\ Proxy!Next
  /\ UNCHANGED <<socketVars, routeVars, pureVars>>

NoFilter == [all |-> FALSE, want |-> <<>>]
Bodies  == {"good", "missing", "mistyped"}
Replies == {"ok", "empty", "odd", "refused", "lost"}

ServeRoute ==
  /\ Serve("route")
  /\ \/ \E r \in Passes!AllRoutes, b \in Bodies :
          Passes!Arrive(r, b, NoSession, NoFilter)
     \/ \E c \in Sessions \cup {NoSession}, all \in BOOLEAN, w \in Wants :
          Passes!Arrive("service-list", "good", c, [all |-> all, want |-> w])
     \/ Passes!Reject
     \/ \E r \in Replies, S \in SUBSET Listed :
          /\ S # {} => route \in Passes!Listing
          /\ Passes!Ask(r, S)
     \/ Passes!Answer
  /\ UNCHANGED <<socketVars, proxyVars, pureVars>>

Givens == {"org", "repo", "NAME", "VERSION", "FILE", "DOCKERFILE"}

ServePublish ==
  /\ Serve("publish")
  /\ \/ \E f \in {"tool", "http"}, p \in Publish!Protocols \cup {"unknown"},
           g \in SUBSET Givens,
           s \in {"none", "bad", "good"}, t \in BOOLEAN :
          Publish!Arrive(f, p, g, s, t)
     \/ Publish!Target \/ Publish!Publish
  /\ UNCHANGED <<socketVars, proxyVars, routeVars, file, edits, last, named,
                 image>>

ServeEdit ==
  /\ Serve("edit")
  /\ \/ \E start, end \in 0..(MaxLen + 1), n \in 0..2 :
          \E new \in [1..n -> Lines] : Editor!Edit(start, end, new)
     \/ Editor!Panic(0)
  /\ UNCHANGED <<socketVars, proxyVars, routeVars, package, target, published,
                 named, image>>

ServeNames ==
  /\ Serve("names")
  /\ \/ \E s, t \in Workspaces : Names!Name(s, t)
     \/ \E tag \in Tags, b \in {"main", "latest"},
           t \in {"none", "v1", "1"}, spelled \in BOOLEAN :
          Names!Deploy(tag, t, b, spelled)
  /\ UNCHANGED <<socketVars, proxyVars, routeVars, package, target, published,
                 file, edits, last>>

Next ==
  \/ \E p \in {"socket", "proxy", "route", "publish", "edit", "names"} :
       Dispatch(p)
  \/ ServeSocket \/ ServeProxy \/ ServeRoute
  \/ ServePublish \/ ServeEdit \/ ServeNames

\* The fairness of the two parts that wait for others.
Fairness == Socket!Fairness /\ Proxy!Fairness

Spec == Init /\ [][Next]_vars /\ Fairness

----------------------------------------------------------------------------
(* Properties *)

\* The promises of the parts (see there), kept behind the router.
WaitInTime      == Socket!WaitInTime
CommandReturns  == Socket!CommandReturns
ProxyEnds       == Proxy!ProxyEnds
AnswersAreReal  == Passes!AnswersAreReal
ArgsArrive      == Publish!ArgsArrive
EditKeepsOthers == Editor!EditKeepsOthers
NamesAreUnique  == Names!NamesAreUnique
BuiltIsDeployed == Names!BuiltIsDeployed
=============================================================================
