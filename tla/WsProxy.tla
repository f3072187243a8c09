------------------------------ MODULE WsProxy ------------------------------
(***************************************************************************)
(* The proxies between a browser and the session's worker (wsproxy.go).    *)
(* proxyWS upgrades the request, dials the worker and starts two pumps,    *)
(* one per direction; it waits for the first of them to fail and closes    *)
(* both connections on its way out.  wsProxyJob is a streaming reverse     *)
(* proxy for the worker's event stream.                                    *)
(*                                                                         *)
(* External: the two peers.  A pump is named after the end it reads.       *)
(***************************************************************************)
EXTENDS Naturals

VARIABLES
  proxy,     \* the handler's next statement
  conn,      \* conn[e]: "none", "open", "ended" by its peer, "closed" by us
  pump,      \* pump[e]: the next statement of the pump that reads e
  errs       \* errors in errCh

proxyVars == <<proxy, conn, pump, errs>>

Ends == {"client", "backend"}
Other(e) == IF e = "client" THEN "backend" ELSE "client"

Init ==
  /\ proxy = "idle"
  /\ conn = [e \in Ends |-> "none"]
  /\ pump = [e \in Ends |-> "none"]
  /\ errs = 0

----------------------------------------------------------------------------
(* The handlers *)

\* The worker is looked up; both handlers begin alike.
Enter ==
  /\ proxy = "idle"
  /\ proxy' \in {"upgrade", "forward"}
  /\ UNCHANGED <<conn, pump, errs>>

\* 404, 503 (no address yet), or a URL that does not parse.
NoWorker ==
  /\ proxy = "idle"
  /\ proxy' = "returned"
  /\ UNCHANGED <<conn, pump, errs>>

Upgrade ==
  /\ proxy = "upgrade"
  /\ \/ proxy' = "dial" /\ conn' = [conn EXCEPT !["client"] = "open"]
     \/ proxy' = "returned" /\ UNCHANGED conn
  /\ UNCHANGED <<pump, errs>>

\* Without a backend the deferred Close of the client is all that is left.
Dial ==
  /\ proxy = "dial"
  /\ \/ /\ proxy' = "wait"
        /\ conn' = [conn EXCEPT !["backend"] = "open"]
        /\ pump' = [e \in Ends |-> "read"]
     \/ proxy' = "close" /\ UNCHANGED <<conn, pump>>
  /\ UNCHANGED errs

\* httputil.ReverseProxy copies the stream until either end is gone.
Forward ==
  /\ proxy = "forward"
  /\ \/ proxy' = "copy" /\ conn' = [e \in Ends |-> "open"]
     \/ proxy' = "returned" /\ UNCHANGED conn
  /\ UNCHANGED <<pump, errs>>

ForwardEnds ==
  /\ proxy = "copy"
  /\ \E e \in Ends : conn[e] = "ended"
  /\ proxy' = "close"
  /\ UNCHANGED <<conn, pump, errs>>

\* The first error ends the wait.
Wait ==
  /\ proxy = "wait" /\ errs > 0
  /\ errs' = errs - 1
  /\ proxy' = "close"
  /\ UNCHANGED <<conn, pump>>

\* The deferred calls run in reverse: the backend is closed first.
Close ==
  /\ proxy = "close"
  /\ LET e == IF conn["backend"] \in {"open", "ended"} THEN "backend"
                                                       ELSE "client"
     IN  /\ conn' = [conn EXCEPT ![e] = "closed"]
         /\ proxy' = IF e = "client" THEN "returned" ELSE "close"
  /\ UNCHANGED <<pump, errs>>

----------------------------------------------------------------------------
(* pumpWS *)

Goto(e, label) == pump' = [pump EXCEPT ![e] = label]

ReadMessage(e) ==
  /\ pump[e] = "read" /\ conn[e] = "open"
  /\ Goto(e, "write")
  /\ UNCHANGED <<proxy, conn, errs>>

ReadFails(e) ==
  /\ pump[e] = "read" /\ conn[e] \in {"ended", "closed"}
  /\ Goto(e, "fail")
  /\ UNCHANGED <<proxy, conn, errs>>

WriteMessage(e) ==
  /\ pump[e] = "write"
  /\ Goto(e, IF conn[Other(e)] = "open" THEN "read" ELSE "fail")
  /\ UNCHANGED <<proxy, conn, errs>>

\* Mutant: errCh has no buffer.
Room_Unbuffered == IF proxy = "wait" THEN 1 ELSE 0

\* What errCh takes: two, and one more into the hands of a handler that waits.
Room == 2 + IF proxy = "wait" THEN 1 ELSE 0

Fail(e) ==
  /\ pump[e] = "fail" /\ errs < Room
  /\ errs' = errs + 1
  /\ Goto(e, "done")
  /\ UNCHANGED <<proxy, conn>>

\* A peer goes away.
PeerEnds(e) ==
  /\ conn[e] = "open"
  /\ conn' = [conn EXCEPT ![e] = "ended"]
  /\ UNCHANGED <<proxy, pump, errs>>

HandlerStep ==
  Upgrade \/ Dial \/ Forward \/ ForwardEnds \/ Wait \/ Close

Next ==
  \/ Enter \/ NoWorker \/ HandlerStep
  \/ \E e \in Ends :
       \/ ReadMessage(e) \/ ReadFails(e) \/ WriteMessage(e) \/ Fail(e)
       \/ PeerEnds(e)

\* The handler and its pumps go on; a peer that is there reads what it is
\* sent (a write has no deadline of its own).
Fairness ==
  /\ WF_proxyVars(HandlerStep)
  /\ \A e \in Ends :
       /\ WF_proxyVars(ReadFails(e))
       /\ WF_proxyVars(WriteMessage(e))
       /\ WF_proxyVars(Fail(e))

Spec == Init /\ [][Next]_proxyVars /\ Fairness

----------------------------------------------------------------------------
(* Properties *)

\* When either peer goes away everything is undone: the handler returns, both
\* connections are closed and both pumps end, also the one whose error nobody
\* takes (wsproxy.go:77-85).
ProxyEnds ==
  \A e \in Ends :
    conn[e] = "ended" ~>
      /\ proxy = "returned"
      /\ \A f \in Ends : /\ conn[f] \in {"none", "closed"}
                         /\ pump[f] \in {"none", "done"}
=============================================================================
