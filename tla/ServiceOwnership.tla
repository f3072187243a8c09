-------------------------- MODULE ServiceOwnership -------------------------
(***************************************************************************)
(* Deploying services under names that sessions share: the service-deploy  *)
(* tool looks the service up, checks that no other session owns it, and    *)
(* posts the new specification (tools.go); POST /deployments posts without *)
(* looking (handlers.go).  The owner is the zergx/session annotation.      *)
(*                                                                         *)
(* External: jjlab's services.  A post that sends no annotation leaves the *)
(* one that is there.                                                      *)
(***************************************************************************)
CONSTANTS
  Names,      \* service names
  Sessions,
  NoSession,  \* no session: none given, or no annotation
  Deploys,    \* deploy calls
  By,         \* By[d]: the session that calls
  Faces,      \* which faces are used: "tool", "http"
  Faults      \* "lookup": the lookup fails; "post": the post, or its reply

ASSUME SessionAssumption == NoSession \notin Sessions
ASSUME ByAssumption == By \in [Deploys -> Sessions \cup {NoSession}]
ASSUME FaceAssumption == Faces \subseteq {"tool", "http"}

VARIABLES
  exists,   \* the services there are
  owner,    \* owner[n]: n's zergx/session annotation
  spec,     \* spec[n]: the session whose specification n runs
  pc,       \* pc[d]: the call's next statement
  name,     \* name[d]: the service it names
  found,    \* found[d]: the owner its lookup saw
  told      \* history: the calls whose lookup was answered, and whose service
            \* nobody has touched since

vars == <<exists, owner, spec, pc, name, found, told>>

Owners == Sessions \cup {NoSession}

Init ==
  /\ exists = {}
  /\ owner = [n \in Names |-> NoSession]
  /\ spec = [n \in Names |-> NoSession]
  /\ pc = [d \in Deploys |-> "off"]
  /\ name \in [Deploys -> Names]
  /\ found = [d \in Deploys |-> NoSession]
  /\ told = {}

Goto(d, label) == pc' = [pc EXCEPT ![d] = label]

----------------------------------------------------------------------------
Begin(d) ==
  /\ pc[d] = "off"
  /\ \E f \in Faces, n \in Names :
       /\ name' = [name EXCEPT ![d] = n]
       /\ Goto(d, IF f = "tool" THEN "look" ELSE "post")
  /\ found' = [found EXCEPT ![d] = NoSession]
  /\ told' = told \ {d}
  /\ UNCHANGED <<exists, owner, spec>>

\* fetchService: the annotation, or nothing when there is no such service.
Look(d) ==
  /\ pc[d] = "look"
  /\ found' = [found EXCEPT ![d] =
       IF name[d] \in exists THEN owner[name[d]] ELSE NoSession]
  /\ told' = told \cup {d}
  /\ Goto(d, "guard")
  /\ UNCHANGED <<exists, owner, spec, name>>

\* The lookup fails: the guard does without it.
LookFails(d) ==
  /\ "lookup" \in Faults
  /\ pc[d] = "look"
  /\ Goto(d, "guard")
  /\ UNCHANGED <<exists, owner, spec, name, found, told>>

\* Mutant: a call that names no session passes the guard.
Guard_AnonymousPasses(d) ==
  /\ pc[d] = "guard"
  /\ Goto(d, IF found[d] \in {NoSession, By[d]} \/ By[d] = NoSession
             THEN "post" ELSE "off")
  /\ UNCHANGED <<exists, owner, spec, name, found, told>>

\* The ownership guard: the owner another session's, the call is rejected.
Guard(d) ==
  /\ pc[d] = "guard"
  /\ Goto(d, IF found[d] \in {NoSession, By[d]} THEN "post" ELSE "off")
  /\ UNCHANGED <<exists, owner, spec, name, found, told>>

\* What the lookups said of n holds no longer.
Touched(n) == told' = {d \in told : name[d] # n}

\* jjlab creates or updates the service.
Applied(d) ==
  /\ exists' = exists \cup {name[d]}
  /\ owner' = [owner EXCEPT ![name[d]] =
       IF By[d] # NoSession THEN By[d] ELSE @]
  /\ spec' = [spec EXCEPT ![name[d]] = By[d]]
  /\ Touched(name[d])

Post(d) ==
  /\ pc[d] = "post"
  /\ Applied(d)
  /\ Goto(d, "off")
  /\ UNCHANGED <<name, found>>

\* The post fails, or only its reply is lost.
PostFails(d) ==
  /\ "post" \in Faults
  /\ pc[d] = "post"
  /\ Applied(d) \/ UNCHANGED <<exists, owner, spec, told>>
  /\ Goto(d, "off")
  /\ UNCHANGED <<name, found>>

\* DELETE /deployments/{name}: no guard, the service goes with its annotation.
Delete(n) ==
  /\ n \in exists
  /\ exists' = exists \ {n}
  /\ owner' = [owner EXCEPT ![n] = NoSession]
  /\ spec' = [spec EXCEPT ![n] = NoSession]
  /\ Touched(n)
  /\ UNCHANGED <<pc, name, found>>

Next ==
  \/ \E d \in Deploys :
       \/ Begin(d) \/ Look(d) \/ LookFails(d) \/ Guard(d)
       \/ Post(d) \/ PostFails(d)
  \/ \E n \in Names : Delete(n)

Spec == Init /\ [][Next]_vars

----------------------------------------------------------------------------
(* Properties *)

\* Types; a deleted service leaves no owner behind.
TypeOK ==
  /\ exists \subseteq Names
  /\ owner \in [Names -> Owners]
  /\ spec \in [Names -> Owners]
  /\ pc \in [Deploys -> {"off", "look", "guard", "post"}]
  /\ name \in [Deploys -> Names]
  /\ found \in [Deploys -> Owners]
  /\ told \subseteq Deploys
  /\ \A n \in Names \ exists : owner[n] = NoSession

\* d's post leaves a service that exists with its owner, or leaves it alone.
KeepsOwner(d) ==
  pc[d] = "post" /\ pc'[d] = "off" /\ name[d] \in exists
    => owner[name[d]] \in {NoSession, By[d]} \/ UNCHANGED <<owner, spec>>

\* "Only the session that created a service may update/scale it"
\* (tools.go:373-374), as far as a look before the post can ensure it: a
\* service passes from one session to another only through a call that was
\* overtaken by another one or by a delete, whose lookup failed, or that came
\* through the HTTP face, which does not look.
OwnerIsAsked == [][\A d \in told : KeepsOwner(d)]_vars
============================================================================
