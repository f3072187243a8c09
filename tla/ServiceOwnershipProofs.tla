----------------------- MODULE ServiceOwnershipProofs ----------------------
(***************************************************************************)
(* The ownership guard, for any sessions, services and deploy calls: type  *)
(* correctness, and that a call which was not overtaken respects the owner.*)
(***************************************************************************)
EXTENDS ServiceOwnership, TLAPS

\* A call that posts was shown no owner but its own session.
Cleared ==
  \A d \in Deploys : pc[d] = "post" => found[d] \in {NoSession, By[d]}

\* A lookup whose service nobody has touched since is still right.
Fresh ==
  \A d \in told :
    found[d] = IF name[d] \in exists THEN owner[name[d]] ELSE NoSession

GuardInv == TypeOK /\ Cleared /\ Fresh

----------------------------------------------------------------------------
LEMMA GuardInit == Init => GuardInv
  BY SessionAssumption
     DEF Init, GuardInv, TypeOK, Cleared, Fresh, Owners

\* A post that reaches jjlab.
LEMMA AppliedStep ==
  ASSUME GuardInv, NEW d \in Deploys, pc[d] = "post", Applied(d),
         Goto(d, "off"), UNCHANGED <<name, found>>
  PROVE  GuardInv'
<1> USE DEF GuardInv
<1> DEFINE n == name[d]
<1>1. n \in Names /\ By[d] \in Owners
  BY ByAssumption DEF TypeOK, Owners
<1>2. TypeOK'
  BY <1>1 DEF TypeOK, Applied, Goto, Touched
<1>3. Cleared'
  BY DEF TypeOK, Cleared, Goto
<1>4. Fresh'
  BY <1>1 DEF TypeOK, Fresh, Applied, Touched
<1> QED
  BY <1>2, <1>3, <1>4

LEMMA GuardStep == GuardInv /\ [Next]_vars => GuardInv'
<1> SUFFICES ASSUME GuardInv, [Next]_vars PROVE GuardInv'
  OBVIOUS
<1> USE DEF GuardInv
<1>1. ASSUME NEW d \in Deploys, Begin(d) PROVE GuardInv'
  BY <1>1 DEF Begin, Goto, TypeOK, Cleared, Fresh, Owners
<1>2. ASSUME NEW d \in Deploys, Look(d) PROVE GuardInv'
  BY <1>2 DEF Look, Goto, TypeOK, Cleared, Fresh, Owners
<1>3. ASSUME NEW d \in Deploys, LookFails(d) \/ Guard(d) PROVE GuardInv'
  BY <1>3
     DEF LookFails, Guard, Goto, TypeOK, Cleared, Fresh
<1>4. ASSUME NEW d \in Deploys, Post(d) PROVE GuardInv'
  BY <1>4, AppliedStep DEF Post
<1>5. ASSUME NEW d \in Deploys, PostFails(d) PROVE GuardInv'
  <2>1. CASE Applied(d)
    BY <1>5, <2>1, AppliedStep DEF PostFails
  <2>2. CASE UNCHANGED <<exists, owner, spec, told>>
    BY <1>5, <2>2
       DEF PostFails, Goto, TypeOK, Cleared, Fresh
  <2> QED
    BY <1>5, <2>1, <2>2 DEF PostFails
<1>6. ASSUME NEW n \in Names, Delete(n) PROVE GuardInv'
  BY <1>6
     DEF Delete, Touched, TypeOK, Cleared, Fresh, Owners
<1>7. CASE UNCHANGED vars
  BY <1>7 DEF vars, TypeOK, Cleared, Fresh
<1> QED
  BY <1>1, <1>2, <1>3, <1>4, <1>5, <1>6, <1>7 DEF Next

LEMMA GuardAlways == Spec => []GuardInv
  BY GuardInit, GuardStep, PTL DEF Spec

----------------------------------------------------------------------------
\* The variables keep their types; a deleted service leaves no owner behind.
THEOREM OwnershipTypeCorrect == Spec => []TypeOK
<1>1. GuardInv => TypeOK
  BY DEF GuardInv
<1> QED
  BY GuardAlways, <1>1, PTL

\* A deploy whose lookup still holds when it posts never takes over another
\* session's service.
THEOREM GuardKeepsOwners == Spec => OwnerIsAsked
<1>1. GuardInv => \A d \in told : KeepsOwner(d)
  BY DEF GuardInv, TypeOK, Cleared, Fresh, KeepsOwner
<1>2. GuardInv /\ [Next]_vars => [\A d \in told : KeepsOwner(d)]_vars
  BY <1>1
<1> QED
  BY GuardAlways, <1>2, PTL DEF Spec, OwnerIsAsked
============================================================================
