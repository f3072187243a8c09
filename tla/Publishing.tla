----------------------------- MODULE Publishing -----------------------------
(***************************************************************************)
(* What package-publish builds (publish.go): the workspace it publishes,   *)
(* the containerfile rendered from the protocol's template, and the build  *)
(* arguments that go with it.  The templates are kept to the variables     *)
(* their RUN steps read.  The wait for the build is in OpsTask.            *)
(*                                                                         *)
(* External: buildkit.  A RUN step sees a variable if its own stage        *)
(* declares it, and a value if the build was given one.                    *)
(***************************************************************************)
EXTENDS Sequences

VARIABLES
  package,   \* the request: face, protocol, given (the arguments given),
             \* session ("none", "bad", "good"), token (one is configured)
  target,    \* where org, repo and bookmark come from
  published  \* the outcome: "none", "rejected", "built" from stages and args,
             \* or "custom": from a file of the repository, and args

publishVars == <<package, target, published>>

----------------------------------------------------------------------------
(* publishSpecs *)

Standard  == {"ARTIFACT_URL", "ARTIFACT_TOKEN", "PUBLISH_TS"}
Python    == {"go", "hex", "composer"}
Versioned == Python \cup {"maven", "swift"}
Multi     == {"helm"}
Protocols == Versioned \cup Multi \cup
  {"npm", "pypi", "cargo", "rubygems", "nuget", "generic", "conan", "pub"}

\* spec.args
Args(p) ==
  CASE p = "npm" -> {"NPMRC_LINE"}
    [] p \in Versioned -> {"NAME", "VERSION"}
    [] p = "generic" -> {"NAME", "VERSION", "FILE"}
    [] OTHER -> {}

\* spec.required: what the caller must give.
Required(p) == IF p = "npm" THEN {} ELSE Args(p)

\* The variables the text of the publishing step reads.
Uses(p) ==
  CASE p = "npm" -> {"NPMRC_LINE", "ARTIFACT_URL", "PUBLISH_TS"}
    [] p \in {"maven", "go", "hex", "composer", "swift"} ->
         {"NAME", "VERSION", "ARTIFACT_URL", "ARTIFACT_TOKEN", "PUBLISH_TS"}
    [] p = "generic" ->
         {"NAME", "VERSION", "FILE", "ARTIFACT_URL", "ARTIFACT_TOKEN",
          "PUBLISH_TS"}
    [] p \in {"pypi", "cargo", "rubygems", "helm", "nuget", "conan", "pub"} ->
         {"ARTIFACT_URL", "ARTIFACT_TOKEN", "PUBLISH_TS"}
    [] OTHER -> {}

\* os.environ[...] ends the step if the variable has no value; a shell reads
\* the empty string, which is good enough for the token only.
MustHave(p) ==
  IF p \in Python THEN Uses(p) ELSE Uses(p) \ {"ARTIFACT_TOKEN"}

----------------------------------------------------------------------------
Init ==
  /\ package = [protocol |-> "none"]
  /\ target = <<>>
  /\ published = [is |-> "none"]

Parts == {"org", "repo", "bookmark"}

Arrive(face, protocol, given, session, token) ==
  /\ package.protocol = "none"
  /\ package' = [face |-> face, protocol |-> protocol, given |-> given,
                 session |-> session, token |-> token]
  /\ UNCHANGED <<target, published>>

Given(part) == IF part \in package.given THEN "given" ELSE "missing"
FromSession(part) == IF part \in package.given THEN "given" ELSE "session"
Incomplete == ~({"org", "repo"} \subseteq package.given)

\* The tool: the session supplies org and repo together, if org is missing.
ToolTarget ==
  [t \in Parts |->
     CASE t = "bookmark" -> IF Incomplete THEN FromSession(t) ELSE Given(t)
       [] "org" \notin package.given -> "session"
       [] OTHER -> Given(t)]

\* runPublishTask: each part on its own, if there is a session at all.
FaceTarget ==
  [t \in Parts |->
     IF Incomplete /\ package.session # "none" THEN FromSession(t)
                                               ELSE Given(t)]

\* The session a call needs does not resolve; POST /packages/publish does
\* without one.
NoTarget ==
  /\ Incomplete
  /\ package.session = "bad"
     \/ (package.session = "none" /\ package.face = "tool")

\* The workspace is chosen.
Target ==
  /\ package.protocol # "none" /\ target = <<>> /\ published.is = "none"
  /\ IF NoTarget
       THEN published' = [is |-> "rejected"] /\ UNCHANGED target
       ELSE /\ target' =
                 IF package.face = "tool" THEN ToolTarget ELSE FaceTarget
            /\ UNCHANGED published
  /\ UNCHANGED package

----------------------------------------------------------------------------
(* publishPackage *)

\* Mutant: the arguments are declared before FROM only.
Stages_Once(p) ==
  IF p \in Multi THEN <<{}, Standard>> ELSE <<{}>>

\* renderPublishContainerfile: the variables each stage declares.  A template
\* of its own stages brings its own declarations (helm: in the second).
Stages(p) ==
  IF p \in Multi THEN <<{}, Standard>> ELSE <<Standard \cup Args(p)>>

\* The arguments with a value: what the caller gave, the precomputed line of
\* npm, and the token if there is one.  Empty ones are left out.
BuildArgs(p) ==
  (Args(p) \cap (package.given \cup {"NPMRC_LINE"}))
  \cup (IF package.token THEN Standard ELSE Standard \ {"ARTIFACT_TOKEN"})

\* What is refused before anything is built.
Refused ==
  \/ package.protocol \notin Protocols
  \/ "missing" \in {target["org"], target["repo"]}
  \/ ~(Required(package.protocol) \subseteq package.given)

\* The containerfile and its arguments go to jjlab's build; a file of the
\* repository that is named instead of the template has to be read first.
Publish ==
  /\ target # <<>> /\ published.is = "none"
  /\ LET args == BuildArgs(package.protocol)
     IN  \/ /\ ~Refused /\ "DOCKERFILE" \notin package.given
            /\ published' = [is |-> "built", args |-> args,
                             stages |-> Stages(package.protocol)]
         \/ /\ ~Refused /\ "DOCKERFILE" \in package.given
            /\ published' = [is |-> "custom", args |-> args]
         \/ /\ Refused \/ "DOCKERFILE" \in package.given
            /\ published' = [is |-> "rejected"]
  /\ UNCHANGED <<package, target>>

----------------------------------------------------------------------------
(* Properties *)

\* Every variable the publishing step, in the last stage, reads is declared
\* in that stage by the template's list of arguments, and has a value if the
\* step cannot do without it ("so the values reach RUN", publish.go:272-273).
\* It fails in the one case that is left out: go, hex and composer look up a
\* token although none is configured, meaning to do without ("if tok:").
ArgsArrive ==
  published.is = "built" =>
    LET p    == package.protocol
        last == published.stages[Len(published.stages)]
    IN  /\ Uses(p) \subseteq last
        /\ (MustHave(p) \ (IF package.token THEN {} ELSE {"ARTIFACT_TOKEN"}))
             \subseteq published.args
=============================================================================
