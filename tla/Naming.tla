------------------------------- MODULE Naming -------------------------------
(***************************************************************************)
(* The names everything is addressed by (naming.go, sessions.go, tools.go, *)
(* builder.go): session names, the keys of sandboxes, the names of services*)
(* and the references of images.  A name is a sequence of tokens: letters, *)
(* "A" for the upper case of "a", separators, and words that the code      *)
(* treats as a whole.  A hash is an injective tag.                         *)
(***************************************************************************)
EXTENDS Naturals, Sequences, SequencesExt

CONSTANTS
  Workspaces,   \* triples of names: org, repo, bookmark
  Tags,         \* what images are called
  MaxLabel      \* the longest k8s label (63)

\* What the constants are, assumed where the module is used.
NameAssumption ==
  /\ Workspaces \subseteq Seq(STRING) \X Seq(STRING) \X Seq(STRING)
  /\ Tags \subseteq Seq(STRING)
  /\ MaxLabel \in Nat

VARIABLES
  named,     \* the two workspaces that were named
  image      \* the image that was built and then deployed: its name and tag,
             \* the reference deployed, what was pushed, what runs

nameVars == <<named, image>>

Letters == {"a", "b", "A", "1"}

Has(s, t) == \E i \in DOMAIN s : s[i] = t

----------------------------------------------------------------------------
(* Session names *)

\* Mutant: ":" is allowed in a component.
ValidComponent_Colon(c) ==
  /\ c # <<>> /\ c[1] \in Letters
  /\ Last(c) \notin {".", "/", ".lock"}
  /\ \A i \in 1..(Len(c) - 1) : <<c[i], c[i+1]>> \notin
       {<<".", ".">>, <<"/", "/">>}

\* componentRe and what validComponent adds to it.
ValidComponent(c) ==
  /\ c # <<>> /\ c[1] \in Letters
  /\ ~Has(c, ":")
  /\ Last(c) \notin {".", "/", ".lock"}
  /\ \A i \in 1..(Len(c) - 1) : <<c[i], c[i+1]>> \notin
       {<<".", ".">>, <<"/", "/">>}

Joined(t, sep) == t[1] \o <<sep>> \o t[2] \o <<sep>> \o t[3]

\* parseSessionName: the triple a name stands for, if it does.
Parsed(name) ==
  LET colons == {k \in DOMAIN name : name[k] = ":"}
      At(i, j) == <<SubSeq(name, 1, i - 1), SubSeq(name, i + 1, j - 1),
                    SubSeq(name, j + 1, Len(name))>>
  IN  {t \in {At(i, j) : i, j \in colons} :
         /\ Joined(t, ":") = name
         /\ \A k \in 1..3 : ValidComponent(t[k]) /\ ~Has(t[k], ":")}

\* sessionKey, labelKey: a valid label names itself, others are hashed.
SessionKey(name) ==
  IF Len(name) \in 1..MaxLabel /\ ~Has(name, ":") /\ ~Has(name, "/")
  THEN name ELSE <<"sha256", name>>

----------------------------------------------------------------------------
(* Service names *)

Lower(x) == IF x = "A" THEN "a" ELSE IF x \in Letters THEN x ELSE "-"

\* k8sServiceName; a component neither begins nor, for most, ends with "-".
ServiceName(t) ==
  LET s == Joined(t, "-")
      n == [i \in DOMAIN s |-> Lower(s[i])]
      k == CHOOSE k \in 0..Len(n) :
             /\ \A i \in (k+1)..Len(n) : n[i] = "-"
             /\ k = 0 \/ n[k] # "-"
      name == SubSeq(n, 1, k)
  IN  IF Len(name) <= MaxLabel THEN name ELSE <<"svc", t>>

\* k8sServiceName has nothing to change in the name of the workspace.
Kept(t) ==
  /\ \A i \in 1..3 : \A j \in DOMAIN t[i] :
       t[i][j] \in (Letters \ {"A"}) \cup {"-"}
  /\ Last(t[3]) # "-"

Hyphenated(t) == \E i \in 1..3 : Has(t[i], "-")

----------------------------------------------------------------------------
(* Image references, below the registry's host *)

Host == <<"host.name", "/">>

\* image-tag, or else the bookmark.
TagOf(imageTag, bookmark) == IF imageTag = "none" THEN bookmark ELSE imageTag

\* container-build: {tag}:{image-tag or bookmark}.
Built(tag, imageTag, bookmark) ==
  Host \o tag \o <<":", TagOf(imageTag, bookmark)>>

FirstSegment(ref) ==
  LET k == CHOOSE k \in 0..Len(ref) :
             /\ \A i \in 1..k : ref[i] # "/"
             /\ k = Len(ref) \/ ref[k+1] = "/"
  IN  SubSeq(ref, 1, k)

\* isRegistryHost: a dot, localhost, or a numeric port.
RegistryHost(seg) ==
  \/ seg = <<"localhost">>
  \/ Has(seg, ".")
  \/ \E i \in DOMAIN seg : seg[i] = ":" /\ SubSeq(seg, i+1, Len(seg)) = <<"1">>

\* Mutant: a bare reference is taken for :latest.
Qualified_Latest(ref, default) ==
  IF RegistryHost(FirstSegment(ref)) THEN ref
  ELSE Host \o ref \o IF Has(ref, ":") THEN <<>> ELSE <<":", "latest">>

\* qualifyImage, as service-deploy calls it.
Qualified(ref, default) ==
  IF RegistryHost(FirstSegment(ref)) THEN ref
  ELSE Host \o ref \o IF Has(ref, ":") THEN <<>> ELSE <<":", default>>

----------------------------------------------------------------------------
Init == named = <<>> /\ image = [name |-> <<>>]

\* Two workspaces are named, by their sessions and their services.
Name(s, t) ==
  /\ named = <<>> /\ image.name = <<>>
  /\ named' = <<s, t>>
  /\ UNCHANGED image

\* A session builds an image and deploys it, by the name it gave
\* container-build or with the tag spelled out.
Deploy(tag, imageTag, bookmark, spelled) ==
  LET full == TagOf(imageTag, bookmark)
      ref  == IF spelled THEN tag \o <<":", full>> ELSE tag
  IN  /\ named = <<>> /\ image.name = <<>>
      /\ image' = [name |-> tag, tag |-> full, bookmark |-> bookmark,
                   ref |-> ref, pushed |-> Built(tag, imageTag, bookmark),
                   runs |-> Qualified(ref, bookmark)]
      /\ UNCHANGED named

----------------------------------------------------------------------------
(* Properties *)

\* "a strict bijection" (naming.go:10-13): valid workspaces are parsed back
\* from their session names and never share a sandbox key.  Their services
\* collide, against "never collide" (tools.go:364-366, 648-651), where the
\* joined names do: a-b/c and a/b-c share one, hyphens being kept.  What holds:
\* if nothing in the names is changed, the bookmarks of one repository have
\* services of their own, and so have workspaces without hyphens.
NamesAreUnique ==
  named # <<>> /\ (\A k \in 1..2, i \in 1..3 : ValidComponent(named[k][i])) =>
    LET s == named[1]  t == named[2]
    IN  /\ Parsed(Joined(s, ":")) = {s}
        /\ s # t => SessionKey(Joined(s, ":")) # SessionKey(Joined(t, ":"))
        /\ /\ s # t /\ Kept(s) /\ Kept(t)
           /\ \/ s[1] = t[1] /\ s[2] = t[2]
              \/ ~Hyphenated(s) /\ ~Hyphenated(t)
           => ServiceName(s) # ServiceName(t)

\* "so build+deploy agree" (tools.go:713): service-deploy runs the image that
\* container-build pushed from the same session, exactly if the reference
\* spells the tag out or the tag is the bookmark; an image-tag must be spelled
\* out.  Left out are names with a tag of their own, and references that look
\* like a registry's: name:1 does, the tag read as a port.
BuiltIsDeployed ==
  image.name # <<>> =>
    \/ Has(image.name, ":")
    \/ RegistryHost(FirstSegment(image.ref))
    \/ image.runs = image.pushed
         <=> image.ref # image.name \/ image.tag = image.bookmark
=============================================================================
