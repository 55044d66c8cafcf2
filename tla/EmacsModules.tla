---------------------------- MODULE EmacsModules ----------------------------
(***************************************************************************)
(* emacs-framework/modules.mk: for which Emacs a Lisp package is built,    *)
(* under which name and into which tree, and what becomes of that when a   *)
(* package is installed from source.  make evaluates the file once for the *)
(* package asked for and once for every dependency that is not installed   *)
(* yet; all that one evaluation tells the next is the pattern of the name  *)
(* it looks for, PKGNAME_REQD.                                             *)
(*                                                                         *)
(* A type such as emacs30nox is a version and whether it is the nox build. *)
(* A pattern is the EMACS_PKGNAME_PREFIX it starts with; an elisp package  *)
(* depends on others by ${EMACS_PKGNAME_PREFIX}name.                       *)
(***************************************************************************)
EXTENDS Integers, Sequences

CONSTANTS
    Versions,     \* emacs31, ..., xemacs214
    XEmacs,       \* the versions whose _EMACS_FLAVOR is xemacs
    All,          \* _EMACS_VERSIONS_ALL, newest first
    Packages,     \* Lisp packages
    Needs,        \* the packages that each of them depends on
    Recipes,      \* what a package may say of the versions it takes
    Users,        \* what a user may set
    MaxRequests   \* bound: packages the user asks for

Type == [version : Versions, nox : BOOLEAN]
Unset == [version |-> "", nox |-> FALSE]
Has == {All[i] : i \in DOMAIN All}

Plain(t) == [version |-> t.version, nox |-> FALSE]
Nox(t) == [version |-> t.version, nox |-> TRUE]

Recipe == [accepted : Seq(Type), incompatible : SUBSET Type]
User == [type : Type,                  \* EMACS_TYPE
         default : Type,               \* EMACS_VERSION_DEFAULT
         reqd : Type \cup {Unset},     \* EMACS_VERSION_REQD
         overrides : BOOLEAN]          \* ... on make's command line

\* The list names the plain build of everything it has; no version is called
\* "xemacs", the one prefix that XEmacs packages share.
ASSUME VersionsAssumption ==
    /\ "" \notin Versions /\ "xemacs" \notin Versions /\ XEmacs \subseteq Versions
    /\ All \in Seq(Type) /\ All # <<>>
    /\ \A t \in Has : Plain(t) \in Has
ASSUME PackagesAssumption ==
    /\ Needs \in [Packages -> SUBSET Packages]
    /\ Recipes \subseteq Recipe /\ MaxRequests \in Nat
    /\ Users \subseteq User /\ Users # {}

VARIABLES
    recipe,     \* EMACS_VERSIONS_ACCEPTED and _INCOMPATIBLE of each package
    user,       \* the settings in force
    requests,   \* bound: packages asked for so far
    stack,      \* the packages being built, each for the one before it
    installed,  \* what is installed
    outcome     \* why the last request failed, if it did

vars == <<recipe, user, requests, stack, installed, outcome>>

-----------------------------------------------------------------------------
(***************************************************************************)
(* The version decision.                                                   *)
(***************************************************************************)
\* _EMACS_VERSIONS_OK: what the package lists, and the nox twin of what it lists, as
\* far as pkgsrc has it and the package does not refuse it.
Pair(v) == {v, Nox(v)}
OkGone(r) == {t \in Type \ r.incompatible : \E i \in DOMAIN r.accepted : t \in Pair(r.accepted[i])}
Ok(r) == {t \in Has \ r.incompatible : \E i \in DOMAIN r.accepted : t \in Pair(r.accepted[i])}

\* The first of it in the order the package wrote, a twin after what it is a twin of.
FirstOk(r) ==
    LET here(i) == Pair(r.accepted[i]) \cap Ok(r)
        first == CHOOSE i \in DOMAIN r.accepted :
                    here(i) # {} /\ \A j \in 1 .. i - 1 : here(j) = {}
    IN  IF r.accepted[first] \in Ok(r) THEN r.accepted[first] ELSE Nox(r.accepted[first])

\* _EMACS_VERSIONS_BULK and _EMACS_VERSION_BULK_DEFAULT
Bulk(r) == {t \in Ok(r) : t.nox => Plain(t) \notin Ok(r)}
BulkDefaultAsIs(r, d) == d
BulkDefault(r, d) == IF d.nox /\ Plain(d) \in Bulk(r) THEN Plain(d) ELSE d

\* The version that PKGNAME_REQD starts with.  No name starts with emacs30nox-, and
\* that of an XEmacs package starts with no version.
NoPattern == [version |-> "", nox |-> FALSE]
FromPattern(pattern) ==
    IF Plain(pattern) \in Has THEN Plain(pattern) ELSE Unset

\* EMACS_VERSION_REQD: where the version agrees with EMACS_TYPE, a package built for
\* another becomes that type, unless the command line says otherwise.
RequestedByAll(u, pattern) ==
    IF pattern = NoPattern THEN u.reqd ELSE u.type
Requested(u, pattern) ==
    LET asked == IF u.reqd = Unset THEN FromPattern(pattern) ELSE u.reqd
    IN  IF /\ pattern # NoPattern /\ asked.version = u.type.version
           /\ u.reqd = Unset \/ ~u.overrides
        THEN u.type ELSE asked

Refused == [type |-> All[1], refused |-> TRUE]
For(t) == [type |-> t, refused |-> FALSE]

\* _EMACS_TYPE and PKG_FAIL_REASON
Choice(u, pattern, r) ==
    LET reqd == Requested(u, pattern)
    IN  IF reqd # Unset THEN IF reqd \in Ok(r) THEN For(reqd) ELSE Refused
        ELSE IF u.default \in Ok(r) THEN For(u.default)
        ELSE IF Ok(r) # {} THEN For(FirstOk(r))
        ELSE Refused

-----------------------------------------------------------------------------
(***************************************************************************)
(* What a package built for type t is called, where its files go, and      *)
(* which Emacsen satisfy its dependency.                                   *)
(***************************************************************************)
IsXEmacs(t) == t.version \in XEmacs

\* EMACS_VARIANT is nox11
HasVariant(t) == t.nox /\ ~IsXEmacs(t)

\* EMACS_PKGNAME_PREFIX
Shared == [version |-> "xemacs", nox |-> FALSE]
Prefix(t) ==
    IF IsXEmacs(t) THEN Shared
    ELSE [version |-> t.version, nox |-> HasVariant(t)]

\* EMACS_LISPPREFIX: share/emacs/<version>, share/emacs-<version>-nox11/emacs/<version>
\* or the site-packages that all XEmacsen read.
Tree(t) ==
    IF IsXEmacs(t) THEN [of |-> "xemacs", variant |-> FALSE]
    ELSE [of |-> t.version, variant |-> HasVariant(t)]

\* _EMACS_REQD is widened to the other build for XEmacs only.
Other(t) == IF t.nox THEN Plain(t) ELSE Nox(t)
EmacsenWide(r, t) == IF Other(t) \in Ok(r) THEN {t, Other(t)} ELSE {t}
Emacsen(r, t) == IF Other(t) \in Ok(r) /\ IsXEmacs(t) THEN {t, Other(t)} ELSE {t}

-----------------------------------------------------------------------------
(***************************************************************************)
(* Installing from source.  How dependencies are resolved is pkgsrc's      *)
(* mk/pkgformat/pkg/depends.mk: an installed package that matches will do; *)
(* otherwise the dependency is built, and has to match afterwards.         *)
(***************************************************************************)
Top == stack[Len(stack)]
Matches(pkg, pattern) == \E b \in installed : b.pkg = pkg /\ Prefix(b.type) = pattern

Init ==
    /\ recipe \in [Packages -> Recipes] /\ user = CHOOSE u \in Users : TRUE
    /\ requests = 0 /\ stack = <<>> /\ installed = {} /\ outcome = "none"

\* make reads modules.mk in the directory of pkg; a refusal ends the whole request.
Evaluate(pkg, pattern, u) ==
    LET c == Choice(u, pattern, recipe[pkg])
    IN  IF c.refused THEN stack' = <<>> /\ outcome' = "refused"
        ELSE /\ stack' = Append(stack, [pkg |-> pkg, pattern |-> pattern, type |-> c.type])
             /\ outcome' = "none"

\* The user may have changed the settings since the last package.
Request(pkg, u) ==
    /\ stack = <<>> /\ requests < MaxRequests
    /\ requests' = requests + 1 /\ user' = u
    /\ Evaluate(pkg, NoPattern, u)
    /\ UNCHANGED <<recipe, installed>>

BuildDependency ==
    /\ stack # <<>>
    /\ \E pkg \in Needs[Top.pkg] :
          /\ ~Matches(pkg, Prefix(Top.type))
          /\ Evaluate(pkg, Prefix(Top.type), user)
    /\ UNCHANGED <<recipe, user, requests, installed>>

\* A package of that name that is there already stays; a dependency that came out
\* under another name than it was built for ends the request.
Install ==
    /\ stack # <<>>
    /\ \A pkg \in Needs[Top.pkg] : Matches(pkg, Prefix(Top.type))
    /\ installed' = IF Matches(Top.pkg, Prefix(Top.type)) THEN installed
                    ELSE installed \cup {[pkg |-> Top.pkg, type |-> Top.type]}
    /\ IF Top.pattern \in {NoPattern, Prefix(Top.type)}
       THEN stack' = SubSeq(stack, 1, Len(stack) - 1) /\ outcome' = outcome
       ELSE stack' = <<>> /\ outcome' = "mismatch"
    /\ UNCHANGED <<recipe, user, requests>>

Next ==
    \/ \E pkg \in Packages, u \in Users : Request(pkg, u)
    \/ BuildDependency
    \/ Install

Spec == Init /\ [][Next]_vars

-----------------------------------------------------------------------------
(***************************************************************************)
(* Properties.                                                             *)
(***************************************************************************)
Build == [pkg : Packages, pattern : [version : Versions \cup {"", "xemacs"}, nox : BOOLEAN],
          type : Has]

\* The variables have their types; in particular a package is only ever built for an
\* Emacs that pkgsrc has.
TypeOK ==
    /\ recipe \in [Packages -> Recipes] /\ user \in Users
    /\ requests \in 0 .. MaxRequests
    /\ stack \in Seq(Build)
    /\ installed \subseteq [pkg : Packages, type : Has]
    /\ outcome \in {"none", "refused", "mismatch"}

\* However long the chain of dependencies, it is built for one version: that of the
\* request if there was one, and otherwise the one that a GNU Emacs package settled
\* on, whatever its dependencies prefer ("the dependency has to be built for the same
\* one"; a request that cannot be met is refused "rather than building it for some
\* other version").
OneVersion ==
    \A i \in DOMAIN stack :
        /\ user.reqd # Unset => stack[i].type.version = user.reqd.version
        /\ i > 1 /\ ~IsXEmacs(stack[i - 1].type)
              => stack[i].type.version = stack[i - 1].type.version

\* Nothing is installed for an Emacs its package refuses, or where the Emacs that its
\* dependency is satisfied by does not look, or without the Lisp it needs in the same
\* place, whatever the settings were when each was built ("install into a tree nothing
\* reads").
LispWithinReach ==
    \A b \in installed :
        /\ b.type \in Ok(recipe[b.pkg])
        /\ \A e \in Emacsen(recipe[b.pkg], b.type) : Tree(e) = Tree(b.type)
        /\ \A pkg \in Needs[b.pkg] :
              \E c \in installed : c.pkg = pkg /\ Tree(c.type) = Tree(b.type)

\* What a bulk build is told: a pass for an entry builds the package for that entry;
\* every version that is accepted has an entry and no GNU version has two; a default
\* that the package accepts is folded to one of the entries.
BulkIndex ==
    \A pkg \in Packages :
        LET r == recipe[pkg]
            pass(t) == [type |-> user.type, default |-> user.default,
                        reqd |-> t, overrides |-> TRUE]
        IN  /\ \A t \in Bulk(r) : Choice(pass(t), NoPattern, r) = For(t)
            /\ \A t \in Ok(r) : \E e \in Bulk(r) : e.version = t.version
            /\ \A t, e \in Bulk(r) : t.version = e.version => t = e
            /\ user.default \in Ok(r) => BulkDefault(r, user.default) \in Bulk(r)

\* "That pattern says which Emacs the package asking for it settled on, and the
\* dependency has to be built for the same one": a dependency that is built matches
\* the pattern it was built for.
DependencyMatches == outcome # "mismatch"

=============================================================================
