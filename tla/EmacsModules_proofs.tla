------------------------ MODULE EmacsModules_proofs ------------------------
(***************************************************************************)
(* Proofs about the version decision and the builds that follow from it,   *)
(* for any versions, packages, recipes and settings.                       *)
(***************************************************************************)
EXTENDS EmacsModules, LeastNumber_proofs

-----------------------------------------------------------------------------
(***************************************************************************)
(* What the decision returns.                                              *)
(***************************************************************************)
\* The first version a package accepts is one that it accepts.
LEMMA FirstIsOk ==
    ASSUME NEW r \in Recipe, Ok(r) # {}
    PROVE  FirstOk(r) \in Ok(r)
<1> DEFINE here(i) == Pair(r.accepted[i]) \cap Ok(r)
           S == {i \in DOMAIN r.accepted : here(i) # {}}
           P(i) == here(i) # {} /\ \A j \in 1 .. i - 1 : here(j) = {}
           first == CHOOSE i \in DOMAIN r.accepted : P(i)
<1>1. r.accepted \in Seq(Type) /\ DOMAIN r.accepted = 1 .. Len(r.accepted) /\ Len(r.accepted) \in Nat
  BY DEF Recipe
<1>2. S # {}
  BY DEF Ok
<1>3. S \in SUBSET Nat
  BY <1>1
<1>4. PICK n \in S : \A m \in S : n <= m
  <2> HIDE DEF S
  <2> QED
    BY <1>2, <1>3, LeastExists
<1>5. \A j \in 1 .. n - 1 : here(j) = {}
  <2> SUFFICES ASSUME NEW j \in 1 .. n - 1, here(j) # {} PROVE FALSE
    OBVIOUS
  <2>1. n \in 1 .. Len(r.accepted)
    BY <1>1, <1>4
  <2>2. j \in DOMAIN r.accepted /\ j < n
    BY <1>1, <2>1
  <2> QED
    BY <1>4, <2>1, <2>2
<1>6. n \in DOMAIN r.accepted /\ P(n)
  BY <1>4, <1>5
<1> HIDE DEF P
<1>7. first \in DOMAIN r.accepted /\ P(first)
  BY <1>6
<1> USE DEF P
<1>8. here(first) # {}
  BY <1>7
<1>9. r.accepted[first] \in Ok(r) \/ Nox(r.accepted[first]) \in Ok(r)
  BY <1>8 DEF Pair
<1>10. FirstOk(r) = IF r.accepted[first] \in Ok(r) THEN r.accepted[first] ELSE Nox(r.accepted[first])
  BY DEF FirstOk
<1> HIDE DEF first
<1> QED
  BY <1>9, <1>10

\* What is not refused is built for an accepted version.
LEMMA ChoiceIsOk ==
    ASSUME NEW u, NEW pattern, NEW r \in Recipe, ~Choice(u, pattern, r).refused
    PROVE  Choice(u, pattern, r).type \in Ok(r)
BY FirstIsOk DEF Choice, For, Refused

LEMMA HasTypes == Has \subseteq Type
<1>1. All \in Seq(Type)
  BY VersionsAssumption
<1> QED
  BY <1>1 DEF Has

LEMMA OkHas == ASSUME NEW r PROVE Ok(r) \subseteq Has
BY DEF Ok

\* A request for one version is met by that version or refused.
LEMMA ChoiceOfRequested ==
    ASSUME NEW u, NEW pattern, NEW r, ~Choice(u, pattern, r).refused,
           Requested(u, pattern) # Unset
    PROVE  Choice(u, pattern, r).type = Requested(u, pattern)
BY DEF Choice, For, Refused

LEMMA NamesDiffer == Unset \notin Type
BY VersionsAssumption DEF Type, Unset

\* What the user asked for keeps its version, whatever the pattern.
LEMMA RequestKept ==
    ASSUME NEW u \in User, NEW pattern, u.reqd # Unset
    PROVE  Requested(u, pattern) # Unset /\ Requested(u, pattern).version = u.reqd.version
BY NamesDiffer DEF Requested, User

\* The pattern of a GNU Emacs package is read as its version.
LEMMA PatternKept ==
    ASSUME NEW u \in User, NEW t \in Has, ~IsXEmacs(t), u.reqd = Unset
    PROVE  Requested(u, Prefix(t)) # Unset /\ Requested(u, Prefix(t)).version = t.version
<1>1. t \in Type /\ Plain(t) \in Has /\ Plain(t) \in Type
  BY HasTypes, VersionsAssumption
<1>2. Plain(t) = [version |-> t.version, nox |-> FALSE]
  BY DEF Plain
<1>3. Prefix(t).version = t.version
  BY DEF Prefix
<1>4. FromPattern(Prefix(t)) = Plain(t)
  BY <1>1, <1>3 DEF FromPattern, Plain
<1>5. u.type \in Type /\ Plain(t).version = t.version
  BY <1>2 DEF User
<1> QED
  BY <1>1, <1>4, <1>5, NamesDiffer DEF Requested

\* A prefix names a tree, and the Emacsen that satisfy a dependency read it.
LEMMA PrefixNamesTree ==
    ASSUME NEW t \in Type, NEW v \in Type, Prefix(t) = Prefix(v)
    PROVE  Tree(t) = Tree(v)
<1>1. t.version \in Versions /\ v.version \in Versions
  BY DEF Type
<1> QED
  BY <1>1, VersionsAssumption DEF Prefix, Tree, Shared, IsXEmacs

LEMMA EmacsenReadTree ==
    ASSUME NEW r, NEW t \in Type, NEW e \in Emacsen(r, t)
    PROVE  Tree(e) = Tree(t)
BY DEF Emacsen, Other, Plain, Nox, Tree, IsXEmacs, HasVariant, Type

\* A prefix is a pattern of the type that frames are recorded with.
Patterns == [version : Versions \cup {"", "xemacs"}, nox : BOOLEAN]
LEMMA PrefixIsPattern ==
    ASSUME NEW t \in Type
    PROVE  Prefix(t) \in Patterns
BY DEF Prefix, Patterns, Shared, HasVariant, Type

-----------------------------------------------------------------------------
(***************************************************************************)
(* Type correctness.                                                       *)
(***************************************************************************)
LEMMA InitTypeOK == Init => TypeOK
BY PackagesAssumption DEF Init, TypeOK, Build

\* make's evaluation adds a build of the right type, or gives up.
LEMMA EvaluateType ==
    ASSUME TypeOK, NEW pkg \in Packages, NEW pattern \in Patterns, NEW u,
           Evaluate(pkg, pattern, u)
    PROVE  stack' \in Seq(Build) /\ outcome' \in {"none", "refused", "mismatch"}
<1>1. recipe[pkg] \in Recipe
  BY PackagesAssumption DEF TypeOK
<1> DEFINE c == Choice(u, pattern, recipe[pkg])
<1>2. CASE c.refused
  BY <1>2 DEF Evaluate
<1>3. CASE ~c.refused
  <2>1. c.type \in Has
    BY <1>1, <1>3, ChoiceIsOk, OkHas
  <2>2. [pkg |-> pkg, pattern |-> pattern, type |-> c.type] \in Build
    BY <2>1 DEF Build, Patterns
  <2>3. /\ stack' = Append(stack, [pkg |-> pkg, pattern |-> pattern, type |-> c.type])
        /\ outcome' = "none"
    BY <1>3 DEF Evaluate
  <2> HIDE DEF c
  <2> QED
    BY <2>2, <2>3 DEF TypeOK
<1> QED
  BY <1>2, <1>3

LEMMA TopType ==
    ASSUME TypeOK, stack # <<>>
    PROVE  Top \in Build /\ Top.pkg \in Packages /\ Top.type \in Has /\ Top.type \in Type
<1>1. stack \in Seq(Build) /\ Len(stack) \in Nat /\ Len(stack) > 0
  BY DEF TypeOK
<1>2. Top \in Build
  BY <1>1 DEF Top
<1> QED
  BY <1>2, HasTypes DEF Build

LEMMA NextTypeOK == TypeOK /\ [Next]_vars => TypeOK'
<1> SUFFICES ASSUME TypeOK, [Next]_vars PROVE TypeOK'
  OBVIOUS
<1>1. CASE \E pkg \in Packages, u \in Users : Request(pkg, u)
  <2>1. PICK pkg \in Packages, u \in Users : Request(pkg, u)
    BY <1>1
  <2>2. NoPattern \in Patterns
    BY DEF NoPattern, Patterns
  <2>3. Evaluate(pkg, NoPattern, u)
    BY <2>1 DEF Request
  <2>4. stack' \in Seq(Build) /\ outcome' \in {"none", "refused", "mismatch"}
    BY <2>2, <2>3, EvaluateType
  <2> QED
    BY <2>1, <2>4, PackagesAssumption DEF Request, TypeOK
<1>2. CASE BuildDependency
  <2>1. stack # <<>>
    BY <1>2 DEF BuildDependency
  <2>2. Top.pkg \in Packages /\ Top.type \in Type
    BY <2>1, TopType
  <2>3. PICK pkg \in Needs[Top.pkg] : Evaluate(pkg, Prefix(Top.type), user)
    BY <1>2 DEF BuildDependency
  <2>4. pkg \in Packages
    BY <2>2, <2>3, PackagesAssumption
  <2>5. Prefix(Top.type) \in Patterns
    BY <2>2, PrefixIsPattern
  <2>6. stack' \in Seq(Build) /\ outcome' \in {"none", "refused", "mismatch"}
    BY <2>3, <2>4, <2>5, EvaluateType
  <2> QED
    BY <1>2, <2>6 DEF BuildDependency, TypeOK
<1>3. CASE Install
  <2>1. stack # <<>>
    BY <1>3 DEF Install
  <2>2. Top.pkg \in Packages /\ Top.type \in Has
    BY <2>1, TopType
  <2>3. installed' \subseteq [pkg : Packages, type : Has]
    <3>1. installed \subseteq [pkg : Packages, type : Has]
      BY DEF TypeOK
    <3>2. [pkg |-> Top.pkg, type |-> Top.type] \in [pkg : Packages, type : Has]
      BY <2>2
    <3> QED
      BY <1>3, <3>1, <3>2 DEF Install
  <2>4. SubSeq(stack, 1, Len(stack) - 1) \in Seq(Build)
    BY <2>1 DEF TypeOK
  <2>5. stack' \in Seq(Build) /\ outcome' \in {"none", "refused", "mismatch"}
    <3>1. CASE Top.pattern \in {NoPattern, Prefix(Top.type)}
      BY <1>3, <2>4, <3>1 DEF Install, TypeOK
    <3>2. CASE Top.pattern \notin {NoPattern, Prefix(Top.type)}
      <4>1. stack' = <<>> /\ outcome' = "mismatch"
        BY <1>3, <3>2 DEF Install
      <4> QED
        BY <4>1
    <3> QED
      BY <3>1, <3>2
  <2> QED
    BY <1>3, <2>3, <2>5 DEF Install, TypeOK
<1>4. CASE UNCHANGED vars
  BY <1>4 DEF vars, TypeOK
<1> QED
  BY <1>1, <1>2, <1>3, <1>4 DEF Next

\* A package is only ever built for an Emacs that pkgsrc has.
THEOREM TypeCorrect == Spec => []TypeOK
<1>1. Init => TypeOK
  BY InitTypeOK
<1>2. TypeOK /\ [Next]_vars => TypeOK'
  BY NextTypeOK
<1> QED
  BY <1>1, <1>2, PTL DEF Spec

-----------------------------------------------------------------------------
(***************************************************************************)
(* One version for a chain of dependencies.                                *)
(***************************************************************************)

\* What make's evaluation leaves on the stack: nothing, or one more package, built for
\* an accepted version, and for the one asked for if there was one.
LEMMA EvaluateAdds ==
    ASSUME NEW pkg, NEW pattern, NEW u, recipe[pkg] \in Recipe, Evaluate(pkg, pattern, u)
    PROVE  \/ stack' = <<>>
           \/ \E t \in Ok(recipe[pkg]) :
                 /\ stack' = Append(stack, [pkg |-> pkg, pattern |-> pattern, type |-> t])
                 /\ Requested(u, pattern) # Unset => t = Requested(u, pattern)
<1> DEFINE c == Choice(u, pattern, recipe[pkg])
<1>1. CASE c.refused
  BY <1>1 DEF Evaluate
<1>2. CASE ~c.refused
  <2>1. c.type \in Ok(recipe[pkg])
    BY <1>2, ChoiceIsOk
  <2>2. Requested(u, pattern) # Unset => c.type = Requested(u, pattern)
    BY <1>2, ChoiceOfRequested
  <2>3. stack' = Append(stack, [pkg |-> pkg, pattern |-> pattern, type |-> c.type])
    BY <1>2 DEF Evaluate
  <2> HIDE DEF c
  <2> QED
    BY <2>1, <2>2, <2>3
<1> QED
  BY <1>1, <1>2

\* Install takes the last package off the stack, or all of them.
LEMMA InstallPops ==
    ASSUME TypeOK, Install
    PROVE  /\ DOMAIN stack' \subseteq DOMAIN stack
           /\ \A i \in DOMAIN stack' : stack'[i] = stack[i]
<1>1. stack \in Seq(Build) /\ stack # <<>>
  BY DEF TypeOK, Install
<1>2. stack' = SubSeq(stack, 1, Len(stack) - 1) \/ stack' = <<>>
  BY DEF Install
<1> QED
  BY <1>1, <1>2

LEMMA OneVersionStep == TypeOK /\ OneVersion /\ [Next]_vars => OneVersion'
<1> SUFFICES ASSUME TypeOK, OneVersion, [Next]_vars PROVE OneVersion'
  OBVIOUS
<1> USE DEF OneVersion
<1>1. ASSUME NEW pkg \in Packages, NEW u \in Users, Request(pkg, u) PROVE OneVersion'
  <2>1. recipe[pkg] \in Recipe /\ u \in User
    BY PackagesAssumption DEF TypeOK
  <2>2. Evaluate(pkg, NoPattern, u) /\ user' = u /\ stack = <<>>
    BY <1>1 DEF Request
  <2>3. CASE stack' = <<>>
    BY <2>3
  <2>4. ASSUME NEW t \in Ok(recipe[pkg]),
               stack' = Append(stack, [pkg |-> pkg, pattern |-> NoPattern, type |-> t]),
               Requested(u, NoPattern) # Unset => t = Requested(u, NoPattern)
        PROVE  OneVersion'
    <3>1. stack' = <<[pkg |-> pkg, pattern |-> NoPattern, type |-> t]>>
      BY <2>2, <2>4
    <3>2. u.reqd # Unset => t.version = u.reqd.version
      BY <2>1, <2>4, RequestKept
    <3> QED
      BY <2>2, <3>1, <3>2
  <2> QED
    BY <2>1, <2>2, <2>3, <2>4, EvaluateAdds
<1>2. CASE BuildDependency
  <2>1. stack # <<>> /\ user' = user /\ stack \in Seq(Build)
    BY <1>2 DEF BuildDependency, TypeOK
  <2>2. Top \in Build /\ Top.pkg \in Packages /\ Top.type \in Has
    BY <2>1, TopType
  <2>3. PICK pkg \in Needs[Top.pkg] : Evaluate(pkg, Prefix(Top.type), user)
    BY <1>2 DEF BuildDependency
  <2>4. recipe[pkg] \in Recipe /\ user \in User
    BY <2>2, <2>3, PackagesAssumption DEF TypeOK
  <2>5. CASE stack' = <<>>
    BY <2>5
  <2>6. ASSUME NEW t \in Ok(recipe[pkg]),
               stack' = Append(stack, [pkg |-> pkg, pattern |-> Prefix(Top.type), type |-> t]),
               Requested(user, Prefix(Top.type)) # Unset => t = Requested(user, Prefix(Top.type))
        PROVE  OneVersion'
    <3>1. user.reqd # Unset => t.version = user.reqd.version
      BY <2>4, <2>6, RequestKept
    <3>2. user.reqd = Unset /\ ~IsXEmacs(Top.type) => t.version = Top.type.version
      BY <2>2, <2>4, <2>6, PatternKept
    <3>3. user.reqd # Unset => Top.type.version = user.reqd.version
      <4>1. Len(stack) \in DOMAIN stack
        BY <2>1
      <4> QED
        BY <4>1 DEF Top
    <3>4. ~IsXEmacs(Top.type) => t.version = Top.type.version
      BY <3>1, <3>2, <3>3
    <3> DEFINE n == Len(stack)
    <3>5. /\ n \in Nat /\ DOMAIN stack = 1 .. n /\ DOMAIN stack' = 1 .. n + 1
          /\ \A i \in 1 .. n : stack'[i] = stack[i]
          /\ stack'[n + 1].type = t /\ stack[n] = Top
      BY <2>1, <2>6 DEF Top
    <3> HIDE DEF n
    <3>6. ASSUME NEW i \in DOMAIN stack'
          PROVE  /\ user'.reqd # Unset => stack'[i].type.version = user'.reqd.version
                 /\ i > 1 /\ ~IsXEmacs(stack'[i - 1].type)
                       => stack'[i].type.version = stack'[i - 1].type.version
      <4>1. CASE i \in 1 .. n
        <5>1. i > 1 => i - 1 \in 1 .. n
          BY <3>5, <4>1
        <5> QED
          BY <2>1, <3>5, <4>1, <5>1
      <4>2. CASE i = n + 1
        <5>1. i > 1 => i - 1 = n /\ n \in 1 .. n
          BY <3>5, <4>2
        <5> QED
          BY <2>1, <3>1, <3>4, <3>5, <4>2, <5>1
      <4> QED
        BY <3>5, <4>1, <4>2
    <3> QED
      BY <3>6
  <2> QED
    BY <2>3, <2>4, <2>5, <2>6, EvaluateAdds
<1>3. CASE Install
  <2>1. user' = user /\ DOMAIN stack' \subseteq DOMAIN stack
    BY <1>3, InstallPops DEF Install
  <2>2. \A i \in DOMAIN stack' : stack'[i] = stack[i]
    BY <1>3, InstallPops
  <2>3. \A i \in DOMAIN stack' : i > 1 => i - 1 \in DOMAIN stack'
    <3>1. stack' \in Seq(Build)
      BY NextTypeOK DEF TypeOK
    <3> QED
      BY <3>1
  <2> QED
    BY <2>1, <2>2, <2>3
<1>4. CASE UNCHANGED vars
  BY <1>4 DEF vars
<1> QED
  BY <1>1, <1>2, <1>3, <1>4 DEF Next

\* A chain of dependencies is built for one version, however long it is and whatever
\* the packages in it prefer.
THEOREM ChainHasOneVersion == Spec => []OneVersion
<1>1. Init => OneVersion
  BY DEF Init, OneVersion
<1> QED
  BY <1>1, OneVersionStep, TypeCorrect, PTL DEF Spec

-----------------------------------------------------------------------------
(***************************************************************************)
(* Lisp within reach.                                                      *)
(***************************************************************************)

\* What is being built is built for a version that its package accepts.
Settled == \A i \in DOMAIN stack : stack[i].type \in Ok(recipe[stack[i].pkg])

ReachInv == Settled /\ LispWithinReach

LEMMA SettledStep == TypeOK /\ Settled /\ [Next]_vars => Settled'
<1> SUFFICES ASSUME TypeOK, Settled, [Next]_vars PROVE Settled'
  OBVIOUS
<1> USE DEF Settled
<1>1. ASSUME NEW pkg \in Packages, NEW pattern, NEW u, Evaluate(pkg, pattern, u),
             recipe' = recipe
      PROVE  Settled'
  <2>1. recipe[pkg] \in Recipe /\ stack \in Seq(Build)
    BY PackagesAssumption DEF TypeOK
  <2>2. CASE stack' = <<>>
    BY <2>2
  <2>3. ASSUME NEW t \in Ok(recipe[pkg]),
               stack' = Append(stack, [pkg |-> pkg, pattern |-> pattern, type |-> t])
        PROVE  Settled'
    BY <1>1, <2>1, <2>3
  <2> QED
    BY <1>1, <2>1, <2>2, <2>3, EvaluateAdds
<1>2. ASSUME NEW pkg \in Packages, NEW u \in Users, Request(pkg, u) PROVE Settled'
  BY <1>1, <1>2 DEF Request
<1>3. CASE BuildDependency
  <2>1. Top.pkg \in Packages
    BY <1>3, TopType DEF BuildDependency
  <2>2. PICK pkg \in Needs[Top.pkg] : Evaluate(pkg, Prefix(Top.type), user)
    BY <1>3 DEF BuildDependency
  <2>3. pkg \in Packages
    BY <2>1, <2>2, PackagesAssumption
  <2> QED
    BY <1>1, <1>3, <2>2, <2>3 DEF BuildDependency
<1>4. CASE Install
  <2>1. DOMAIN stack' \subseteq DOMAIN stack /\ \A i \in DOMAIN stack' : stack'[i] = stack[i]
    BY <1>4, InstallPops
  <2> QED
    BY <1>4, <2>1 DEF Install
<1>5. CASE UNCHANGED vars
  BY <1>5 DEF vars
<1> QED
  BY <1>2, <1>3, <1>4, <1>5 DEF Next

LEMMA ReachStep == TypeOK /\ ReachInv /\ [Next]_vars => LispWithinReach'
<1> SUFFICES ASSUME TypeOK, ReachInv, [Next]_vars PROVE LispWithinReach'
  OBVIOUS
<1> USE DEF ReachInv
<1>1. ASSUME UNCHANGED <<recipe, installed>> PROVE LispWithinReach'
  BY <1>1 DEF LispWithinReach
<1>2. CASE Install
  <2>1. stack # <<>> /\ recipe' = recipe
    BY <1>2 DEF Install
  <2>2. Top.pkg \in Packages /\ Top.type \in Type
    BY <2>1, TopType
  <2>3. Top.type \in Ok(recipe[Top.pkg])
    <3>1. Len(stack) \in DOMAIN stack
      BY <2>1 DEF TypeOK
    <3> QED
      BY <3>1 DEF Settled, Top
  <2> DEFINE new == [pkg |-> Top.pkg, type |-> Top.type]
  <2>4. installed \subseteq installed' /\ installed' \subseteq installed \cup {new}
    BY <1>2 DEF Install
  <2>5. ASSUME NEW b \in installed PROVE
           /\ b.type \in Ok(recipe[b.pkg])
           /\ \A e \in Emacsen(recipe[b.pkg], b.type) : Tree(e) = Tree(b.type)
           /\ \A pkg \in Needs[b.pkg] :
                 \E c \in installed' : c.pkg = pkg /\ Tree(c.type) = Tree(b.type)
    BY <2>4, <2>5 DEF LispWithinReach
  <2>6. /\ new.type \in Ok(recipe[new.pkg])
        /\ \A e \in Emacsen(recipe[new.pkg], new.type) : Tree(e) = Tree(new.type)
    BY <2>2, <2>3, EmacsenReadTree
  <2>7. ASSUME NEW pkg \in Needs[Top.pkg]
        PROVE  \E c \in installed' : c.pkg = pkg /\ Tree(c.type) = Tree(new.type)
    <3>1. PICK c \in installed : c.pkg = pkg /\ Prefix(c.type) = Prefix(Top.type)
      BY <1>2, <2>7 DEF Install, Matches
    <3>2. c.type \in Type
      BY <3>1, HasTypes DEF TypeOK
    <3>3. Tree(c.type) = Tree(Top.type)
      BY <2>2, <3>1, <3>2, PrefixNamesTree
    <3> QED
      BY <2>4, <3>1, <3>3
  <2>8. new.pkg = Top.pkg
    OBVIOUS
  <2> HIDE DEF new
  <2>9. ASSUME NEW b \in installed' PROVE
           /\ b.type \in Ok(recipe[b.pkg])
           /\ \A e \in Emacsen(recipe[b.pkg], b.type) : Tree(e) = Tree(b.type)
           /\ \A pkg \in Needs[b.pkg] :
                 \E c \in installed' : c.pkg = pkg /\ Tree(c.type) = Tree(b.type)
    BY <2>4, <2>5, <2>6, <2>7, <2>8, <2>9
  <2> QED
    BY <2>1, <2>9 DEF LispWithinReach
<1>3. ASSUME NEW pkg \in Packages, NEW u \in Users, Request(pkg, u) PROVE LispWithinReach'
  BY <1>1, <1>3 DEF Request
<1>4. CASE BuildDependency
  BY <1>1, <1>4 DEF BuildDependency
<1>5. CASE UNCHANGED vars
  BY <1>1, <1>5 DEF vars
<1> QED
  BY <1>2, <1>3, <1>4, <1>5 DEF Next

\* Whatever is installed, under whatever settings, the Emacs that satisfies its
\* dependency finds it, and the Lisp it needs is beside it.
THEOREM InstalledWithinReach == Spec => []LispWithinReach
<1>1. Init => ReachInv
  BY DEF Init, ReachInv, Settled, LispWithinReach
<1>2. TypeOK /\ ReachInv /\ [Next]_vars => ReachInv'
  BY SettledStep, ReachStep DEF ReachInv
<1>3. ReachInv => LispWithinReach
  BY DEF ReachInv
<1> QED
  BY <1>1, <1>2, <1>3, TypeCorrect, PTL DEF Spec

-----------------------------------------------------------------------------
(***************************************************************************)
(* What a bulk build is told.                                              *)
(***************************************************************************)
LEMMA IndexOfRecipe ==
    ASSUME NEW r \in Recipe, NEW t \in Ok(r)
    PROVE  /\ \E e \in Bulk(r) : e.version = t.version
           /\ \A e \in Bulk(r) : t \in Bulk(r) /\ t.version = e.version => t = e
           /\ BulkDefault(r, t) \in Bulk(r)
<1>1. t \in Type /\ Plain(t).version = t.version /\ ~Plain(t).nox
  BY OkHas, HasTypes DEF Plain
<1>2. CASE t.nox /\ Plain(t) \in Ok(r)
  <2>1. Plain(t) \in Bulk(r) /\ t \notin Bulk(r)
    BY <1>1, <1>2 DEF Bulk
  <2> QED
    BY <1>1, <1>2, <2>1 DEF BulkDefault
<1>3. CASE ~(t.nox /\ Plain(t) \in Ok(r))
  <2>1. t \in Bulk(r)
    BY <1>3 DEF Bulk
  <2>2. BulkDefault(r, t) = t
    BY <1>3 DEF BulkDefault, Bulk
  <2>3. ASSUME NEW e \in Bulk(r), t.version = e.version PROVE t = e
    <3>1. e \in Type /\ e \in Ok(r)
      BY OkHas, HasTypes DEF Bulk
    <3>2. t.nox = e.nox
      <4>1. t.nox /\ ~e.nox => e = Plain(t)
        BY <1>1, <2>3, <3>1 DEF Plain, Type
      <4>2. e.nox /\ ~t.nox => t = Plain(e)
        BY <1>1, <2>3, <3>1 DEF Plain, Type
      <4>3. t.nox \in BOOLEAN /\ e.nox \in BOOLEAN
        BY <1>1, <3>1 DEF Type
      <4>4. ~(t.nox /\ ~e.nox)
        BY <1>3, <3>1, <4>1
      <4>5. ~(e.nox /\ ~t.nox)
        BY <2>1, <4>2 DEF Bulk
      <4> QED
        BY <4>3, <4>4, <4>5
    <3> QED
      BY <1>1, <2>3, <3>1, <3>2 DEF Type
  <2> QED
    BY <2>1, <2>2, <2>3
<1> QED
  BY <1>2, <1>3

\* A bulk build is told to make each package once for every Emacs it accepts, its
\* passes can be made, and its default is one of them.
THEOREM IndexIsSound == Spec => []BulkIndex
<1>1. TypeOK => BulkIndex
  <2> SUFFICES ASSUME TypeOK, NEW pkg \in Packages
               PROVE  LET r == recipe[pkg]
                          pass(t) == [type |-> user.type, default |-> user.default,
                                      reqd |-> t, overrides |-> TRUE]
                      IN  /\ \A t \in Bulk(r) : Choice(pass(t), NoPattern, r) = For(t)
                          /\ \A t \in Ok(r) : \E e \in Bulk(r) : e.version = t.version
                          /\ \A t, e \in Bulk(r) : t.version = e.version => t = e
                          /\ user.default \in Ok(r) => BulkDefault(r, user.default) \in Bulk(r)
    BY DEF BulkIndex
  <2> DEFINE r == recipe[pkg]
             pass(t) == [type |-> user.type, default |-> user.default,
                         reqd |-> t, overrides |-> TRUE]
  <2>1. r \in Recipe
    BY PackagesAssumption DEF TypeOK
  <2>2. Bulk(r) \subseteq Ok(r)
    BY DEF Bulk
  <2>3. ASSUME NEW t \in Bulk(r) PROVE Choice(pass(t), NoPattern, r) = For(t)
    <3>1. t \in Ok(r) /\ t # Unset
      BY <2>2, OkHas, HasTypes, NamesDiffer
    <3>2. Requested(pass(t), NoPattern) = t
      BY <3>1 DEF Requested
    <3> QED
      BY <3>1, <3>2 DEF Choice
  <2>4. \A t \in Ok(r) : \E e \in Bulk(r) : e.version = t.version
    BY <2>1, IndexOfRecipe
  <2>5. \A t, e \in Bulk(r) : t.version = e.version => t = e
    <3> HIDE DEF r
    <3> QED
      BY <2>1, <2>2, IndexOfRecipe
  <2>6. user.default \in Ok(r) => BulkDefault(r, user.default) \in Bulk(r)
    BY <2>1, IndexOfRecipe
  <2> QED
    BY <2>3, <2>4, <2>5, <2>6
<1> QED
  BY <1>1, TypeCorrect, PTL

-----------------------------------------------------------------------------
(***************************************************************************)
(* When a dependency comes out under another name than it was built for.   *)
(***************************************************************************)

\* What every dependency of a GNU Emacs package built for t is built for.
SettledFor(u, t) ==
    IF t.version = u.type.version /\ (u.reqd = Unset \/ ~u.overrides) THEN u.type
    ELSE IF u.reqd = Unset THEN Plain(t) ELSE u.reqd

\* A pass of a bulk build names the version on make's command line.
IsPass(u) == u.reqd # Unset /\ u.overrides

\* A dependency is built for the name its dependent looks for, and the first one
\* settles what all the others of the chain are built for.
Chained(i) ==
    /\ stack[i].pattern = IF i = 1 THEN NoPattern ELSE Prefix(stack[i - 1].type)
    /\ i > 1 /\ ~IsXEmacs(stack[1].type) => stack[i].type = SettledFor(user, stack[1].type)
    /\ IsPass(user) => stack[i].type = user.reqd

ChainInv ==
    /\ \A i \in DOMAIN stack : Chained(i)
    /\ stack # <<>> => outcome = "none"
    /\ IsPass(user) => outcome # "mismatch"

\* The type asked for depends on the dependent through its version only.
LEMMA RequestedSettles ==
    ASSUME NEW u \in User, NEW t \in Has, ~IsXEmacs(t),
           u.reqd # Unset => u.reqd.version = t.version
    PROVE  Requested(u, Prefix(t)) = SettledFor(u, t) /\ SettledFor(u, t) # Unset
<1>1. t \in Type /\ Plain(t) \in Has /\ Plain(t) \in Type /\ t.version \in Versions
  BY HasTypes, VersionsAssumption DEF Type
<1>2. Prefix(t).version = t.version /\ Plain(t).version = t.version
  BY DEF Prefix, Plain
<1>3. FromPattern(Prefix(t)) = Plain(t)
  BY <1>1, <1>2 DEF FromPattern, Plain
<1>4. Prefix(t) # NoPattern
  <2>1. NoPattern.version = ""
    BY DEF NoPattern
  <2> QED
    BY <1>1, <1>2, <2>1, VersionsAssumption
<1>5. u.type \in Type /\ Unset \notin Type
  BY NamesDiffer DEF User
<1>6. CASE u.reqd = Unset
  BY <1>1, <1>2, <1>3, <1>4, <1>5, <1>6 DEF Requested, SettledFor
<1>7. CASE u.reqd # Unset
  BY <1>2, <1>4, <1>5, <1>7 DEF Requested, SettledFor
<1> QED
  BY <1>6, <1>7

LEMMA SettledByVersion ==
    ASSUME NEW u, NEW t \in Type, NEW v \in Type, t.version = v.version
    PROVE  SettledFor(u, t) = SettledFor(u, v)
BY DEF SettledFor, Plain

\* A pass asks for its version whoever depends on the package.
LEMMA PassKept ==
    ASSUME NEW u, NEW pattern, IsPass(u)
    PROVE  Requested(u, pattern) = u.reqd /\ Requested(u, pattern) # Unset
BY DEF Requested, IsPass

LEMMA StackTypes ==
    ASSUME TypeOK
    PROVE  /\ Len(stack) \in Nat /\ DOMAIN stack = 1 .. Len(stack)
           /\ \A i \in DOMAIN stack : stack[i].type \in Type
           /\ stack # <<>> => Top = stack[Len(stack)] /\ Len(stack) \in DOMAIN stack
<1>1. stack \in Seq(Build)
  BY DEF TypeOK
<1>2. ASSUME NEW i \in DOMAIN stack PROVE stack[i].type \in Type
  <2>1. stack[i] \in Build
    BY <1>1, <1>2
  <2> QED
    BY <2>1, HasTypes DEF Build
<1> QED
  BY <1>1, <1>2 DEF Top

\* A chain that starts with a GNU Emacs is built for its version throughout.
LEMMA ChainOfOne ==
    ASSUME TypeOK, OneVersion, ChainInv, stack # <<>>, ~IsXEmacs(stack[1].type)
    PROVE  /\ \A i \in DOMAIN stack : stack[i].type.version = stack[1].type.version
           /\ user.reqd # Unset => stack[1].type.version = user.reqd.version
<1>1. stack \in Seq(Build) /\ 1 \in DOMAIN stack /\ DOMAIN stack = 1 .. Len(stack) /\ Len(stack) \in Nat
  BY DEF TypeOK
<1>2. user.reqd # Unset => stack[1].type.version = user.reqd.version
  BY <1>1 DEF OneVersion
<1>3. ASSUME NEW i \in DOMAIN stack PROVE stack[i].type.version = stack[1].type.version
  <2>1. CASE i = 1
    BY <2>1
  <2>2. CASE i > 1 /\ user.reqd # Unset
    BY <1>1, <1>2, <2>2 DEF OneVersion
  <2>3. CASE i > 1 /\ user.reqd = Unset
    <3>1. stack[i].type = SettledFor(user, stack[1].type) /\ 2 \in DOMAIN stack
      BY <1>1, <2>3 DEF ChainInv, Chained
    <3>2. stack[2].type = SettledFor(user, stack[1].type)
      BY <1>1, <3>1 DEF ChainInv, Chained
    <3>3. stack[2].type.version = stack[1].type.version
      <4>1. 2 > 1 /\ 2 - 1 = 1
        OBVIOUS
      <4>2. 2 > 1 /\ ~IsXEmacs(stack[2 - 1].type) => stack[2].type.version = stack[2 - 1].type.version
        BY <3>1 DEF OneVersion
      <4> QED
        BY <4>1, <4>2
    <3> QED
      BY <3>1, <3>2, <3>3
  <2> QED
    BY <1>1, <2>1, <2>2, <2>3
<1> QED
  BY <1>2, <1>3

LEMMA ChainStep == TypeOK /\ OneVersion /\ ChainInv /\ [Next]_vars => ChainInv'
<1> SUFFICES ASSUME TypeOK, OneVersion, ChainInv, [Next]_vars PROVE ChainInv'
  OBVIOUS
<1>0. ASSUME stack' = <<>>, outcome' = "refused" PROVE ChainInv'
  BY <1>0 DEF ChainInv
<1>1. ASSUME NEW pkg \in Packages, NEW u \in Users, Request(pkg, u) PROVE ChainInv'
  <2>1. recipe[pkg] \in Recipe /\ u \in User
    BY PackagesAssumption DEF TypeOK
  <2>2. Evaluate(pkg, NoPattern, u) /\ user' = u /\ stack = <<>>
    BY <1>1 DEF Request
  <2> DEFINE c == Choice(u, NoPattern, recipe[pkg])
  <2>3. CASE c.refused
    BY <1>0, <2>2, <2>3 DEF Evaluate
  <2>4. CASE ~c.refused
    <3>1. stack' = <<[pkg |-> pkg, pattern |-> NoPattern, type |-> c.type]>> /\ outcome' = "none"
      BY <2>2, <2>4 DEF Evaluate
    <3>2. IsPass(u) => c.type = u.reqd
      BY <2>4, PassKept, ChoiceOfRequested
    <3> HIDE DEF c
    <3>3. DOMAIN stack' = {1} /\ stack'[1].pattern = NoPattern /\ stack'[1].type = c.type
      BY <3>1
    <3> QED
      BY <2>2, <3>1, <3>2, <3>3 DEF ChainInv, Chained
  <2> QED
    BY <2>3, <2>4
<1>2. CASE BuildDependency
  <2>1. stack # <<>> /\ user' = user /\ stack \in Seq(Build) /\ user \in User
    BY <1>2, PackagesAssumption DEF BuildDependency, TypeOK
  <2>2. Top.pkg \in Packages /\ Top.type \in Has /\ Top.type \in Type
    BY <2>1, TopType
  <2>3. PICK pkg \in Needs[Top.pkg] : Evaluate(pkg, Prefix(Top.type), user)
    BY <1>2 DEF BuildDependency
  <2>4. recipe[pkg] \in Recipe
    BY <2>2, <2>3, PackagesAssumption DEF TypeOK
  <2> DEFINE c == Choice(user, Prefix(Top.type), recipe[pkg])
             n == Len(stack)
  <2>5. CASE c.refused
    BY <1>0, <2>3, <2>5 DEF Evaluate
  <2>6. CASE ~c.refused
    <3>1. /\ stack' = Append(stack, [pkg |-> pkg, pattern |-> Prefix(Top.type), type |-> c.type])
          /\ outcome' = "none"
      BY <2>3, <2>6 DEF Evaluate
    <3>2. IsPass(user) => c.type = user.reqd
      BY <2>6, PassKept, ChoiceOfRequested
    <3>3. ~IsXEmacs(stack[1].type) => c.type = SettledFor(user, stack[1].type)
      <4> SUFFICES ASSUME ~IsXEmacs(stack[1].type)
                   PROVE  c.type = SettledFor(user, stack[1].type)
        OBVIOUS
      <4>1. n \in DOMAIN stack /\ 1 \in DOMAIN stack /\ Top = stack[n]
        BY <2>1 DEF Top
      <4>2. /\ Top.type.version = stack[1].type.version
            /\ user.reqd # Unset => user.reqd.version = Top.type.version
        BY <2>1, <4>1, ChainOfOne
      <4>3. ~IsXEmacs(Top.type)
        BY <4>2 DEF IsXEmacs
      <4>4. Requested(user, Prefix(Top.type)) = SettledFor(user, Top.type)
            /\ SettledFor(user, Top.type) # Unset
        BY <2>1, <2>2, <4>2, <4>3, RequestedSettles
      <4>5. stack[1].type \in Type
        BY <4>1, StackTypes
      <4>6. SettledFor(user, Top.type) = SettledFor(user, stack[1].type)
        BY <2>2, <4>2, <4>5, SettledByVersion
      <4> QED
        BY <2>6, <4>4, <4>6, ChoiceOfRequested
    <3> HIDE DEF c
    <3>4. /\ n \in Nat /\ n # 0 /\ DOMAIN stack = 1 .. n /\ DOMAIN stack' = 1 .. n + 1
          /\ \A i \in 1 .. n : stack'[i] = stack[i]
          /\ stack'[n + 1].type = c.type /\ stack'[n + 1].pattern = Prefix(Top.type)
          /\ stack[n] = Top
      BY <2>1, <3>1 DEF Top
    <3> HIDE DEF n
    <3>5. ASSUME NEW i \in DOMAIN stack' PROVE Chained(i)'
      <4>0. stack'[1] = stack[1]
        BY <3>4
      <4>1. CASE i \in 1 .. n
        <5>1. i > 1 => i - 1 \in 1 .. n
          BY <3>4, <4>1
        <5>2. Chained(i)
          BY <3>4, <4>1 DEF ChainInv
        <5> QED
          BY <2>1, <3>4, <4>0, <4>1, <5>1, <5>2 DEF Chained
      <4>2. CASE i = n + 1
        <5>1. i > 1 /\ i # 1 /\ i - 1 = n /\ n \in 1 .. n
          BY <3>4, <4>2
        <5>2. stack'[i].pattern = Prefix(stack'[i - 1].type)
          BY <3>4, <4>2, <5>1
        <5> QED
          BY <2>1, <3>2, <3>3, <3>4, <4>0, <4>2, <5>1, <5>2 DEF Chained
      <4> QED
        BY <3>4, <4>1, <4>2
    <3> QED
      BY <3>1, <3>5 DEF ChainInv
  <2> QED
    BY <2>5, <2>6
<1>3. CASE Install
  <2>1. /\ stack # <<>> /\ user' = user
        /\ DOMAIN stack' \subseteq DOMAIN stack /\ \A i \in DOMAIN stack' : stack'[i] = stack[i]
    BY <1>3, InstallPops DEF Install
  <2>2. \A i \in DOMAIN stack' : /\ i > 1 => i - 1 \in DOMAIN stack'
                                 /\ 1 \in DOMAIN stack'
    <3>1. stack' \in Seq(Build)
      BY NextTypeOK DEF TypeOK
    <3> QED
      BY <3>1
  <2>3. ASSUME NEW i \in DOMAIN stack' PROVE Chained(i)'
    <3>1. Chained(i) /\ i \in Nat /\ i # 0
      BY <2>1, <2>3, StackTypes DEF ChainInv
    <3>2. stack'[i] = stack[i] /\ stack'[1] = stack[1] /\ (i # 1 => stack'[i - 1] = stack[i - 1])
      BY <2>1, <2>2, <2>3, <3>1
    <3> QED
      BY <2>1, <3>1, <3>2 DEF Chained
  <2>4. CASE Top.pattern \in {NoPattern, Prefix(Top.type)}
    BY <1>3, <2>1, <2>3, <2>4 DEF Install, ChainInv
  <2>5. CASE Top.pattern \notin {NoPattern, Prefix(Top.type)}
    <3> DEFINE n == Len(stack)
    <3>1. n \in DOMAIN stack /\ Top = stack[n] /\ (n # 1 => n - 1 \in DOMAIN stack)
      BY <2>1, StackTypes
    <3>2. Chained(n) /\ (n # 1 => Chained(n - 1))
      BY <3>1 DEF ChainInv
    <3>3. ~IsPass(user)
      BY <2>5, <3>1, <3>2 DEF Chained
    <3>4. stack' = <<>>
      BY <1>3, <2>5 DEF Install
    <3> QED
      BY <2>1, <3>3, <3>4 DEF ChainInv
  <2> QED
    BY <2>4, <2>5
<1>4. CASE UNCHANGED vars
  BY <1>4 DEF vars, ChainInv, Chained
<1> QED
  BY <1>1, <1>2, <1>3, <1>4 DEF Next

\* The first dependency settles the type that the rest of the chain is built for.
THEOREM FirstDependencySettles == Spec => []ChainInv
<1>1. Init => ChainInv
  BY DEF Init, ChainInv
<1> QED
  BY <1>1, ChainStep, TypeCorrect, ChainHasOneVersion, PTL DEF Spec

\* DependencyMatches holds of what make is told on its command line, which is how
\* every package of a bulk build is made.
PassesMatch == IsPass(user) => DependencyMatches

\* PassesMatch: no build that fixes its version on the command line of make fails for
\* a dependency that was made under another name.
THEOREM BulkBuildsMatch == Spec => []PassesMatch
<1>1. ChainInv => PassesMatch
  BY DEF ChainInv, PassesMatch, DependencyMatches
<1> QED
  BY <1>1, FirstDependencySettles, PTL

\* Elsewhere a GNU Emacs dependency misses its name in one way: it is one that the
\* package asked for needs itself, and is the other build of the right version.
OnlyTheBuildDiffers ==
    [][outcome' = "mismatch" /\ outcome # "mismatch" /\ ~IsXEmacs(stack[1].type)
         => Len(stack) = 2 /\ stack[2].type = Other(stack[1].type)]_vars

LEMMA SameVersionOther ==
    ASSUME NEW t \in Type, NEW v \in Type, t.version = v.version, t # v
    PROVE  v = Other(t)
<1>1. t.nox \in BOOLEAN /\ v.nox \in BOOLEAN /\ t.nox # v.nox
  BY DEF Type
<1>2. t.nox => ~v.nox
  BY <1>1
<1>3. ~t.nox => v.nox
  BY <1>1
<1>4. v = [version |-> t.version, nox |-> v.nox]
  BY DEF Type
<1>5. CASE t.nox
  <2>1. v.nox = FALSE
    BY <1>1, <1>2, <1>5
  <2> QED
    BY <1>4, <1>5, <2>1 DEF Other, Plain
<1>6. CASE ~t.nox
  <2>1. v.nox = TRUE
    BY <1>1, <1>3, <1>6
  <2> QED
    BY <1>4, <1>6, <2>1 DEF Other, Nox
<1> QED
  BY <1>5, <1>6

\* OnlyTheBuildDiffers: the version never differs, and dependencies of dependencies
\* match always.
THEOREM MismatchIsTheBuild == Spec => OnlyTheBuildDiffers
<1>1. TypeOK /\ OneVersion /\ ChainInv /\ [Next]_vars
        => [outcome' = "mismatch" /\ outcome # "mismatch" /\ ~IsXEmacs(stack[1].type)
              => Len(stack) = 2 /\ stack[2].type = Other(stack[1].type)]_vars
  <2> SUFFICES ASSUME TypeOK, OneVersion, ChainInv, Next,
                      outcome' = "mismatch", outcome # "mismatch", ~IsXEmacs(stack[1].type)
               PROVE  Len(stack) = 2 /\ stack[2].type = Other(stack[1].type)
    OBVIOUS
  <2>1. Install
    <3>1. \A pkg, pattern, u : Evaluate(pkg, pattern, u) => outcome' # "mismatch"
      BY DEF Evaluate
    <3> QED
      BY <3>1 DEF Next, Request, BuildDependency
  <2> DEFINE n == Len(stack)
  <2>2. stack # <<>> /\ Top.pattern \notin {NoPattern, Prefix(Top.type)}
    BY <2>1 DEF Install
  <2>3. /\ n \in Nat /\ n \in DOMAIN stack /\ DOMAIN stack = 1 .. n /\ Top = stack[n]
        /\ stack \in Seq(Build)
    BY <2>2 DEF Top, TypeOK
  <2>4. Chained(n) /\ n # 1
    BY <2>2, <2>3 DEF ChainInv, Chained
  <2>5. n - 1 \in DOMAIN stack /\ Chained(n - 1) /\ n > 1 /\ 1 \in DOMAIN stack
    BY <2>3, <2>4 DEF ChainInv
  <2>6. Prefix(stack[n - 1].type) # Prefix(stack[n].type)
    BY <2>2, <2>3, <2>4 DEF Chained
  <2>7. n = 2
    <3>1. n > 2 => stack[n - 1].type = stack[n].type
      BY <2>3, <2>4, <2>5 DEF Chained
    <3> QED
      BY <2>3, <2>5, <2>6, <3>1
  <2>8. stack[1].type \in Type /\ stack[2].type \in Type
    BY <2>3, <2>5, <2>7, StackTypes
  <2>9. stack[2].type.version = stack[1].type.version
    BY <2>2, <2>3, <2>7, ChainOfOne
  <2>10. stack[1].type # stack[2].type
    BY <2>6, <2>7
  <2> QED
    BY <2>7, <2>8, <2>9, <2>10, SameVersionOther
<1> QED
  BY <1>1, FirstDependencySettles, TypeCorrect, ChainHasOneVersion, PTL DEF Spec, OnlyTheBuildDiffers

=============================================================================
