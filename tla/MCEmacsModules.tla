--------------------------- MODULE MCEmacsModules ---------------------------
(***************************************************************************)
(* Three Emacsen, one of them without a nox build, and an XEmacs; a chain  *)
(* of three packages; recipes that take everything, one version, only one  *)
(* of its builds, the older version first, XEmacs alone, and nothing that  *)
(* is left.                                                                *)
(***************************************************************************)
EXTENDS EmacsModules

T(version, nox) == [version |-> version, nox |-> nox]

MCVersions == {"emacs31", "emacs30", "emacs20", "emacs19", "xemacs214"}
MCAll == <<T("emacs31", FALSE), T("emacs31", TRUE), T("emacs30", FALSE), T("emacs30", TRUE),
           T("emacs20", FALSE), T("xemacs214", FALSE), T("xemacs214", TRUE)>>

MCPackages == {"foo", "bar", "baz"}
MCNeeds == [foo |-> {"bar"}, bar |-> {"baz"}, baz |-> {}]

R(accepted, incompatible) == [accepted |-> accepted, incompatible |-> incompatible]
MCRecipes == {
    R(MCAll, {}),
    R(<<T("emacs30", FALSE), T("emacs31", TRUE), T("emacs31", FALSE)>>, {}),
    R(<<T("emacs30", FALSE)>>, {T("emacs30", FALSE)}),
    R(<<T("emacs30", FALSE), T("emacs20", FALSE)>>, {T("emacs30", TRUE)}),
    R(<<T("xemacs214", FALSE)>>, {}),
    R(<<T("emacs19", FALSE)>>, {})}

\* Without XEmacs, whose names carry no version.
GnuRecipes == {r \in MCRecipes : \A i \in DOMAIN r.accepted : ~IsXEmacs(r.accepted[i])}
              \cup {R(<<T("emacs31", FALSE), T("emacs30", FALSE)>>, {})}

Wanted == {T("emacs31", TRUE), T("emacs30", FALSE), T("emacs30", TRUE), T("xemacs214", TRUE)}
MCUsers ==
    {[type |-> t, default |-> d, reqd |-> Unset, overrides |-> FALSE] :
        t \in Wanted, d \in {T("emacs20", FALSE), T("emacs31", TRUE), T("xemacs214", TRUE)}}
    \cup {[type |-> t, default |-> t, reqd |-> q, overrides |-> o] :
        t \in {T("emacs30", TRUE), T("emacs31", TRUE)},
        q \in {Unset, T("emacs30", FALSE), T("emacs19", FALSE)}, o \in BOOLEAN}
=============================================================================
