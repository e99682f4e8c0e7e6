--------------------------- MODULE CaseInheritance ---------------------------
(***************************************************************************)
(* internal/config/inherit.go: what a sparse case of a route, of either    *)
(* server, takes from the route's fallback.                                *)
(***************************************************************************)
CONSTANT None  \* an empty field of the configuration

Or(x, y) == IF x = None THEN y ELSE x

\* A plausible bug: the wrap of the fallback is not inherited.
InheritedShapeless(c, fb) ==
    IF c.json THEN c
    ELSE [c EXCEPT !.key = Or(@, fb.key), !.defaults = Or(@, fb.defaults),
                   !.merge = Or(@, fb.merge), !.file = Or(@, fb.file)]

\* ResolveCase, of a case c and a fallback fb of another name: the shape of the
\* response and, if the case has no inline JSON, the file and how to change it.
Inherited(c, fb) ==
    LET shaped == [c EXCEPT !.wrap = Or(@, fb.wrap), !.source = Or(@, fb.source)]
    IN  IF c.json THEN shaped
        ELSE [shaped EXCEPT !.key = Or(@, fb.key), !.defaults = Or(@, fb.defaults),
                            !.merge = Or(@, fb.merge), !.file = Or(@, fb.file)]
=============================================================================
