---------------------------- MODULE MCReferences ----------------------------
(***************************************************************************)
(* Instances of References for TLC.                                        *)
(***************************************************************************)
EXTENDS References

CONSTANTS a, b, d, e

T(path) == [path |-> path, filter |-> "none", template |-> "none", dyn |-> "none", bad |-> FALSE]
Filtered(path) == [T(path) EXCEPT !.filter = "tag"]
Shaped(t) == [t EXCEPT !.template = "there"]
Dynamic(t, place) == [t EXCEPT !.dyn = place]

\* A token of each kind of fault, and good ones of every path.
OneToken == {T(a), T(b), T(d), Filtered(a), Filtered(d), Shaped(T(a)), Shaped(Filtered(d)),
             Dynamic(T(b), "path"), Dynamic(T(d), "path"), Dynamic(Filtered(d), "filter"),
             [T(d) EXCEPT !.template = "missing"], [T(b) EXCEPT !.bad = TRUE]}

\* At most two tokens in a file, those of a directive among them.
DocTokens == {<<>>, <<T(a)>>, <<T(b)>>, <<T(d)>>, <<Filtered(d)>>, <<Shaped(Filtered(d))>>,
              <<T(b), T(b)>>, <<Dynamic(T(b), "path")>>, <<Dynamic(T(d), "path")>>,
              <<Filtered(a), T(b)>>, <<Dynamic(Shaped(Filtered(a)), "template")>>}
Docs == [tokens : DocTokens, tag : BOOLEAN, directive : {FALSE}]
        \cup [tokens : {<<T(b)>>, <<Filtered(d)>>}, tag : {TRUE}, directive : {TRUE}]

Empty == [each |-> <<>>, body |-> <<>>, spread |-> <<>>, from |-> <<>>, plain |-> <<>>]
Stubs ==
    {[Empty EXCEPT !.plain = <<t>>] : t \in OneToken}
        \cup {[Empty EXCEPT !.plain = <<T(a), t>>] : t \in {T(a), T(b), Filtered(d)}}
        \cup {[Empty EXCEPT !.spread = <<t>>] :
                t \in {T(a), Filtered(a), T(d), Dynamic(T(b), "path")}}
        \cup {[Empty EXCEPT !.spread = <<T(b)>>, !.plain = <<Shaped(Filtered(d))>>]}
        \cup {[Empty EXCEPT !.from = <<t>>] : t \in {T(d), Filtered(a)}}
        \cup {[Empty EXCEPT !.each = <<t>>, !.body = <<T(b)>>] :
                t \in {Filtered(d), T(a), Shaped(Filtered(d))}}
        \cup {[Empty EXCEPT !.each = <<Filtered(d)>>, !.plain = <<T(b)>>,
                            !.body = <<Dynamic(T(b), "filter"), Shaped(Filtered(d))>>]}

\* A $spread of an object that holds a $spread.
SpreadDocs == {[tokens |-> <<T(b)>>, tag |-> TRUE, directive |-> TRUE],
               [tokens |-> <<>>, tag |-> TRUE, directive |-> FALSE],
               [tokens |-> <<>>, tag |-> FALSE, directive |-> FALSE]}
SpreadStubs == {[Empty EXCEPT !.spread = <<T(a)>>]}
\* A $template that looks up the objects of another directory, by their tag.
LookupDocs == {g \in SpreadDocs : ~g.directive}
LookupStubs == {[Empty EXCEPT !.each = <<T(d)>>, !.body = <<t>>] :
                  t \in {Filtered(e), Shaped(T(e)), Shaped(Filtered(e))}}

=============================================================================
