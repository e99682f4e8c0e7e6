--------------------------- MODULE MCGrpcPersist ---------------------------
(***************************************************************************)
(* Instances of GrpcPersist for TLC.                                       *)
(***************************************************************************)
EXTENDS GrpcPersist

F(name, type) == [name |-> name, type |-> type, many |-> FALSE]
Ent == F("ent", "Entity")
Twin == F("twin", "Entity")
Op == F("op", "Opts")
Parent == F("parent", Scalar)

\* The entity has a message of its own.  Requests: flat, with the entity, with
\* two of its type, with another message as well.  Responses: the entity
\* itself, a wrapper, wrappers with one and two siblings, a list, nothing.
Messages ==
    [Entity |-> {F("id", Scalar), Op},
     Opts |-> {F("size", Scalar)},
     Flat |-> {Parent, F("id", Scalar)},
     Update |-> {Parent, Ent},
     Double |-> {Ent, Twin},
     Mixed |-> {Parent, Ent, Op},
     Wrapper |-> {Ent},
     Lro |-> {Parent, Ent, Op},
     Twins |-> {Ent, Twin},
     List |-> {[name |-> "all", type |-> "Entity", many |-> TRUE]},
     Empty |-> {}]

Methods == [in : {"Flat", "Update", "Double", "Mixed"},
            out : {"Entity", "Wrapper", "Lro", "Twins", "List", "Empty"}]

Blank == [persist |-> TRUE, merge |-> None, file |-> None, path |-> {}, wrap |-> None,
          source |-> None, key |-> None, defaults |-> None, json |-> FALSE]

Append == [Blank EXCEPT !.merge = "append", !.file = "dir"]
OneFile == [Blank EXCEPT !.file = "file"]

\* The fallback makes or reads the resource; the other case is sparse, or
\* updates, deletes or shows it.
Fallbacks ==
    {[c EXCEPT !.wrap = w, !.source = s] :
        c \in {Append, [Append EXCEPT !.key = "id", !.path = {"parent"}],
               [OneFile EXCEPT !.merge = "update"], [OneFile EXCEPT !.persist = FALSE]},
        w \in {None, "ent"}, s \in {None, "ent"}}
Others ==
    {Blank, [Blank EXCEPT !.defaults = {"id"}], [Blank EXCEPT !.json = TRUE],
     [OneFile EXCEPT !.merge = "update"], [OneFile EXCEPT !.merge = "update", !.path = {"parent"}],
     [OneFile EXCEPT !.merge = "update", !.wrap = "parent"],
     [OneFile EXCEPT !.merge = "delete"], [OneFile EXCEPT !.persist = FALSE],
     [Blank EXCEPT !.file = "dir", !.persist = FALSE]}
Seeds == {None, {"id"}}
Routes == [fallback : Fallbacks, other : Others, transitions : {TRUE}]
            \cup [fallback : Fallbacks, other : {[OneFile EXCEPT !.merge = "update"]},
                  transitions : {FALSE}]

=============================================================================
