----------------------------- MODULE References -----------------------------
(***************************************************************************)
(* Cross-endpoint references (internal/proxy/refs.go): a stub may name     *)
(* other files and directories in {{ref:...}} tokens, alone or inside      *)
(* $each/$template, $spread and $as directives; what they name may hold    *)
(* tokens again.  The recursion of resolveRefs is a stack of frames here,  *)
(* one for each token being resolved.                                      *)
(*                                                                         *)
(* A file holds a JSON object, and is what it does to the resolution: the  *)
(* tokens in it, in order, whether a filter matches it, and whether it     *)
(* holds a $spread or a $as.  A response is the set of files whose content *)
(* is in it.  Files do not change while they are resolved.  A ?template=   *)
(* that is there renders an object with the whole item in it, a $template  *)
(* puts the whole item ({{.}}) beside plain tokens, whose placeholders are *)
(* the request's, and a token has its filter before its template.          *)
(***************************************************************************)
EXTENDS SequencesExt

CONSTANTS
    File,   \* stub files
    Dir,    \* stub directories; a path of a token is a file or a directory
    BracedFile, BracedDir, \* a file and a directory with braces in their names,
            \* as a {placeholder} that nobody fills spells them; they are missing
    Doc,    \* file contents, as [tokens, tag, directive]
    Stub,   \* stubs requested, as [each, body, spread, from, plain]: sequences
            \* of tokens; body: the $template of each of `each'
    Missing \* the content of a file that is missing or is no JSON

VARIABLES
    docs,     \* docs[f]: the content of the file
    dirs,     \* dirs[d]: its files, in order of their names; none if missing
    stub,     \* the stub requested
    entry,    \* "serve" (resolveRefsWithContext) or "defaults" (resolveFileRefs)
    ctx,      \* whether the request has the placeholders: "value", "missing" or
              \* "reserved" (a value with ?, & or =)
    work,     \* the stub's tokens still to resolve, as [token, want]
    stack,    \* frames [token, files, todo, inc]: the files loaded, the tokens
              \* in them still to resolve as <<index of the file, token>>, and
              \* what came in through them as <<index, file>>
    visited,  \* the map of the paths being resolved
    served,   \* the files in the response so far
    outcome   \* "running", "ok" or "error"

resolveVars == <<docs, dirs, stub, entry, ctx, work, stack, visited, served, outcome>>

RefPath == File \cup Dir

\* filter: "tag" matches the files with a tag, "never" no file; dyn: where a
\* {placeholder} stands; bad: the token does not parse, or leaves the stub root.
Token == [path : RefPath, filter : {"none", "tag", "never"},
          template : {"none", "there", "missing"},
          dyn : {"none", "path", "filter", "template"}, bad : BOOLEAN]

Tokens == Seq(Token)

ASSUME ReferencesAssumption ==
    /\ IsFiniteSet(File) /\ IsFiniteSet(Dir)
    /\ BracedFile \in File /\ BracedDir \in Dir
    /\ Doc \subseteq [tokens : Tokens, tag : BOOLEAN, directive : BOOLEAN]
    /\ Stub \subseteq [each : Tokens, body : Tokens, spread : Tokens, from : Tokens, plain : Tokens]

Wants == {"each", "body", "spread", "from", "value"}

ResolveTypeOK ==
    /\ docs \in [File -> Doc \cup {Missing}]
    /\ \A d \in Dir : dirs[d] \in Seq(File)
    /\ stub \in Stub
    /\ entry \in {"serve", "defaults"}
    /\ ctx \in {"value", "missing", "reserved"}
    /\ work \in Seq([token : Token, want : Wants])
    /\ \A i \in DOMAIN stack :
          /\ stack[i].token \in Token
          /\ stack[i].files \in Seq(File)
          /\ stack[i].todo \in Seq((DOMAIN stack[i].files) \X Token)
          /\ stack[i].inc \subseteq (DOMAIN stack[i].files) \X File
    /\ visited \subseteq RefPath
    /\ served \subseteq File
    /\ outcome \in {"running", "ok", "error"}

-----------------------------------------------------------------------------
(***************************************************************************)
(* What the code reads of the tokens that are written.                     *)
(***************************************************************************)

\* Without a request context placeholders are left as they are: in a path they
\* are part of a name, in a filter they match nothing.
Literal(t) ==
    [t EXCEPT !.dyn = "none",
              !.path = IF t.dyn # "path" THEN @ ELSE IF @ \in Dir THEN BracedDir ELSE BracedFile,
              !.filter = IF t.dyn = "filter" THEN "never" ELSE @,
              !.template = IF t.dyn = "template" THEN "missing" ELSE @]

\* json.Marshal writes the & of a token as \u0026, which separates nothing: the
\* template is then part of the value to filter for.
Escaped(t) ==
    IF t.filter # "none" /\ t.template # "none"
    THEN [t EXCEPT !.filter = "never", !.template = "none"] ELSE t

Each(Op(_), tokens) == [i \in DOMAIN tokens |-> Op(tokens[i])]

\* The tokens of a file that is loaded: it has been marshalled again.
InFile(t) == Escaped(Literal(t))
TokensOf(f) == Each(InFile, docs[f].tokens)

\* The tokens of the stub.  An $each and its $template are marshalled before they
\* are resolved, the rest of the stub after the first directive.  Without a
\* context, resolveFileRefs takes all of them as they are written.
Directives(s) == s.each \o s.spread \o s.from
Own ==
    IF entry = "defaults" THEN [stub EXCEPT !.plain = Each(Literal, @)]
    ELSE [stub EXCEPT !.each = Each(Escaped, @), !.body = Each(Escaped, @),
                      !.plain = IF Directives(stub) = <<>> THEN @ ELSE Each(Escaped, @)]

\* The directives that resolveEachAndTemplateRefs, resolveSpreadRefs and
\* resolveAsRefs find in the parsed stub, and the tokens left for resolveRefs,
\* from the last to the first.
Tagged(tokens, want) == [i \in DOMAIN tokens |-> [token |-> tokens[i], want |-> want]]
EachTokens(s) == Tagged(s.each, "each")
SpreadTokens(s) == Tagged(s.spread, "spread")
AsTokens(s) == Tagged(s.from, "from")
PlainTokens(tokens) == Tagged(Reverse(tokens), "value")

\* The steps of resolveRefsWithContext, in order.
Steps(s) == EachTokens(s) \o SpreadTokens(s) \o AsTokens(s) \o PlainTokens(s.plain)

\* resolveFileRefs leaves the tokens of directories as they are.
FileSteps(s) ==
    FlattenSeq([i \in DOMAIN PlainTokens(s.plain) |->
        LET item == PlainTokens(s.plain)[i]
        IN  IF item.token.path \in File THEN <<item>> ELSE <<>>])

ResolveInit ==
    /\ docs \in {g \in [File -> Doc \cup {Missing}] : g[BracedFile] = Missing}
    /\ dirs \in {g \in [Dir -> {<<>>} \cup {SetToSeq(S) : S \in SUBSET (File \ {BracedFile})}] :
                     g[BracedDir] = <<>>}
    /\ stub \in Stub
    /\ entry \in {"serve", "defaults"}
    /\ ctx \in IF entry = "serve" THEN {"value", "missing", "reserved"} ELSE {"missing"}
    /\ work = IF entry = "serve" THEN Steps(Own) ELSE FileSteps(Own)
    /\ stack = <<>>
    /\ visited = {}
    /\ served = {}
    /\ outcome = "running"

-----------------------------------------------------------------------------
(***************************************************************************)
(* One token.                                                              *)
(***************************************************************************)

\* resolvePlaceholders, to which only tokens of the stub itself come with any.
Substituted(t) == t.dyn # "none" => ctx = "value"

\* ... and parseRefToken, and the checks of the path.
Names(t) == ~t.bad /\ Substituted(t)

\* persist.ReadDir: the files of a directory by name; a missing one is empty.
Loaded(path) == IF path \in Dir THEN dirs[path] ELSE <<path>>

\* loadRefData
Loads(path) == \A f \in ToSet(Loaded(path)) : docs[f] # Missing

\* A plausible bug: the index of the token in place of that of its file.
TokensByPlace(files) ==
    FlattenSeq([i \in DOMAIN files |->
        [j \in DOMAIN TokensOf(files[i]) |-> <<j, TokensOf(files[i])[j]>>]])

\* The tokens of the files loaded, with the index of their file.
TokensIn(files) ==
    FlattenSeq([i \in DOMAIN files |->
        [j \in DOMAIN TokensOf(files[i]) |-> <<i, TokensOf(files[i])[j]>>]])

\* A plausible bug: the visited map is not asked.
NeverCircular(t) == FALSE

Circular(t) == t.path \in visited

\* The next token: of the frame on top, from the last to the first, or of the
\* stub.
Fresh == stack = <<>> /\ work # <<>>
Nested == stack # <<>> /\ Last(stack).todo # <<>>
NextToken == IF Nested THEN Last(Last(stack).todo)[2] ELSE Head(work).token

\* A plausible bug: the token that failed is tried again.
TryAgain == UNCHANGED <<work, stack, visited, served, outcome>>

\* Every error goes all the way up, and each level takes its path off the map.
GiveUp ==
    /\ outcome' = "error"
    /\ stack' = <<>>
    /\ visited' = {}
    /\ UNCHANGED <<work, served>>

Enter ==
    /\ outcome = "running"
    /\ Fresh \/ Nested
    /\ IF ~Names(NextToken) \/ Circular(NextToken) \/ ~Loads(NextToken.path)
       THEN GiveUp
       ELSE LET files == Loaded(NextToken.path)
            IN  /\ visited' = visited \cup {NextToken.path}
                /\ stack' = Append(stack, [token |-> NextToken, files |-> files,
                                           todo |-> TokensIn(files), inc |-> {}])
                /\ UNCHANGED <<work, served, outcome>>
    /\ UNCHANGED <<docs, dirs, stub, entry, ctx>>

\* filterData and matchesFilters, after what is nested: the files that stay.
Matches(t, f) == t.filter = "none" \/ (t.filter = "tag" /\ docs[f].tag)
Kept(frame) == {i \in DOMAIN frame.files : Matches(frame.token, frame.files[i])}

\* A plausible bug: what came in through a file that is filtered out stays.
ResultOfAll(frame) ==
    {frame.files[i] : i \in Kept(frame)} \cup {p[2] : p \in frame.inc}

\* The files whose content is in the result of the token.
Result(frame) ==
    {frame.files[i] : i \in Kept(frame)}
        \cup {p[2] : p \in {p \in frame.inc : p[1] \in Kept(frame)}}

\* The result is an array: a directory, or an object that the filter refused.
IsArray(frame) == frame.token.path \in Dir \/ Kept(frame) = {}

\* applyTemplate succeeds, on each item of an array.
Templates(frame) == frame.token.template # "missing"

\* No $spread or $as in what came in.  The tokens of such a directive have been
\* replaced like any other, and a pass that comes to it later finds no string.
Settled(frame) == \A f \in Result(frame) : ~docs[f].directive

\* processSpreadRef wants an object, and it is searched for directives again
\* (also by resolveAsRefs).
Spreads(frame) == ~IsArray(frame) /\ Settled(frame)

\* convertArrayToObject wants an array; what it makes is not searched again.
Converts(frame) == IsArray(frame)

\* processEachTemplateRef wants an array; each item becomes part of a template,
\* and that is searched for directives.
Iterates(frame) == IsArray(frame) /\ Settled(frame)

\* The result is what the directive asks for, and stands the later passes: what
\* a $template brings in comes to the stub's own search for directives.  (The
\* code finds out in the pass that searches; it fails all the same.)
Suits(frame, want) ==
    /\ want = "spread" => Spreads(frame)
    /\ want = "from" => Converts(frame)
    /\ want = "each" => Iterates(frame)
    /\ want = "body" => Settled(frame)

\* A plausible bug: a path is never taken off the map.
StaysVisited(path) == visited

Unvisit(path) == visited \ {path}

\* The plain tokens of a template, from the last to the first.
TemplateSteps == Tagged(Reverse(Own.body), "body")

\* applyTemplateToItem: the template is resolved for each item.
PerItem(n) == FlattenSeq([i \in 1..n |-> TemplateSteps])

\* The token at the top is resolved: filter, template, and back to the caller.
Leave ==
    /\ outcome = "running"
    /\ stack # <<>> /\ Last(stack).todo = <<>>
    /\ LET frame == Last(stack)
           depth == Len(stack)
       IN  IF ~Templates(frame) \/ (depth = 1 /\ ~Suits(frame, Head(work).want))
           THEN GiveUp
           ELSE /\ visited' = Unvisit(frame.token.path)
                /\ IF depth > 1
                   THEN LET caller == stack[depth - 1]
                            item == Last(caller.todo)[1]
                        IN  /\ stack' = Append(SubSeq(stack, 1, depth - 2),
                                 [caller EXCEPT !.todo = Front(@),
                                                !.inc = @ \cup ({item} \X Result(frame))])
                            /\ UNCHANGED <<work, served>>
                   ELSE /\ stack' = <<>>
                        /\ served' = served \cup Result(frame)
                        /\ work' = (IF Head(work).want = "each"
                                    THEN PerItem(Cardinality(Kept(frame))) ELSE <<>>)
                                       \o Tail(work)
                /\ UNCHANGED outcome
    /\ UNCHANGED <<docs, dirs, stub, entry, ctx>>

Finish ==
    /\ outcome = "running" /\ work = <<>> /\ stack = <<>>
    /\ outcome' = "ok"
    /\ UNCHANGED <<docs, dirs, stub, entry, ctx, work, stack, visited, served>>

ResolveNext == Enter \/ Leave \/ Finish

ResolveSpec == ResolveInit /\ [][ResolveNext]_resolveVars /\ WF_resolveVars(ResolveNext)

-----------------------------------------------------------------------------
(***************************************************************************)
(* What a response should be, by the graph of the tokens.                  *)
(***************************************************************************)
Refers(files) == UNION {ToSet(TokensOf(f)) : f \in {f \in files : docs[f] # Missing}}
KeptFiles(t) == {f \in ToSet(Loaded(t.path)) : docs[f] # Missing /\ Matches(t, f)}

\* The tokens that are in what t names, and those that stay in it.
InFilesOf(t) == Refers(ToSet(Loaded(t.path)))
InKeptFilesOf(t) == Refers(KeptFiles(t))

\* The tokens that a walk from S reaches, in as many steps as there are paths:
\* a longer one comes to a path again.
Walk(S, Edges(_)) ==
    LET W[n \in 0..Cardinality(RefPath)] ==
            IF n = 0 THEN S ELSE W[n - 1] \cup UNION {Edges(t) : t \in W[n - 1]}
    IN  W[Cardinality(RefPath)]

Below(t) == Walk(InFilesOf(t), InFilesOf)

\* The files whose content comes in through S.
Content(S) == UNION {KeptFiles(t) : t \in Walk(S, InKeptFilesOf)}

\* The tokens of a template, if it has an item to work on, and of the stub.
BodyTokens == IF \E t \in ToSet(Own.each) : KeptFiles(t) # {} THEN ToSet(Own.body) ELSE {}
OwnTokens ==
    IF entry = "defaults" THEN {t \in ToSet(Own.plain) : t.path \in File}
    ELSE ToSet(Own.each) \cup ToSet(Own.spread) \cup ToSet(Own.from) \cup ToSet(Own.plain)
            \cup BodyTokens

Broken(t) == ~Names(t) \/ ~Loads(t.path) \/ t.template = "missing"
Array(t) == t.path \in Dir \/ KeptFiles(t) = {}
Directive(S) == \E f \in Content(S) : docs[f].directive

Cause ==
    \/ \E t \in OwnTokens :
          \/ \E u \in {t} \cup Below(t) : Broken(u)
          \/ \E u \in {t} \cup Below(t) : \E v \in Below(u) : u.path = v.path
    \/ entry = "serve" /\
          (\/ \E t \in ToSet(Own.each) \cup ToSet(Own.from) : ~Array(t)
           \/ \E t \in ToSet(Own.spread) : Array(t)
           \/ Directive(ToSet(Own.each) \cup ToSet(Own.spread) \cup BodyTokens))

-----------------------------------------------------------------------------
(***************************************************************************)
(* Properties.                                                             *)
(***************************************************************************)

\* The recursion never comes to a path it is inside of, by whatever tokens, so
\* that it is no deeper than there are paths.
StackIsSimple ==
    \A i, j \in DOMAIN stack : stack[i].token.path = stack[j].token.path => i = j

\* A response fails if and only if the tokens it depends on have a fault: one
\* that is broken, a cycle, a directive with the wrong kind of value, or another
\* directive in what a directive brings in, however deep.  A file that two tokens
\* name is no cycle, and a placeholder that nobody fills is no fault by itself.
FailsForCause ==
    outcome # "running" => (outcome = "error" <=> Cause)

\* A response holds exactly the files that its tokens name, directly or through
\* files that are themselves in it.
ServesReachable ==
    outcome = "ok" => served = Content(OwnTokens)

\* What the documentation promises of the tokens: the & between a filter and a
\* template separates them wherever they stand (docs/features/array-processing.md
\* shows it in a $template).
Documented(S) ==
    Walk(S, LAMBDA t : UNION {ToSet(docs[f].tokens) : f \in KeptFiles(t)})
ServesDocumented ==
    entry = "serve" /\ outcome = "ok" =>
        \A t \in Documented(ToSet(Directives(stub)) \cup ToSet(stub.plain) \cup
                             (IF BodyTokens = {} THEN {} ELSE ToSet(stub.body))) :
            KeptFiles(t) \subseteq served

\* What a comment of processSpreadFields promises: a $spread within what is spread
\* is resolved, and is no reason to fail.
NestedSpreadResolved ==
    outcome = "error" => ~(OwnTokens = ToSet(Own.spread) /\ \A t \in OwnTokens :
        \A u \in {t} \cup Below(t) :
            ~Broken(u) /\ ~Array(u) /\ \A v \in Below(u) : u.path # v.path)

\* The resolution comes to an end, whatever the files refer to.
Terminates == <>(outcome # "running")

=============================================================================
