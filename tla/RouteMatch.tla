------------------------------ MODULE RouteMatch ------------------------------
(***************************************************************************)
(* How the REST handler reads a request: the patterns of                   *)
(* internal/proxy/matcher.go, the values conditions and file names are     *)
(* made of (conditions.go, dynamic_file.go) and the operators of           *)
(* internal/conditions.  A string is a sequence of symbols, "/" and "*"    *)
(* among them; the name of a segment is one symbol.                        *)
(***************************************************************************)
EXTENDS Naturals, Sequences, CaseInheritance

CONSTANTS
    Named,        \* segments written {name}: named parameters
    RegexMatches  \* the strings each regular expression of the config matches

Max0(S) == IF S = {} THEN 0 ELSE CHOOSE x \in S : \A y \in S : y <= x
Min0(S) == IF S = {} THEN 0 ELSE CHOOSE x \in S : \A y \in S : x <= y

HasSymbol(s, x) == \E i \in DOMAIN s : s[i] = x

\* strings.Index and strings.LastIndex: where part starts in s, 0 when nowhere.
Places(s, part) ==
    {i \in 1 .. Len(s) + 1 : i + Len(part) - 1 <= Len(s)
                             /\ SubSeq(s, i, i + Len(part) - 1) = part}
Index(s, part) == Min0(Places(s, part))
LastIndex(s, part) == Max0(Places(s, part))

HasPrefix(s, part) == 1 \in Places(s, part)

Split(s, sep) ==
    LET parts[i \in 0 .. Len(s)] ==
            IF i = 0 THEN << <<>> >>
            ELSE LET before == parts[i - 1]
                 IN  IF s[i] = sep THEN Append(before, <<>>)
                     ELSE [before EXCEPT ![Len(before)] = Append(@, s[i])]
    IN  parts[Len(s)]

From(s, i) == SubSeq(s, i, Len(s))

\* strings.Trim(s, "/")
TrimSlashes(s) ==
    LET kept == {i \in DOMAIN s : s[i] # "/"}
    IN  IF kept = {} THEN <<>> ELSE SubSeq(s, Min0(kept), Max0(kept))

Segments(s) == Split(TrimSlashes(s), "/")

-----------------------------------------------------------------------------
(* matchWildcard: each part between stars is looked for once, at its first *)
(* place after the one before it.                                          *)

WildcardMatch(pattern, path, anchored) ==
    LET parts == Split(pattern, "*")
        after[i \in 0 .. Len(parts)] ==
            IF i = 0 THEN [ok |-> TRUE, rest |-> path]
            ELSE LET before == after[i - 1]
                     at == Index(before.rest, parts[i])
                 IN  IF ~before.ok \/ parts[i] = <<>> THEN before
                     ELSE [ok |-> at # 0 /\ (i = 1 /\ anchored => at = 1),
                           rest |-> From(before.rest, at + Len(parts[i]))]
        last == after[Len(parts)]
    IN  last.ok /\ (pattern[Len(pattern)] = "*" \/ last.rest = <<>>)

\* Forgetting that what precedes the first star must be a prefix.
MatchFloating(pattern, path) == WildcardMatch(pattern, path, FALSE)

MatchWildcard(pattern, path) == WildcardMatch(pattern, path, TRUE)

\* extractWildcardValue: what the first star of the pattern stands for.
WildcardValue(pattern, path) ==
    LET star == Index(pattern, <<"*">>)
        prefix == SubSeq(pattern, 1, star - 1)
        suffix == From(pattern, star + 1)
        after == From(path, Len(prefix) + 1)
        slash == Index(after, <<"/">>)
    IN  IF star = 0 \/ ~HasPrefix(path, prefix) THEN None
        ELSE IF suffix = <<>>
             THEN IF slash = 0 THEN after ELSE SubSeq(after, 1, slash - 1)
        ELSE IF LastIndex(after, suffix) = 0 THEN None
        ELSE SubSeq(after, 1, LastIndex(after, suffix) - 1)

-----------------------------------------------------------------------------
(* matchSegments: a named parameter is one segment, a star one or more,    *)
(* the fewest that let the rest match.                                     *)

NoParams == [x \in {} |-> <<>>]
Unmatched == [ok |-> FALSE, params |-> NoParams]

\* A segment of the pattern at the j-th of the path, by what the rest of the
\* pattern makes of each place; an empty one is skipped.
MatchSegment(segment, path, rest, j) ==
    LET ends == {k \in j + 1 .. Len(path) + 1 : rest[k].ok}
        next == rest[j + 1].params
    IN  IF segment = <<>> THEN rest[j]
        ELSE IF j > Len(path) THEN Unmatched
        ELSE IF segment[1] \in Named
             THEN [ok |-> rest[j + 1].ok,
                   params |-> [x \in DOMAIN next \cup {segment[1]} |->
                                  IF x \in DOMAIN next THEN next[x] ELSE path[j]]]
        ELSE IF segment = <<"*">> THEN IF ends = {} THEN Unmatched ELSE rest[Min0(ends)]
        ELSE IF path[j] = segment THEN rest[j + 1] ELSE Unmatched

MatchSegments(pattern, path) ==
    LET bind[i \in 1 .. Len(pattern) + 1] ==
            [j \in 1 .. Len(path) + 1 |->
                IF i > Len(pattern) THEN [ok |-> j > Len(path), params |-> NoParams]
                ELSE MatchSegment(pattern[i], path, bind[i + 1], j)]
    IN  bind[1][1]

\* matchWithNamedParams
Match(pattern, path) ==
    IF pattern[1] = "~" THEN [ok |-> path \in RegexMatches[pattern[2]], params |-> NoParams]
    ELSE IF \E x \in Named : HasSymbol(pattern, x)
         THEN MatchSegments(Segments(pattern), Segments(path))
    ELSE [ok |-> IF HasSymbol(pattern, "*") THEN MatchWildcard(pattern, path)
                 ELSE pattern = path,
          params |-> NoParams]

\* What a pattern promises: cut the path into pieces, one for each symbol of
\* the pattern; a literal is its own piece, a parameter one name, a star
\* anything.  Slashes around a pattern with parameters do not count.
Covers(pattern, path) ==
    LET named == \E x \in Named : HasSymbol(pattern, x)
        p == IF named THEN TrimSlashes(pattern) ELSE pattern
        s == IF named THEN TrimSlashes(path) ELSE path
    IN  IF pattern[1] = "~" THEN path \in RegexMatches[pattern[2]]
        ELSE \E cut \in [0 .. Len(p) -> 0 .. Len(s)] :
                /\ cut[0] = 0 /\ cut[Len(p)] = Len(s)
                /\ \A i \in DOMAIN p :
                      LET piece == SubSeq(s, cut[i - 1] + 1, cut[i])
                      IN  /\ cut[i - 1] <= cut[i]
                          /\ p[i] # "*" => Len(piece) = 1
                          /\ p[i] \notin Named \cup {"*"} => piece = <<p[i]>>
                          /\ p[i] \in Named => piece # <<"/">>

-----------------------------------------------------------------------------
(* Values of a request: [path, query, header, fields] with the last three  *)
(* functions from names to strings.                                        *)

Lookup(f, name) == IF name \in DOMAIN f /\ f[name] # <<>> THEN f[name] ELSE None

\* extractValue; a body field counts even when it is the empty string.
ExtractValue(source, field, r, pattern, params) ==
    CASE source = "path" ->
            IF Lookup(params, field) # None THEN Lookup(params, field)
            ELSE LET v == WildcardValue(pattern, r.path) IN IF v = <<>> THEN None ELSE v
      [] source = "query" -> Lookup(r.query, field)
      [] source = "header" -> Lookup(r.header, field)
      [] source = "body" -> IF field \in DOMAIN r.fields THEN r.fields[field] ELSE None
      [] OTHER -> None

\* conditions.EvalOp, on a value or None.
EvalOp(op, value, compareTo) ==
    CASE op = "exists" -> value # None
      [] op = "not_exists" -> value = None
      [] op = "eq" -> value = compareTo
      [] op = "neq" -> value # None /\ value # compareTo
      [] op = "contains" -> value # None /\ Index(value, compareTo) # 0
      [] op = "regex" -> value # None /\ value \in RegexMatches[compareTo]
      [] OTHER -> FALSE

EvalCondition(cond, r, pattern, params) ==
    EvalOp(cond.op, ExtractValue(cond.source, cond.field, r, pattern, params), cond.value)

\* sanitizeFilename and sanitizePathSegment: a slash in a value becomes "_",
\* and in a path's segment so does "..".
KeepSlashes(value) == value

SanitizeFilename(value) == [i \in DOMAIN value |-> IF value[i] = "/" THEN "_" ELSE value[i]]
SanitizePathSegment(value) ==
    IF value \in {<<".">>, <<"..">>} THEN <<"_">> ELSE SanitizeFilename(value)

\* resolveDynamicFile: a file is [dir, name] or, with a placeholder for its
\* name, [dir, source, field]; a placeholder without a value stays.
ResolveDynamicFile(file, r, pattern, params) ==
    IF "name" \in DOMAIN file THEN file
    ELSE LET v == ExtractValue(file.source, file.field, r, pattern, params)
         IN  [dir |-> file.dir,
              name |-> IF v = None THEN <<"{", file.field, "}">> ELSE SanitizePathSegment(v)]
=============================================================================
