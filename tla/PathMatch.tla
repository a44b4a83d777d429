----------------------------- MODULE PathMatch -----------------------------
(***************************************************************************)
(* The globs by which filters say which paths they apply to: compiling a   *)
(* pattern, and the walk that matches a path without splitting it.  Texts  *)
(* are sequences of characters; a letter stands for all that are neither   *)
(* "/" nor "*".                                                            *)
(* Source: pathmatch/pathmatch.go.                                         *)
(***************************************************************************)
EXTENDS Naturals, SequencesExt

CONSTANTS
  Letters,
  GlobLength, PathLength  \* bounds: the longest pattern, the longest path

VARIABLES
  glob,     \* the pattern as it is declared
  pattern,  \* Pattern: what it is compiled to
  path,     \* the path that is matched
  matched   \* the answer of Match

pathVars == <<glob, pattern, path, matched>>

Texts(chars, n) == UNION {[1..k -> chars] : k \in 0..n}
Globs == Texts(Letters \cup {"/", "*"}, GlobLength)
PathTexts == Texts(Letters \cup {"/"}, PathLength)

NoPattern == [kind |-> "none", literal |-> <<>>, segs |-> <<>>, trailingAll |-> FALSE]

Rest(s, n) == SubSeq(s, n + 1, Len(s))

-----------------------------------------------------------------------------
(* Segments.                                                               *)

\* Where the next segment begins and ends; leading slashes are skipped.
SegmentStart(s) == SelectInSeq(s, LAMBDA c : c # "/")
SegmentEnd(s) ==
  LET slash == SelectInSeq(Rest(s, SegmentStart(s)), LAMBDA c : c = "/")
  IN IF slash = 0 THEN Len(s) ELSE SegmentStart(s) + slash - 1

nextSegment(s) ==
  IF SegmentStart(s) = 0 THEN [seg |-> <<>>, rest |-> <<>>]
  ELSE [seg |-> SubSeq(s, SegmentStart(s), SegmentEnd(s)), rest |-> Rest(s, SegmentEnd(s))]

\* The slashes at both ends go, those between segments part them: two in a row
\* leave an empty segment.
splitSegments(s) ==
  LET from == SelectInSeq(s, LAMBDA c : c # "/")
      upto == SelectLastInSeq(s, LAMBDA c : c # "/")
      cuts == SetToSortSeq({i \in from..upto : s[i] = "/"}, <)
      marks == <<from - 1>> \o cuts \o <<upto + 1>>
  IN IF from = 0 THEN <<>>
     ELSE [i \in 1..(Len(marks) - 1) |-> SubSeq(s, marks[i] + 1, marks[i + 1] - 1)]

-----------------------------------------------------------------------------
(* Compile.                                                                *)

Below == <<"/", "*", "*">>
Body(g) == IF IsSuffix(Below, g) THEN SubSeq(g, 1, Len(g) - 3) ELSE g

Compiles(g) ==
  \/ g \in {<<"*", "*">>, Below}
  \/ /\ IsPrefix(<<"/">>, g)
     /\ ~ \E i \in 1..(Len(Body(g)) - 1) : Body(g)[i] = "*" /\ Body(g)[i + 1] = "*"
     /\ \A s \in ToSet(splitSegments(Body(g))) : s = <<"*">> \/ "*" \notin ToSet(s)

\* Mutant: the segments of a pattern with "*" are not kept.
CompiledLiteral(g) ==
  CASE g \in {<<"*", "*">>, Below} -> [NoPattern EXCEPT !.kind = "all"]
    [] OTHER -> [NoPattern EXCEPT !.kind = "segments", !.literal = Body(g)]

Compiled(g) ==
  LET segs == splitSegments(Body(g))
      all == IsSuffix(Below, g)
  IN CASE g \in {<<"*", "*">>, Below} -> [NoPattern EXCEPT !.kind = "all"]
       [] <<"*">> \in ToSet(segs) ->
            [NoPattern EXCEPT !.kind = "segments", !.segs = segs, !.trailingAll = all]
       [] OTHER ->
            [NoPattern EXCEPT !.kind = IF all THEN "prefix" ELSE "exact", !.literal = Body(g)]

-----------------------------------------------------------------------------
(* Match.                                                                  *)

\* Mutant: below a prefix is whatever continues it.
MatchPrefixLoose(literal, p) == IsPrefix(literal, p)

MatchPrefix(literal, p) ==
  /\ IsPrefix(literal, p)
  /\ LET rest == Rest(p, Len(literal)) IN rest = <<>> \/ rest[1] = "/"

matchSegments(segs, trailingAll, p) ==
  LET walk[i \in 0..Len(segs)] ==  \* what is left of p, and whether it matched so far
        IF i = 0 THEN [ok |-> TRUE, rest |-> p]
        ELSE LET got == nextSegment(walk[i - 1].rest)
             IN [ok |-> /\ walk[i - 1].ok /\ got.seg # <<>>
                        /\ segs[i] = <<"*">> \/ segs[i] = got.seg,
                 rest |-> got.rest]
  IN /\ walk[Len(segs)].ok
     /\ trailingAll \/ walk[Len(segs)].rest \in {<<>>, <<"/">>}

Match(c, p) ==
  CASE c.kind = "all" -> TRUE
    [] c.kind = "exact" -> p = c.literal
    [] c.kind = "prefix" -> MatchPrefix(c.literal, p)
    [] c.kind = "segments" -> matchSegments(c.segs, c.trailingAll, p)

-----------------------------------------------------------------------------
PathInit == glob \in Globs /\ pattern = NoPattern /\ path = <<>> /\ matched = FALSE

\* A pattern with an error is refused, and its manifest with it.
CompileGlob ==
  /\ pattern = NoPattern /\ Compiles(glob)
  /\ pattern' = Compiled(glob)
  /\ UNCHANGED <<glob, path, matched>>

\* Match keeps no state: a behaviour matches one path.
MatchPath(p) ==
  /\ pattern # NoPattern /\ path = <<>>
  /\ path' = p
  /\ matched' = Match(pattern, p)
  /\ UNCHANGED <<glob, pattern>>

PathNext == CompileGlob \/ \E p \in PathTexts : MatchPath(p)

PathSpec == PathInit /\ [][PathNext]_pathVars

-----------------------------------------------------------------------------
(* Properties.                                                             *)

\* A text without empty segments: "/" before each of them and nowhere else.
Clean(s) ==
  /\ s # <<>> /\ s[1] = "/" /\ s[Len(s)] # "/"
  /\ \A i \in 1..(Len(s) - 1) : ~(s[i] = "/" /\ s[i + 1] = "/")

\* What a pattern says (pathmatch.go:28-35), by segments: each "*" is one
\* segment, and "**" at the end is any number of them, also none.
Denotes(g, p) ==
  LET want == splitSegments(g)
      got == splitSegments(p)
      open == want # <<>> /\ Last(want) = <<"*", "*">>
      fixed == IF open THEN Len(want) - 1 ELSE Len(want)
  IN /\ IF open THEN Len(got) >= fixed ELSE Len(got) = fixed
     /\ \A i \in 1..fixed : want[i] \in {<<"*">>, got[i]}

\* The variables have their types.
PathTypeOK ==
  /\ ToSet(glob) \subseteq Letters \cup {"/", "*"} /\ Len(glob) <= GlobLength
  /\ ToSet(path) \subseteq Letters \cup {"/"} /\ Len(path) <= PathLength /\ matched \in BOOLEAN
  /\ pattern.kind \in {"none", "all", "exact", "prefix", "segments"}
  /\ (pattern.kind = "segments") = (pattern.segs # <<>>)

\* The walk gives the answer that comparing segment by segment gives, whatever
\* kind the pattern is compiled to, for patterns and paths without empty
\* segments: "/api/**" covers "/api" and not "/apifoo" (:114-115), and "*" is
\* one segment, no less and no more.
MatchIsDenoted ==
  pattern # NoPattern /\ Clean(path) /\ (Clean(glob) \/ glob = <<"*", "*">>)
    => matched = Denotes(glob, path)
=============================================================================
