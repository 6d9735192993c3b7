---------------------------- MODULE FilterRules -----------------------------
(***************************************************************************)
(* process_filter::Rules (src/src/ProcessFilter.cpp): the include and      *)
(* exclude lists of the configuration, and what they say of an image.  A   *)
(* text is a sequence of characters; "/" stands for the forward and "|"    *)
(* for the backward slash, "A" for any capital letter.                     *)
(***************************************************************************)
EXTENDS Integers, Sequences, SequencesExt

CONSTANTS
    RuleLists,          \* pairs of an include and an exclude list
    ImagePaths,         \* what the system may answer
    kMaximumRules,      \* 128
    kMaximumRuleLength  \* 1024

ASSUME RulesConstants == {kMaximumRules, kMaximumRuleLength} \subseteq Nat \ {0}

VARIABLES
    includes, excludes, \* the lists given
    asked               \* the last image asked about, and the answer

ruleVars == <<includes, excludes, asked>>

trim(s) ==
    LET text == {i \in DOMAIN s : s[i] # " "}
    IN  IF text = {} THEN <<>>
        ELSE SubSeq(s, CHOOSE i \in text : \A j \in text : i <= j,
                       CHOOSE i \in text : \A j \in text : i >= j)

fold(ch) == CASE ch = "A" -> "a" [] ch = "/" -> "|" [] OTHER -> ch

normalize(s) ==
    LET t == trim(s)
    IN  IF Len(t) > kMaximumRuleLength THEN <<>> ELSE [i \in DOMAIN t |-> fold(t[i])]

\* normalizeRules(): the patterns kept, and how many that are not blank were not.
normalizeRules(values) ==
    LET keep(acc, v) ==
          LET n == normalize(v)
          IN  IF n = <<>>
              THEN IF trim(v) = <<>> THEN acc ELSE [acc EXCEPT !.rejected = @ + 1]
              ELSE IF Contains(acc.kept, n) THEN acc
              ELSE IF Len(acc.kept) = kMaximumRules THEN [acc EXCEPT !.rejected = @ + 1]
              ELSE [acc EXCEPT !.kept = Append(@, n)]
    IN  FoldLeft(keep, [kept |-> <<>>, rejected |-> 0], values)

\* The loop of wildcardMatch(), from its indices; star is 0 before any "*".
RECURSIVE matchFrom(_, _, _, _, _, _)
matchFrom(pattern, text, p, t, star, retry) ==
    IF t > Len(text)
    THEN \A i \in p..Len(pattern) : pattern[i] = "*"
    ELSE IF p <= Len(pattern) /\ pattern[p] \in {"?", text[t]}
    THEN matchFrom(pattern, text, p + 1, t + 1, star, retry)
    ELSE IF p <= Len(pattern) /\ pattern[p] = "*"
    THEN matchFrom(pattern, text, p + 1, t, p, t)
    ELSE IF star # 0
    THEN matchFrom(pattern, text, star + 1, retry + 1, star, retry + 1)
    ELSE FALSE

wildcardMatch(pattern, text) == matchFrom(pattern, text, 1, 1, 0, 1)

basename(path) ==
    LET cuts == {i \in DOMAIN path : path[i] = "|"}
    IN  IF cuts = {} THEN path
        ELSE SubSeq(path, 1 + CHOOSE i \in cuts : \A j \in cuts : i >= j, Len(path))

matchesAny(patterns, path) ==
    \E i \in DOMAIN patterns :
        wildcardMatch(patterns[i], IF Contains(patterns[i], "|") THEN path ELSE basename(path))

\* An include list of which nothing survived counts as no list.
allowsImageOpen(raw) ==
    LET inc == normalizeRules(includes)
        path == normalize(raw)
    IN  /\ path # <<>>
        /\ ~matchesAny(normalizeRules(excludes).kept, path)
        /\ inc.kept = <<>> \/ matchesAny(inc.kept, path)

allowsImage(raw) ==
    LET inc == normalizeRules(includes)
        path == normalize(raw)
        includeListInvalid == inc.kept = <<>> /\ inc.rejected # 0
    IN  /\ ~includeListInvalid
        /\ path # <<>>
        /\ ~matchesAny(normalizeRules(excludes).kept, path)
        /\ inc.kept = <<>> \/ matchesAny(inc.kept, path)

Unasked == [image |-> <<>>, allowed |-> FALSE]

RulesInit ==
    /\ \E lists \in RuleLists : includes = lists[1] /\ excludes = lists[2]
    /\ asked = Unasked

Ask(raw) ==
    /\ asked = Unasked
    /\ asked' = [image |-> raw, allowed |-> allowsImage(raw)]
    /\ UNCHANGED <<includes, excludes>>

AskAgain == asked # Unasked /\ asked' = Unasked /\ UNCHANGED <<includes, excludes>>

RulesNext == (\E raw \in ImagePaths : Ask(raw)) \/ AskAgain

RulesSpec == RulesInit /\ [][RulesNext]_ruleVars

---------------------------------------------------------------------------
(* What the rules are meant to say                                         *)

\* A pattern matches a text if the text can be cut so that "*" takes any
\* piece, "?" one character and any other character itself.
Matches(pattern, text) ==
    \E cut \in [0..Len(pattern) -> 0..Len(text)] :
        /\ cut[0] = 0 /\ cut[Len(pattern)] = Len(text)
        /\ \A i \in DOMAIN pattern :
             IF pattern[i] = "*" THEN cut[i] >= cut[i - 1]
             ELSE /\ cut[i] = cut[i - 1] + 1
                  /\ pattern[i] \in {"?", text[cut[i]]}

\* The patterns that count: the first kMaximumRules different ones that are
\* neither blank nor too long.
Counts(values) ==
    LET valid(i) == normalize(values[i]) # <<>>
        new(i) == valid(i) /\ \A j \in 1..(i - 1) : normalize(values[j]) # normalize(values[i])
    IN  {normalize(values[i]) : i \in {i \in DOMAIN values : new(i) /\
            Len(SelectSeq([j \in 1..i |-> new(j)], LAMBDA b : b)) <= kMaximumRules}}

Names(pattern, path) ==
    Matches(pattern, IF Contains(pattern, "|") THEN path ELSE basename(path))

\* An image is touched exactly if no exclude pattern names it and either
\* nothing but blanks was given as include list or an include pattern names
\* it: a list whose every pattern is rejected lets nothing through, a path
\* too long to match is left alone, and the backtracking matcher agrees with
\* what "*" and "?" mean (Rules::allowsImage, normalizeRules, wildcardMatch).
RulesDecide ==
    LET path == normalize(asked.image)
    IN  asked.allowed <=>
          /\ path # <<>>
          /\ \A p \in Counts(excludes) : ~Names(p, path)
          /\ \/ \A i \in DOMAIN includes : trim(includes[i]) = <<>>
             \/ \E p \in Counts(includes) : Names(p, path)

=============================================================================
