--------------------------------- MODULE Tiers ---------------------------------
(***************************************************************************)
(* The tiers of the Sentinel's cascade (services/sentinel): the conditions *)
(* of Sigma rules (tier0.py), the heuristic gate (heuristics.py), features *)
(* and scoring of T1 (tier1.py), and how ingest_logs strings them together *)
(* for one visitor. What Sentinel.tla takes as the input of its actions is *)
(* computed here.                                                          *)
(*                                                                         *)
(* First a rule is written, token by token, and loaded; then events arrive *)
(* in the visitor's window. Of the time of an event only the distance to   *)
(* the one before is kept, in ms: it can be negative, timestamps are the   *)
(* sender's. Of a path, the marker lists and OWASP families it contains.   *)
(* Scores are in thousandths.                                              *)
(***************************************************************************)
EXTENDS Integers, Sequences, FiniteSets, Functions, FiniteSetsExt, TLC

CONSTANTS
  Detection,        \* the selections of the rule: of each name, its field tests
  Stray,            \* a name in a condition, in lower case, that is no selection's
  Within,           \* pairs of a value and a pattern it contains
  Kinds,            \* the events: [path, method, status, ua]
  Gaps,             \* ms since the event before
  Marks,            \* of each path: the marker lists it contains a member of
  Owasp,            \* of each path: the OWASP families
  Sensitive,        \* paths of the families the breadth of reconnaissance is made of
  AI_UA,            \* agents of AI products
  Booster,          \* answers of the XGBoost model, {} without one
  Live,             \* rules that go live: [condition, level]
  RPS_THRESHOLD, MAXLEN,
  MaxExpired,               \* bound: events pruned at once
  MaxTokens, MaxGarbled     \* bounds: tokens of a condition, and of one that is none

VARIABLES
  condition,   \* of the rule, in tokens
  level,       \* its level, or "" until it is loaded
  window,      \* the visitor's: [kind, gap], the gap of the first is 0
  verdict      \* on the last event

tiersVars == <<condition, level, window, verdict>>

-----------------------------------------------------------------------------
(* Types *)

Names  == DOMAIN Detection
Tokens == {"and", "or", "not", "(", ")", Stray} \cup Names

\* AttackVector, in its order.
AttackVector ==
  <<"recon", "brute_force", "traversal", "injection", "ai-recon", "unknown">>

\* No token is empty: a condition is split at its spaces.
ASSUME NameAssumption == "" \notin Tokens

ASSUME TiersAssumption ==
  /\ Gaps \subseteq Int
  /\ Booster \subseteq [confidence: 0..1000, vector: Range(AttackVector)]
  /\ RPS_THRESHOLD \in Nat \ {0} /\ MAXLEN \in Nat \ {0}
  /\ {MaxExpired, MaxTokens, MaxGarbled} \subseteq Nat

Verdicts ==
  [tier: {"none", "T0", "behavioral", "small", "gate", "benign", "T1", "T2"},
   confidence: 0..1000, vector: Range(AttackVector)]

NoVerdict == [tier |-> "none", confidence |-> 0, vector |-> "unknown"]

TiersTypeOK ==
  /\ condition \in Seq(Tokens)
  /\ level \in {"", "low", "critical"}
  /\ window \in Seq([kind: Kinds, gap: Int])
  /\ Len(window) <= MAXLEN
  /\ verdict \in Verdicts

TiersInit == condition = <<>> /\ level = "" /\ window = <<>> /\ verdict = NoVerdict

-----------------------------------------------------------------------------
(* T0: the conditions of Sigma rules *)

\* What parsing from a token yields: a value, and the token it stopped at, or an
\* exception.
Parsed(v, i) == [ok |-> TRUE, val |-> v, next |-> i]
Failed       == [ok |-> FALSE, val |-> FALSE, next |-> 0]

\* Mutant: the right side is not parsed when the left one decides.
Both_Short(l, r, op) ==
  IF l.val = (op = "or") THEN l
  ELSE IF ~r.ok THEN Failed ELSE Parsed(r.val, r.next)

\* Both sides of an operator have been parsed, the second up to where it ends.
Both(l, r, op) ==
  IF ~r.ok THEN Failed
  ELSE Parsed(IF op = "or" THEN l.val \/ r.val ELSE l.val /\ r.val, r.next)

\* What parse_expr, parse_term and parse_factor yield from a token of tokens on, truth
\* being that of the selections.
Parse(tokens, truth) ==
  LET peek(i) == IF i <= Len(tokens) THEN tokens[i] ELSE ""
      follows(op, l) == l.ok /\ peek(l.next) = op
      parse[i \in 1..(Len(tokens) + 1)] ==
        LET factor ==
              CASE peek(i) = "not" ->
                     LET f == parse[i + 1].factor
                     IN  IF f.ok THEN Parsed(~f.val, f.next) ELSE Failed
                [] peek(i) = "(" ->
                     LET e == parse[i + 1].expr
                     IN  IF follows(")", e) THEN Parsed(e.val, e.next + 1) ELSE Failed
                [] peek(i) \in {"and", "or", ")", ""} -> Parsed(FALSE, i)
                [] OTHER -> Parsed(peek(i) \in DOMAIN truth /\ truth[peek(i)], i + 1)
            term ==
              IF follows("and", factor)
                THEN Both(factor, parse[factor.next + 1].term, "and") ELSE factor
            expr ==
              IF follows("or", term) THEN Both(term, parse[term.next + 1].expr, "or") ELSE term
        IN  [expr |-> expr, term |-> term, factor |-> factor]
  IN  parse[1].expr

\* The condition holds; what follows the expression is not looked at.
Holds(tokens, truth) == Parse(tokens, truth).val

\* Every test of a selection: some pattern is contained in the field, or is the field.
_eval_selection(name, e) ==
  \A test \in Detection[name] :
    \E p \in test.patterns :
      IF test.modifier = "contains" THEN <<e[test.field], p>> \in Within ELSE e[test.field] = p

match(e) == Holds(condition, [n \in Names |-> _eval_selection(n, e)])

-----------------------------------------------------------------------------
(* The heuristic gate *)

Sum(f, n) == LET sum[i \in 0..n] == IF i = 0 THEN 0 ELSE sum[i - 1] + f[i] IN sum[n]

\* From the first to the last timestamp.
Dt(w) == Sum([i \in DOMAIN w |-> w[i].gap], Len(w))

CountOf(w, P(_)) == Cardinality({i \in DOMAIN w : P(w[i].kind)})

\* compute_rps(w) >= bound, for a bound above 0.
RpsReaches(w, bound) ==
  /\ Len(w) >= 2
  /\ IF Dt(w) < 1 THEN Len(w) >= bound ELSE 1000 * Len(w) >= bound * Dt(w)

Statuses(w) == {i \in DOMAIN w : w[i].kind.status # 0}

Errors(w) == CountOf(w, LAMBDA k : k.status \in 400..499)

looks_suspicious(w) ==
  \/ RpsReaches(w, RPS_THRESHOLD)
  \/ \E i \in DOMAIN w :
       \/ Marks[w[i].kind.path] \cap {"traversal", "injection", "recon"} # {}
       \/ w[i].kind.ua \in AI_UA
  \/ Cardinality(Statuses(w)) >= 5 /\ 2 * Errors(w) > Cardinality(Statuses(w))

Votes(w, v) ==
  CountOf(w, LAMBDA k :
    CASE v = "ai-recon"    -> k.ua \in AI_UA
      [] v = "brute_force" -> v \in Marks[k.path] /\ k.method = "POST"
      [] OTHER             -> v \in Marks[k.path])

\* The first of those with the most votes, but for "unknown".
dominant_vector(w) ==
  LET best == CHOOSE i \in 1..5 :
                /\ \A j \in 1..5 : Votes(w, AttackVector[j]) <= Votes(w, AttackVector[i])
                /\ \A j \in 1..(i - 1) : Votes(w, AttackVector[j]) < Votes(w, AttackVector[i])
  IN  IF Votes(w, AttackVector[best]) > 0 THEN AttackVector[best] ELSE "recon"

-----------------------------------------------------------------------------
(* T1: features *)

\* Fractions are pairs, to be compared by cross-multiplication.
Above(frac, hundredths) == 100 * frac[1] > hundredths * frac[2]

Product(f) == FoldFunction(LAMBDA x, y : x * y, 1, f)

\* The entropy of the agents, log n less the mean of log c over the n events, c those
\* of the same agent, is below 0.5 bit: 0 when they are all the same; fewer than ten
\* that are not have more.
_ua_low(w) ==
  LET n == Len(w)
      c == [i \in DOMAIN w |-> CountOf(w, LAMBDA k : k.ua = w[i].kind.ua)]
  IN  \/ \A i \in DOMAIN w : c[i] = n
      \/ /\ n >= 10
         /\ Product([i \in DOMAIN w |-> n * n]) < Product([i \in DOMAIN w |-> 2 * c[i] * c[i]])

_owasp_coverage(w) == Cardinality(UNION {Owasp[w[i].kind.path] : i \in DOMAIN w})

\* The percentile of the pauses is left out: only the booster reads it.
extract_features(w) ==
  LET n  == Len(w)
      ns == IF Statuses(w) = {} THEN 1 ELSE Cardinality(Statuses(w))
  IN  [n_events   |-> n,
       rate_rps   |-> <<1000 * n, IF Dt(w) < 1 THEN 1 ELSE Dt(w)>>,
       uniques    |-> <<Cardinality({w[i].kind.path : i \in DOMAIN w}), n>>,
       ua_low     |-> _ua_low(w),
       ratio_4xx  |-> <<Errors(w), ns>>,
       inter_mean |-> IF n = 1 THEN <<0, 1>> ELSE <<Dt(w), n - 1>>,
       methods    |-> Cardinality({w[i].kind.method : i \in DOMAIN w}),
       sigma_hits |-> LET hit == {k \in Kinds : match(k)} IN CountOf(w, LAMBDA k : k \in hit),
       owasp      |-> _owasp_coverage(w)]

-----------------------------------------------------------------------------
(* T1: scores *)

\* Mutant: too fast is no agent's pace.
Timing_Paced(f) == IF f.inter_mean[1] >= 1000 * f.inter_mean[2]
                      /\ f.inter_mean[1] < 1700 * f.inter_mean[2] THEN 35 ELSE 0

Timing(f) ==
  LET short(bound) == 0 < f.inter_mean[1] /\ f.inter_mean[1] < bound * f.inter_mean[2]
  IN  IF short(1700) THEN 35 ELSE IF short(3000) THEN 10 ELSE 0

\* What each signal adds, in hundredths, in the order of the additions.
Parts(f) ==
  LET steps(frac, high, hi, low, lo) ==
        IF Above(frac, high) THEN hi ELSE IF Above(frac, low) THEN lo ELSE 0
      rate == IF Above(f.rate_rps, 5000) THEN 35 ELSE steps(f.rate_rps, 2000, 25, 500, 10)
      errs == steps(f.ratio_4xx, 60, 20, 30, 10)
      hits == IF f.sigma_hits >= 5 THEN 25 ELSE IF f.sigma_hits > 0 THEN 10 ELSE 0
      many == IF f.n_events < 5 THEN 0 ELSE steps(f.uniques, 80, 15, 60, 5)
      same == IF f.ua_low /\ f.n_events >= 3 THEN 10 ELSE 0
      wide == IF f.owasp >= 3 THEN 15 ELSE IF f.owasp = 2 THEN 8 ELSE 0
  IN  <<rate, Timing(f), errs, hits, many, same, wide>>

\* Sums of binary fractions that come out one bit below 0.40 or 0.85.
RoundedDown ==
  {<<0, 0, 10, 25, 5, 0, 0>>, <<0, 10, 0, 25, 5, 0, 0>>, <<0, 35, 0, 0, 5, 0, 0>>,
   <<10, 0, 0, 25, 5, 0, 0>>, <<25, 0, 0, 10, 5, 0, 0>>, <<25, 0, 10, 0, 5, 0, 0>>,
   <<25, 10, 0, 0, 5, 0, 0>>, <<35, 0, 0, 0, 5, 0, 0>>,
   <<10, 35, 20, 10, 0, 10, 0>>, <<35, 10, 20, 10, 0, 10, 0>>}

\* Mutant: signals add up.
Capped_Not(score) == score

Capped(score) == IF score > 1000 THEN 1000 ELSE score

Score(f) == 10 * Sum(Parts(f), 7) - (IF Parts(f) \in RoundedDown THEN 1 ELSE 0)

_heuristic_predict(f) ==
  [confidence |-> Capped(Score(f)),
   vector |->
     IF Timing(f) = 35 THEN "ai-recon"
     ELSE IF Above(f.ratio_4xx, 50) /\ f.methods <= 1 THEN "brute_force"
     ELSE IF Above(f.uniques, 70) THEN "recon"
     ELSE IF f.sigma_hits > 0 THEN "injection" ELSE "unknown"]

\* predict: what the model says, or the heuristic when there is none or it fails.
Predictions(f) == {_heuristic_predict(f)} \cup Booster

-----------------------------------------------------------------------------
(* Actions *)

\* The condition is an expression, or begins one: in turn an operand and what may
\* follow it, its brackets closed after they are opened.
Operand(tokens) ==
  tokens = <<>> \/ tokens[Len(tokens)] \in {"and", "or", "not", "("}

Open(tokens) ==
  Cardinality({i \in DOMAIN tokens : tokens[i] = "("}) -
  Cardinality({i \in DOMAIN tokens : tokens[i] = ")"})

Begins(tokens) ==
  \A i \in DOMAIN tokens :
    LET before == SubSeq(tokens, 1, i - 1)
    IN  IF Operand(before) THEN tokens[i] \notin {"and", "or", ")"}
        ELSE tokens[i] \in {"and", "or"} \/ (tokens[i] = ")" /\ Open(before) > 0)

Expression(tokens) == Begins(tokens) /\ ~Operand(tokens) /\ Open(tokens) = 0

Write(t) ==
  /\ level = ""
  /\ condition' = Append(condition, t)
  /\ Len(condition') <= (IF Begins(condition') THEN MaxTokens ELSE MaxGarbled)
  /\ UNCHANGED <<level, window, verdict>>

\* The Sentinel starts and loads its rules.
Load(l) ==
  /\ level = "" /\ [condition |-> condition, level |-> l] \in Live
  /\ level' = l
  /\ UNCHANGED <<condition, window, verdict>>

\* The last n events of w.
Last(w, n) ==
  LET rest == SubSeq(w, Len(w) - n + 1, Len(w))
  IN  [i \in DOMAIN rest |-> IF i = 1 THEN [rest[1] EXCEPT !.gap = 0] ELSE rest[i]]

\* What T1 and its thresholds make of w.
Classify(w) ==
  \E p \in Predictions(extract_features(w)) :
    LET tier == CASE p.confidence >= 850 -> "T1"
                  [] p.confidence < 400  -> "benign"
                  [] OTHER               -> "T2"
    IN  /\ verdict' = [tier |-> tier, confidence |-> p.confidence, vector |-> p.vector]
        /\ window' = IF tier = "T1" THEN <<>> ELSE w

\* The event goes no further than the tier.
Stops(tier, w) == verdict' = [NoVerdict EXCEPT !.tier = tier] /\ window' = w

\* The address has now been seen in enough families: Sentinel keeps that count. The
\* window stays.
Behavioral(w) ==
  /\ w[Len(w)].kind.path \in Sensitive
  /\ verdict' = [tier |-> "behavioral", confidence |-> 860, vector |-> "ai-recon"]
  /\ window' = w

\* The tiers in their order, whether or not a cooldown lets a signal out. Those that
\* work on the window leave it empty when they trigger.
Judge(w) ==
  IF level = "critical" /\ match(w[Len(w)].kind)
    THEN /\ verdict' = [tier |-> "T0", confidence |-> 950, vector |-> dominant_vector(w)]
         /\ window' = <<>>
  ELSE \/ Behavioral(w)
       \/ IF Len(w) < 3 THEN Stops("small", w)
          ELSE IF ~looks_suspicious(w) THEN Stops("gate", w)
          ELSE Classify(w)

\* An event arrives. The deque drops the oldest one when it is full, pruning drops n.
Arrive(kind, gap, n) ==
  /\ level # ""
  /\ LET w    == Append(window, [kind |-> kind, gap |-> gap])
         full == IF Len(w) > MAXLEN THEN MAXLEN ELSE Len(w)
     IN  n < full /\ Judge(Last(w, full - n))
  /\ UNCHANGED <<condition, level>>

TiersNext ==
  \/ \E t \in Tokens : Write(t)
  \/ \E l \in {"low", "critical"} : Load(l)
  \/ \E k \in Kinds, g \in Gaps, n \in 0..MaxExpired : Arrive(k, g, n)

TiersSpec == TiersInit /\ [][TiersNext]_tiersVars

-----------------------------------------------------------------------------
(* Properties *)

\* Where op stands outside brackets between the tokens i and j.
Splits(tokens, i, j, op) ==
  {k \in (i + 1)..(j - 1) : tokens[k] = op /\ Open(SubSeq(tokens, i, k)) = 0}

\* The value of tokens as an expression, by the grammar: the tokens from i to j are what
\* the first "or" outside brackets joins, else the first "and", else what "not" negates,
\* what brackets hold, or a name.
Value(tokens, truth) ==
  LET first(i, j, op) == Min(Splits(tokens, i, j, op))
      value[ij \in (1..(Len(tokens) + 1)) \X (0..Len(tokens))] ==
        LET i == ij[1]
            j == ij[2]
        IN  IF i > j THEN FALSE
            ELSE IF Splits(tokens, i, j, "or") # {}
              THEN value[<<i, first(i, j, "or") - 1>>] \/ value[<<first(i, j, "or") + 1, j>>]
            ELSE IF Splits(tokens, i, j, "and") # {}
              THEN value[<<i, first(i, j, "and") - 1>>] /\ value[<<first(i, j, "and") + 1, j>>]
            ELSE CASE tokens[i] = "not" -> ~value[<<i + 1, j>>]
                   [] tokens[i] = "("   -> value[<<i + 1, j - 1>>]
                   [] OTHER             -> tokens[i] \in Names /\ truth[tokens[i]]
  IN  value[<<1, Len(tokens)>>]

\* A condition that is an expression matches the events it describes, whatever the
\* truth of its selections: brackets first, then "not", "and" and "or".
ConditionMeansWhatItSays ==
  Expression(condition) =>
    \A truth \in [Names -> BOOLEAN] : Holds(condition, truth) <=> Value(condition, truth)

\* Gate and T1 measure the same speed: a window that the gate lets through for its rate
\* is not dismissed by the heuristic T1 as benign, unless its first and last timestamps
\* are the same or out of order, where each has a fallback of its own.
FastIsNotBenign ==
  /\ Len(window) >= 3 /\ RpsReaches(window, RPS_THRESHOLD) /\ Dt(window) >= 1
  => _heuristic_predict(extract_features(window)).confidence >= 400
=============================================================================
