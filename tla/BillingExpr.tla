----------------------------- MODULE BillingExpr -----------------------------
(***************************************************************************)
(* The texts of billing expressions as the price editor of the web console *)
(* writes and reads them (web/src/pages/Setting/Ratio/components):         *)
(*                                                                         *)
(*     (base) * (condition && condition ? multiplier : 1) * ...            *)
(*                                                                         *)
(* The condition of a factor is kept as what its text means to a parser: a *)
(* disjunction of conjunctions, for && binds closer than ||.  The values   *)
(* compared with are left out; a condition is the fact it tests.           *)
(***************************************************************************)
EXTENDS Naturals, Sequences, FiniteSets, SequencesExt

Null == [conds |-> <<"unknown">>, mult |-> 0]      \* no group

\* What the form of a rule offers.  "gt" stands for the four comparisons of a
\* parameter, "is" for equality, "blank" for a condition that is not complete.
CondKinds == {"is", "exists", "gt", "contains", "headerContains", "time", "range", "blank"}

\* The facts about a request that the conditions test; a parameter that is
\* compared or searched is there.
Facts == {"is", "set", "gt", "has", "headerHas", "time", "from", "until"}
Situations == {e \in SUBSET Facts : ("gt" \in e \/ "has" \in e) => "set" \in e}

-----------------------------------------------------------------------------
(* Writing.                                                                *)

\* buildRequestConditionExpr, buildTimeConditionExpr: the facts joined by &&.
ConditionText(c) ==
  CASE c = "gt"             -> <<"set", "gt">>
    [] c = "contains"       -> <<"set", "has">>
    [] c = "exists"         -> <<"set">>
    [] c = "headerContains" -> <<"headerHas">>
    [] c = "blank"          -> <<>>
    [] OTHER                -> <<c>>

\* Mutant: a range is not put in parentheses beside other conditions.
JoinBare(texts) ==
  LET Add(text, fact) ==
        IF fact = "range"
          THEN Append([text EXCEPT ![Len(text)] = Append(@, "from")], <<"until">>)
          ELSE [text EXCEPT ![Len(text)] = Append(@, fact)]
  IN FoldLeft(Add, << <<>> >>, FlattenSeq(texts))

\* The conditions of a group joined by &&: a range, whose text has ||, is put
\* in parentheses unless it stands alone.
Join(texts) ==
  IF texts = << <<"range">> >> THEN << <<"from">>, <<"until">> >> ELSE <<FlattenSeq(texts)>>

\* The members of a sequence at some places, in their order.
AtPlaces(s, places) ==
  [n \in 1 .. Cardinality(places) |-> s[CHOOSE j \in places : Cardinality({i \in places : i <= j}) = n]]

\* buildRuleGroupFactor: a group without a multiplier (0 here) or without a
\* complete condition leaves no text.
ConditionTexts(g) == SelectSeq([i \in DOMAIN g.conds |-> ConditionText(g.conds[i])], LAMBDA x : x # <<>>)
Written(g) == g.mult # 0 /\ ConditionTexts(g) # <<>>

\* buildRequestRuleExpr
BuildRequestRuleExpr(groups) ==
  LET kept == AtPlaces(groups, {i \in DOMAIN groups : Written(groups[i])})
  IN [i \in DOMAIN kept |-> [text |-> Join(ConditionTexts(kept[i])), mult |-> kept[i].mult]]

-----------------------------------------------------------------------------
(* Reading.                                                                *)

\* splitTopLevelAnd: the text is cut at every && outside parentheses, also at
\* the one inside the text of a single condition.
SplitTopLevelAnd(text) ==
  LET Ones(conj) == [i \in DOMAIN conj |-> <<conj[i]>>]
      Add(parts, conj) == IF parts = <<>> THEN Ones(conj)
                          ELSE Front(parts) \o <<Last(parts) \o <<Head(conj)>> >> \o Ones(Tail(conj))
  IN FoldLeft(Add, <<>>, text)

\* tryParseRequestCondition on one part: a comparison or a search whose guard
\* was cut off is not recognised.
ParsePart(part) ==
  CASE part = <<"from", "until">> -> "range"
    [] part = <<"range">>         -> "range"
    [] part = <<"set">>           -> "exists"
    [] part = <<"headerHas">>     -> "headerContains"
    [] part \in {<<"is">>, <<"time">>} -> Head(part)
    [] OTHER                      -> "unknown"

\* tryParseRuleGroupFactor: all conditions of a group or nothing.
TryParseRuleGroupFactor(f) ==
  LET parts == SplitTopLevelAnd(f.text)
      conds == [i \in DOMAIN parts |-> ParsePart(parts[i])]
  IN IF "unknown" \in ToSet(conds) THEN Null ELSE [conds |-> conds, mult |-> f.mult]

\* tryParseRequestRuleExpr: all groups or nothing.
TryParseRequestRuleExpr(rules) ==
  LET groups == [i \in DOMAIN rules |-> TryParseRuleGroupFactor(rules[i])]
  IN IF Null \in ToSet(groups) THEN <<Null>> ELSE groups

-----------------------------------------------------------------------------
(* Whole expressions.  base: the tiers the form can show (T0, T1, T2), tiers *)
(* that do not make an expression (Broken), a text written by hand; None   *)
(* for no text.  inner: factors that could not be told from the base.  A   *)
(* sum is written by hand and has a factor on its last term only.          *)

None == "none"
Tiers == {"T0", "T1", "T2", "Broken"}
Expr(base, inner, rules) == [base |-> base, inner |-> inner, rules |-> rules]
NoExpr == Expr(None, <<>>, <<>>)

\* combineBillingExpr
CombineBillingExpr(b, rules) == IF b = NoExpr THEN NoExpr ELSE [b EXCEPT !.rules = rules]

\* splitBillingExprAndRequestRules: the text is cut at every * outside
\* parentheses, whatever other operators are beside it.  If more than the base
\* is not a rule, all of it is the base.
SplitBillingExpr(x) ==
  LET flat == IF x.rules = <<>> THEN Expr(x.base, <<>>, x.inner) ELSE x
  IN IF flat.rules # <<>> /\ \A i \in DOMAIN flat.rules : TryParseRuleGroupFactor(flat.rules[i]) # Null
       THEN [b     |-> [flat EXCEPT !.rules = <<>>, !.base = IF @ = "sum" THEN "added" ELSE @],
             rules |-> flat.rules]
       ELSE [b |-> Expr(x.base, x.inner \o x.rules, <<>>), rules |-> <<>>]

-----------------------------------------------------------------------------
(* What an expression charges.                                             *)

TextHolds(text, e) ==
  \E i \in DOMAIN text : \A j \in DOMAIN text[i] :
    IF text[i][j] = "range" THEN e \cap {"from", "until"} # {} ELSE text[i][j] \in e

Factor(rules, e) ==
  FoldLeft(LAMBDA k, f : IF TextHolds(f.text, e) THEN k * f.mult ELSE k, 1, rules)

\* Prices of the bases; a sum is 3 + 2 * its factors.
Price == [T0 |-> 0, T1 |-> 1, T2 |-> 2, hand |-> 4, added |-> 5]

Evaluate(x, e) ==
  LET k == Factor(x.inner \o x.rules, e)
  IN IF x.base = "sum" THEN 3 + 2 * k ELSE Price[x.base] * k

\* What the groups of the form say, without any text.
CondHolds(c, e) ==
  CASE c = "exists"         -> "set" \in e
    [] c = "contains"       -> "has" \in e
    [] c = "headerContains" -> "headerHas" \in e
    [] c = "range"          -> e \cap {"from", "until"} # {}
    [] OTHER                -> c \in e

GroupsFactor(groups, e) ==
  LET Applies(g) == LET cs == SelectSeq(g.conds, LAMBDA c : c # "blank")
                    IN g.mult # 0 /\ cs # <<>> /\ \A i \in DOMAIN cs : CondHolds(cs[i], e)
  IN FoldLeft(LAMBDA k, g : IF Applies(g) THEN k * g.mult ELSE k, 1, groups)
=============================================================================
