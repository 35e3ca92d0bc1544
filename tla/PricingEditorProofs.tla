------------------------ MODULE PricingEditorProofs ------------------------
(***************************************************************************)
(* Proof about PricingEditor: a model the user never changed keeps its     *)
(* price, however often all models are saved, whichever calls of a save    *)
(* fail and whenever the options are listed again.                         *)
(***************************************************************************)
EXTENDS PricingEditor, SequenceTheorems, FiniteSetTheorems, TLAPS

-----------------------------------------------------------------------------
(* Texts of rules are sequences.                                           *)

IsRules(r) == \E n \in Nat : r = [i \in 1 .. n |-> r[i]]

\* Joined with nothing, rules stay what they are.
LEMMA JoinedWithNone ==
  ASSUME NEW r, IsRules(r)
  PROVE  <<>> \o r = r /\ r \o <<>> = r
<1>1. PICK n \in Nat : r = [i \in 1 .. n |-> r[i]]
  BY DEF IsRules
<1> DEFINE S == {r[i] : i \in 1 .. n}
<1>2. r \in [1 .. n -> S]
  BY <1>1
<1> HIDE DEF S
<1>3. r \in Seq(S)
  BY <1>2, SeqDef
<1> QED BY <1>3, ConcatEmptySeq

\* What buildRequestRuleExpr writes for one group.
LEMMA TextIsRules ==
  ASSUME NEW conds
  PROVE  IsRules(Text(conds))
<1> DEFINE g == <<Rule(conds)>>
           P == {i \in DOMAIN g : Written(g[i])}
           kept == AtPlaces(g, P)
<1>1. P \subseteq {1}
  OBVIOUS
<1>2. IsFiniteSet({1})
  BY FS_Singleton
<1>3. Cardinality(P) \in Nat
  <2> HIDE DEF P
  <2> QED BY <1>1, <1>2, FS_Subset, FS_CardinalityType
<1> HIDE DEF P
<1>4. DOMAIN kept = 1 .. Cardinality(P)
  BY DEF AtPlaces
<1>5. Text(conds) = [i \in DOMAIN kept |-> [text |-> Join(ConditionTexts(kept[i])), mult |-> kept[i].mult]]
  BY DEF Text, BuildRequestRuleExpr, P
<1> HIDE DEF kept
<1>6. DOMAIN Text(conds) = 1 .. Cardinality(P) /\ Text(conds) = [i \in 1 .. Cardinality(P) |-> Text(conds)[i]]
  BY <1>4, <1>5
<1> QED BY <1>3, <1>6 DEF IsRules

-----------------------------------------------------------------------------
(* Expressions: reading and writing one.                                   *)

Parsed(r) == r # <<>> /\ \A i \in DOMAIN r : TryParseRuleGroupFactor(r[i]) # Null

\* What the editor makes of an expression: base and rules, or, when the rules cannot be read, a base alone.
BaseOf(x) == IF Parsed(x.rules) THEN Expr(x.base, <<>>, <<>>) ELSE Expr(x.base, x.rules, <<>>)
RulesOf(x) == IF Parsed(x.rules) THEN x.rules ELSE <<>>

\* The texts that a save may store for it.
Saved(x) == {x, Expr(BaseOf(x).base, BaseOf(x).inner, RulesOf(x))}

\* An expression of tiers, or written by hand, with rules.
Plain(x) == x.base \in {"T1", "hand"} /\ IsRules(x.rules) /\ x = Expr(x.base, <<>>, x.rules)

\* The stored expressions the editor does not misread are of this kind.
LEMMA StoredPlain ==
  ASSUME NEW x \in StoredExprs, x.base # "sum", x # NoExpr
  PROVE  Plain(x)
<1>1. IsRules(<<>>)
  <2>1. <<>> = [i \in 1 .. 0 |-> <<>>[i]]
    OBVIOUS
  <2> QED BY <2>1 DEF IsRules
<1>2. CASE x = Expr("sum", <<>>, Text(<<"is">>))
  BY <1>2 DEF Expr
<1>3. CASE x = Expr("T1", <<>>, <<>>) \/ x = Expr("hand", <<>>, <<>>)
  BY <1>1, <1>3 DEF Plain, Expr
<1>4. CASE x \in {Expr(b, <<>>, r) : b \in {"T1", "hand"}, r \in {Text(<<"range">>), Text(<<"gt">>), Text(<<"is", "range">>)}}
  BY <1>4, TextIsRules DEF Plain, Expr
<1> QED BY <1>2, <1>3, <1>4 DEF StoredExprs

\* Reading what a save may store gives the same base and rules.
LEMMA SplitSaved ==
  ASSUME NEW x, Plain(x), NEW y \in Saved(x)
  PROVE  SplitBillingExpr(y).b = BaseOf(x) /\ SplitBillingExpr(y).rules = RulesOf(x)
<1> DEFINE b == x.base
           r == x.rules
<1>1. b \in {"T1", "hand"} /\ IsRules(r) /\ x = Expr(b, <<>>, r)
  BY DEF Plain
<1>2. x.base = b /\ x.inner = <<>> /\ x.rules = r /\ b # "sum"
  BY <1>1 DEF Expr
<1>3. <<>> \o r = r /\ r \o <<>> = r
  BY <1>1, JoinedWithNone
<1>4. CASE Parsed(r)
  <2>1. BaseOf(x) = Expr(b, <<>>, <<>>) /\ RulesOf(x) = r /\ y = Expr(b, <<>>, r)
    BY <1>1, <1>2, <1>4 DEF BaseOf, RulesOf, Saved, Expr
  <2> QED BY <1>2, <1>4, <2>1 DEF SplitBillingExpr, Parsed, Expr
<1>5. CASE ~Parsed(r)
  <2>1. BaseOf(x) = Expr(b, r, <<>>) /\ RulesOf(x) = <<>> /\ (y = Expr(b, <<>>, r) \/ y = Expr(b, r, <<>>))
    BY <1>1, <1>2, <1>5 DEF BaseOf, RulesOf, Saved, Expr
  <2>2. CASE y = Expr(b, <<>>, r) /\ r # <<>>
    BY <1>3, <1>5, <2>1, <2>2 DEF SplitBillingExpr, Parsed, Expr
  <2>3. CASE y = Expr(b, r, <<>>)
    BY <1>3, <1>5, <2>1, <2>3 DEF SplitBillingExpr, Parsed, Expr
  <2> QED BY <2>1, <2>2, <2>3
<1> QED BY <1>4, <1>5

\* The base alone is read as it is, too.
LEMMA SplitBase ==
  ASSUME NEW x, Plain(x)
  PROVE  /\ SplitBillingExpr(BaseOf(x)).b = BaseOf(x) /\ BaseOf(x) # NoExpr
         /\ ParsesVisually(BaseOf(x)) => TierText(BaseOf(x).base) = BaseOf(x)
<1> DEFINE b == x.base
           r == x.rules
<1>1. b \in {"T1", "hand"} /\ IsRules(r) /\ x = Expr(b, <<>>, r)
  BY DEF Plain
<1>2. x.base = b /\ x.rules = r
  BY <1>1 DEF Expr
<1>3. <<>> \o r = r /\ r \o <<>> = r /\ <<>> \o <<>> = <<>>
  BY <1>1, JoinedWithNone
<1>4. CASE Parsed(r)
  <2>1. BaseOf(x) = Expr(b, <<>>, <<>>)
    BY <1>2, <1>4 DEF BaseOf
  <2> QED BY <1>1, <1>3, <2>1 DEF SplitBillingExpr, Expr, NoExpr, None, TierText
<1>5. CASE ~Parsed(r)
  <2>1. BaseOf(x) = Expr(b, r, <<>>)
    BY <1>2, <1>5 DEF BaseOf
  <2> QED BY <1>1, <1>3, <1>5, <2>1 DEF SplitBillingExpr, Parsed, Expr, NoExpr, None, TierText, ParsesVisually
<1> QED BY <1>4, <1>5

\* What is stored charges what the first expression charged.
LEMMA SavedSame ==
  ASSUME NEW x, Plain(x), NEW y \in Saved(x)
  PROVE  SameExpr(y, x)
<1> DEFINE b == x.base
           r == x.rules
<1>1. b \in {"T1", "hand"} /\ IsRules(r) /\ x = Expr(b, <<>>, r)
  BY DEF Plain
<1>2. x.base = b /\ x.rules = r /\ x.inner = <<>>
  BY <1>1 DEF Expr
<1>3. y = x \/ y = Expr(b, r, <<>>)
  BY <1>1, <1>2 DEF Saved, BaseOf, RulesOf, Expr
<1>4. CASE y = Expr(b, r, <<>>)
  <2>1. y.base = b /\ y.inner = r /\ y.rules = <<>>
    BY <1>4 DEF Expr
  <2>2. y.inner \o y.rules = x.inner \o x.rules
    BY <1>1, <1>2, <2>1, JoinedWithNone
  <2>3. \A e \in Situations : Evaluate(y, e) = Evaluate(x, e)
    BY <1>2, <2>1, <2>2 DEF Evaluate
  <2> QED BY <1>2, <2>1, <2>3 DEF SameExpr, Compiles
<1> QED BY <1>3, <1>4 DEF SameExpr

-----------------------------------------------------------------------------
(* Ratios and prices.                                                      *)

\* The price of a ratio is made the same ratio again.
LEMMA RatioOfPrice ==
  ASSUME NEW c \in {0, 1, 2, 3}
  PROVE  Ratio(2 * c, 2) = <<c, 1>>
<1> DEFINE Q == (0 .. 8) \X (1 .. 8)
           Fit(q) == q[1] * 2 = (2 * c) * q[2] /\ \A d \in 2 .. 8 : ~(q[1] % d = 0 /\ q[2] % d = 0)
<1>1. <<c, 1>> \in Q /\ Fit(<<c, 1>>)
  <2>1. <<c, 1>>[1] = c /\ <<c, 1>>[2] = 1 /\ <<c, 1>> \in Q
    OBVIOUS
  <2>2. \A d \in 2 .. 8 : 1 % d # 0
    OBVIOUS
  <2> QED BY <2>1, <2>2
<1>2. ASSUME NEW q \in Q, Fit(q) PROVE q = <<c, 1>>
  <2>1. q[1] \in 0 .. 8 /\ q[2] \in 1 .. 8 /\ q = <<q[1], q[2]>> /\ q[1] = c * q[2]
    BY <1>2
  <2>2. ASSUME q[2] # 1 PROVE FALSE
    <3>1. q[2] \in 2 .. 8
      BY <2>1, <2>2
    <3>2. ~(q[1] % q[2] = 0 /\ q[2] % q[2] = 0)
      BY <1>2, <3>1
    <3>3. ASSUME NEW n \in 2 .. 8 PROVE (c * n) % n = 0 /\ n % n = 0
      <4>1. n \in {2, 3, 4, 5, 6, 7, 8}
        BY <3>3
      <4> QED BY <4>1
    <3> QED BY <2>1, <3>1, <3>2, <3>3
  <2> QED BY <2>1, <2>2
<1>3. (CHOOSE q \in Q : Fit(q)) = <<c, 1>>
  <2> HIDE DEF Q, Fit
  <2> QED BY <1>1, <1>2
<1> QED BY <1>3 DEF Ratio

\* And the ratio has that price.
LEMMA PriceOfRatio ==
  ASSUME NEW c \in {0, 1, 2, 3}
  PROVE  Times(2, <<c, 1>>) = 2 * c
<1>1. <<c, 1>> # NoRatio /\ <<c, 1>>[1] = c /\ <<c, 1>>[2] = 1
  BY DEF NoRatio
<1>2. \A y \in 0 .. 64 : y * 1 = 2 * c => y = 2 * c
  OBVIOUS
<1>3. 2 * c \in 0 .. 64
  OBVIOUS
<1>4. (CHOOSE y \in 0 .. 64 : y * 1 = 2 * c) = 2 * c
  BY <1>2, <1>3
<1>5. 2 # No /\ 2 * <<c, 1>>[1] = 2 * c
  BY <1>1 DEF No
<1>6. Times(2, <<c, 1>>) = CHOOSE y \in 0 .. 64 : y * <<c, 1>>[2] = 2 * <<c, 1>>[1]
  BY <1>1, <1>5 DEF Times
<1>7. (CHOOSE y \in 0 .. 64 : y * <<c, 1>>[2] = 2 * <<c, 1>>[1]) = (CHOOSE y \in 0 .. 64 : y * 1 = 2 * c)
  BY <1>1
<1> QED BY <1>4, <1>6, <1>7

\* The numbers of the stored ratios.
LEMMA Numbers ==
  /\ Times(2, <<0, 1>>) = 0 /\ Times(2, <<1, 1>>) = 2 /\ Times(2, <<2, 1>>) = 4 /\ Times(2, <<3, 1>>) = 6
  /\ Ratio(0, 2) = <<0, 1>> /\ Ratio(2, 2) = <<1, 1>> /\ Ratio(4, 2) = <<2, 1>> /\ Ratio(6, 2) = <<3, 1>>
  /\ \A x : Times(x, NoRatio) = No
  /\ \A q : Times(No, q) = No
<1>1. \A c \in {0, 1, 2, 3} : Times(2, <<c, 1>>) = 2 * c /\ Ratio(2 * c, 2) = <<c, 1>>
  BY RatioOfPrice, PriceOfRatio
<1>2. 2 * 0 = 0 /\ 2 * 1 = 2 /\ 2 * 2 = 4 /\ 2 * 3 = 6
  OBVIOUS
<1>3. (\A x : Times(x, NoRatio) = No) /\ (\A q : Times(No, q) = No)
  BY DEF Times
<1> QED BY <1>1, <1>2, <1>3

\* What is kept of the ratios and of a fixed price: a fixed price alone, or the ratios, of a free input the
\* input's alone.
SameRatios(o) ==
  /\ ~o.tiered /\ o.price = first.price
  /\ first.price = No => o.ratio = first.ratio
  /\ (first.price = No /\ first.ratio # <<0, 1>>) =>
       o.comp = first.comp /\ o.audio = first.audio /\ o.audioComp = first.audioComp

\* The stored options by what their prices are.
LEMMA StoredCases ==
  ASSUME NEW o \in StoredRatios
  PROVE  /\ ~o.tiered /\ o.expr = NoExpr
         /\ \/ o.price = 2
            \/ o.price = No /\ o.ratio = NoRatio
            \/ o.price = No /\ o.ratio = <<0, 1>>
            \/ o.price = No /\ o.ratio = <<1, 1>> /\ o.comp = <<3, 1>> /\ o.audio = NoRatio /\ o.audioComp = NoRatio
            \/ o.price = No /\ o.ratio = <<1, 1>> /\ o.comp = <<2, 1>> /\ o.audio = <<1, 1>> /\ o.audioComp = <<2, 1>>
<1>1. CASE o = Unset
  BY <1>1 DEF Unset, Options
<1>2. CASE o = [Unset EXCEPT !.price = 2]
  BY <1>2 DEF Unset, Options
<1>3. CASE o = [Unset EXCEPT !.ratio = <<0, 1>>, !.comp = <<2, 1>>]
  BY <1>3 DEF Unset, Options
<1>4. CASE o = [Unset EXCEPT !.ratio = <<1, 1>>, !.comp = <<3, 1>>]
  BY <1>4 DEF Unset, Options
<1>5. CASE o = [Unset EXCEPT !.comp = <<3, 1>>]
  BY <1>5 DEF Unset, Options
<1>6. CASE o = Options(No, <<1, 1>>, <<2, 1>>, <<1, 1>>, <<2, 1>>, FALSE, NoExpr)
  BY <1>6 DEF Options
<1>7. CASE o = Options(2, <<1, 1>>, <<2, 1>>, NoRatio, NoRatio, FALSE, NoExpr)
  BY <1>7 DEF Options
<1> QED BY <1>1, <1>2, <1>3, <1>4, <1>5, <1>6, <1>7 DEF StoredRatios

\* Serializing a model built from such options keeps them (buildModelState, serializeModel).
LEMMA RatiosRoundTrip ==
  ASSUME first \in StoredRatios, locked \in BOOLEAN, NEW o, SameRatios(o), ~Throws(BuildModelState(o))
  PROVE  BuildModelState(o).mode # "tiered" /\ SameRatios(Output(BuildModelState(o)))
<1> DEFINE x == BuildModelState(o)
           input == Times(2, o.ratio)
           audioIn == Times(input, o.audio)
<1>0. x = [mode |-> IF o.price # No THEN "request" ELSE "token", fixed |-> o.price, input |-> input,
           compl |-> Times(input, IF locked THEN LockedRatio ELSE o.comp),
           audioIn |-> audioIn, audioOut |-> Times(audioIn, o.audioComp), lock |-> locked,
           raw |-> [ratio |-> o.ratio, comp |-> o.comp, audio |-> o.audio, audioComp |-> o.audioComp],
           base |-> NoExpr, rules |-> <<>>]
  BY DEF BuildModelState, SameRatios
<1>1. /\ x.mode = (IF o.price # No THEN "request" ELSE "token") /\ x.fixed = o.price /\ x.input = input
      /\ x.compl = Times(input, IF locked THEN LockedRatio ELSE o.comp) /\ x.audioIn = audioIn
      /\ x.audioOut = Times(audioIn, o.audioComp) /\ x.lock = locked /\ x.raw.ratio = o.ratio /\ x.raw.comp = o.comp
      /\ x.raw.audio = o.audio /\ x.raw.audioComp = o.audioComp
  BY <1>0
<1>2. x.mode # "tiered" /\ Output(x) = SerializeModel(x)
  BY <1>1 DEF Output
<1> HIDE DEF x
<1>3. \A p : [Unset EXCEPT !.price = p].tiered = FALSE /\ [Unset EXCEPT !.price = p].price = p
  BY DEF Unset, Options
<1>4. \A r, c, a, b : LET u == [Unset EXCEPT !.ratio = r, !.comp = c, !.audio = a, !.audioComp = b]
                     IN u.tiered = FALSE /\ u.price = No /\ u.ratio = r /\ u.comp = c /\ u.audio = a /\ u.audioComp = b
  BY DEF Unset, Options
<1>5. CASE first.price = 2
  <2>1. Output(x) = [Unset EXCEPT !.price = 2]
    BY <1>1, <1>2, <1>5 DEF SerializeModel, SameRatios, No
  <2> QED BY <1>2, <1>3, <1>5, <2>1 DEF SameRatios, x, No
<1>6. CASE first.price = No /\ first.ratio = NoRatio
  <2>1. x.mode = "token" /\ x.input = No
    BY <1>1, <1>6, Numbers DEF SameRatios
  <2>2. Output(x) = [Unset EXCEPT !.ratio = o.ratio, !.comp = o.comp, !.audio = o.audio, !.audioComp = o.audioComp]
    BY <1>1, <1>2, <2>1 DEF SerializeModel
  <2> QED BY <1>2, <1>4, <1>6, <2>2 DEF SameRatios, x
<1>7. ASSUME first.price = No, x.input # No
      PROVE  /\ Output(x).tiered = FALSE /\ Output(x).price = No /\ Output(x).ratio = Ratio(x.input, 2)
             /\ Output(x).comp = (IF x.lock THEN x.raw.comp ELSE Over(x.compl, x.input))
             /\ Output(x).audio = Over(x.audioIn, x.input) /\ Output(x).audioComp = Over(x.audioOut, x.audioIn)
  <2> DEFINE r == Ratio(x.input, 2)
             c == IF x.lock THEN x.raw.comp ELSE Over(x.compl, x.input)
             a == Over(x.audioIn, x.input)
             b == Over(x.audioOut, x.audioIn)
  <2>1. Output(x) = [Unset EXCEPT !.ratio = r, !.comp = c, !.audio = a, !.audioComp = b]
    BY <1>1, <1>2, <1>7 DEF SerializeModel, SameRatios
  <2> HIDE DEF r, c, a, b
  <2>2. /\ Output(x).tiered = FALSE /\ Output(x).price = No /\ Output(x).ratio = r
        /\ Output(x).comp = c /\ Output(x).audio = a /\ Output(x).audioComp = b
    BY <1>4, <2>1
  <2> QED BY <2>2 DEF r, c, a, b
<1>8. CASE first.price = No /\ first.ratio = <<0, 1>>
  <2>1. x.input = 0
    BY <1>1, <1>8, Numbers DEF SameRatios
  <2>2. Ratio(x.input, 2) = <<0, 1>>
    BY <2>1, Numbers
  <2>3. x.input # No
    BY <2>1 DEF No
  <2>4. Output(x).tiered = FALSE /\ Output(x).price = No /\ Output(x).ratio = <<0, 1>>
    BY <1>7, <1>8, <2>2, <2>3
  <2> QED BY <1>2, <1>8, <2>4 DEF SameRatios, x
<1>9. CASE first.price = No /\ first.ratio = <<1, 1>>
  <2>1. o.ratio = <<1, 1>> /\ o.comp = first.comp /\ o.audio = first.audio /\ o.audioComp = first.audioComp
    BY <1>9 DEF SameRatios
  <2>2. x.input = 2 /\ Ratio(x.input, 2) = <<1, 1>>
    BY <1>1, <2>1, Numbers
  <2>0. /\ first.price # 2 /\ first.ratio # NoRatio /\ first.ratio # <<0, 1>>
    BY <1>9 DEF No, NoRatio
  <2>3. first.comp \in {<<2, 1>>, <<3, 1>>}
    BY <2>0, StoredCases
  <2>4. (IF x.lock THEN x.raw.comp ELSE Over(x.compl, x.input)) = first.comp
    BY <1>1, <2>1, <2>2, <2>3, Numbers DEF Over, No
  <2>5. \/ first.audio = NoRatio /\ first.audioComp = NoRatio
        \/ first.audio = <<1, 1>> /\ first.audioComp = <<2, 1>>
    BY <2>0, StoredCases
  <2>6. Over(x.audioIn, x.input) = first.audio /\ Over(x.audioOut, x.audioIn) = first.audioComp
    BY <1>1, <2>1, <2>2, <2>5, Numbers DEF Over, No
  <2>7. x.input # No
    BY <2>2 DEF No
  <2>8. /\ Output(x).tiered = FALSE /\ Output(x).price = No /\ Output(x).ratio = <<1, 1>> /\ Output(x).comp = first.comp
        /\ Output(x).audio = first.audio /\ Output(x).audioComp = first.audioComp
    BY <1>7, <1>9, <2>2, <2>4, <2>6, <2>7
  <2> QED BY <1>2, <1>9, <2>8 DEF SameRatios, x
<1> QED BY <1>5, <1>6, <1>8, <1>9, StoredCases

\* A model billed by an expression is sent with base and rules joined (combineBillingExpr).
LEMMA TieredOutput ==
  ASSUME NEW x, x.mode = "tiered", x.base = Expr(x.base.base, x.base.inner, x.base.rules), x.base.base # None
  PROVE  Output(x).tiered = TRUE /\ Output(x).expr = Expr(x.base.base, x.base.inner, x.rules)
<1> DEFINE b == x.base
           r == x.rules
           ratios == IF Throws(x) THEN Unset ELSE SerializeModel(x)
<1>1. CombineBillingExpr(b, r) = Expr(b.base, b.inner, r) /\ CombineBillingExpr(b, r) # NoExpr
  BY DEF CombineBillingExpr, Expr, NoExpr
<1>2. DOMAIN Unset = Keys
  BY DEF Unset, Options, Keys
<1>3. \A q, c, a, d : DOMAIN [Unset EXCEPT !.ratio = q, !.comp = c, !.audio = a, !.audioComp = d] = Keys
  BY <1>2
<1>4. DOMAIN SerializeModel(x) = Keys
  <2>1. x.mode # "request"
    OBVIOUS
  <2>2. CASE x.input = No
    BY <1>3, <2>1, <2>2 DEF SerializeModel
  <2>3. CASE x.input # No
    <3> DEFINE q == Ratio(x.input, 2)
               c == IF x.lock THEN x.raw.comp ELSE Over(x.compl, x.input)
               a == Over(x.audioIn, x.input)
               d == Over(x.audioOut, x.audioIn)
    <3>1. SerializeModel(x) = [Unset EXCEPT !.ratio = q, !.comp = c, !.audio = a, !.audioComp = d]
      BY <2>1, <2>3 DEF SerializeModel
    <3> HIDE DEF q, c, a, d
    <3> QED BY <1>3, <3>1
  <2> QED BY <2>2, <2>3
<1>5. DOMAIN ratios = Keys
  BY <1>2, <1>4
<1>6. Output(x) = [ratios EXCEPT !.tiered = TRUE, !.expr = CombineBillingExpr(b, r)]
  BY <1>1 DEF Output
<1> HIDE DEF ratios
<1> QED BY <1>1, <1>5, <1>6 DEF Keys

-----------------------------------------------------------------------------
(* The inductive invariant.                                                *)

\* The page was opened on options that can be stored.
FirstOK ==
  /\ locked \in BOOLEAN
  /\ first \in StoredRatios \/ (first.tiered = TRUE /\ first.expr \in StoredExprs)

\* A model billed by an expression and not changed: server, model, editor and a save in flight hold the
\* base and the rules of the first expression, however they are cut.
TieredInv ==
  (~repriced /\ first.tiered = TRUE /\ ~Misread(first)) =>
    /\ opt.tiered = TRUE /\ opt.expr \in Saved(first.expr)
    /\ m.mode = "tiered" /\ m.base = BaseOf(first.expr) /\ m.rules = RulesOf(first.expr)
    /\ ed.on = TRUE /\ Effective(ed) = BaseOf(first.expr)
    /\ out.on => out.opts.tiered = TRUE /\ out.opts.expr \in Saved(first.expr)

\* A model billed by ratios or by a fixed price and not changed: it was built from options that say the same.
RatioInv ==
  (~repriced /\ first \in StoredRatios) =>
    /\ SameRatios(opt) /\ ed = Closed
    /\ \E o : SameRatios(o) /\ m = BuildModelState(o)
    /\ out.on => SameRatios(out.opts)

PriceInv == FirstOK /\ TieredInv /\ RatioInv

\* The first expression, if the editor does not misread it.
LEMMA FirstPlain ==
  ASSUME FirstOK, first.tiered = TRUE, ~Misread(first)
  PROVE  Plain(first.expr)
<1>1. first.expr \in StoredExprs
  BY StoredCases DEF FirstOK
<1>2. first.expr.base # "sum" /\ first.expr # NoExpr
  BY DEF Misread
<1> QED BY <1>1, <1>2, StoredPlain

\* The invariant gives the property.
LEMMA PriceInvKeeps ==
  ASSUME PriceInv
  PROVE  UntouchedKeepsPrice
<1> SUFFICES ASSUME ~repriced, ~Misread(first)
             PROVE  /\ opt.tiered = first.tiered
                    /\ IF first.tiered THEN SameExpr(opt.expr, first.expr)
                       ELSE /\ opt.price = first.price
                            /\ first.price = No => opt.ratio = first.ratio
                            /\ (first.price = No /\ first.ratio # <<0, 1>>) => \A k \in {"comp", "audio", "audioComp"} : opt[k] = first[k]
  BY DEF UntouchedKeepsPrice
<1>1. CASE first \in StoredRatios
  <2>1. SameRatios(opt) /\ first.tiered = FALSE
    BY <1>1, StoredCases DEF PriceInv, RatioInv
  <2>2. opt.tiered = FALSE
    BY <2>1 DEF SameRatios
  <2> QED BY <2>1, <2>2 DEF SameRatios
<1>2. CASE first.tiered = TRUE /\ first.expr \in StoredExprs
  <2>1. opt.tiered = TRUE /\ opt.expr \in Saved(first.expr)
    BY <1>2 DEF PriceInv, TieredInv
  <2>2. Plain(first.expr)
    BY <1>2, FirstPlain DEF PriceInv
  <2>3. SameExpr(opt.expr, first.expr)
    BY <2>1, <2>2, SavedSame
  <2> QED BY <1>2, <2>1, <2>3
<1> QED BY <1>1, <1>2 DEF PriceInv, FirstOK

-----------------------------------------------------------------------------
(* Every step keeps it.                                                    *)

\* Opening the page.
LEMMA PriceInvInit ==
  ASSUME PricingInit
  PROVE  PriceInv
<1> DEFINE x == BuildModelState(opt)
<1>0. /\ first = opt /\ locked \in BOOLEAN /\ out = NoOut /\ ~repriced
      /\ ed = (IF x.mode = "tiered" THEN Opened(x) ELSE Closed)
      /\ m = (IF ed.on THEN [x EXCEPT !.base = Effective(ed)] ELSE x)
  BY DEF PricingInit
<1>1. ~out.on
  BY <1>0 DEF NoOut
<1>2. opt \in StoredRatios \/ (opt.tiered = TRUE /\ opt.expr \in StoredExprs)
  <2>1. opt \in StoredRatios \cup StoredTiered
    BY DEF PricingInit
  <2>2. CASE opt \in StoredTiered
    BY <2>2 DEF StoredTiered, Options
  <2> QED BY <2>1, <2>2
<1>3. FirstOK
  BY <1>0, <1>2 DEF FirstOK
<1>4. TieredInv
  <2> SUFFICES ASSUME first.tiered = TRUE, ~Misread(first)
               PROVE  /\ opt.expr \in Saved(first.expr)
                      /\ m.mode = "tiered" /\ m.base = BaseOf(first.expr) /\ m.rules = RulesOf(first.expr)
                      /\ ed.on = TRUE /\ Effective(ed) = BaseOf(first.expr)
    BY <1>0, <1>1 DEF TieredInv
  <2> DEFINE y == first.expr
  <2>1. Plain(y) /\ y \in Saved(y)
    BY <1>3, FirstPlain DEF Saved
  <2>2. x = [mode |-> "tiered", fixed |-> No, input |-> No, compl |-> No, audioIn |-> No, audioOut |-> No,
             lock |-> FALSE, raw |-> NoRaw, base |-> BaseOf(y), rules |-> RulesOf(y)]
    BY <1>0, <2>1, SplitSaved DEF BuildModelState
  <2> HIDE DEF x, y
  <2>3. x.mode = "tiered" /\ x.base = BaseOf(y) /\ x.rules = RulesOf(y)
    BY <2>2
  <2> DEFINE b == BaseOf(y)
  <2>4. /\ SplitBillingExpr(b).b = b /\ b # NoExpr
        /\ ParsesVisually(b) => TierText(b.base) = b
    BY <2>1, SplitBase
  <2>5. ed = Opened(x)
    BY <1>0, <2>3
  <2> HIDE DEF b
  <2>6. /\ ed.on = TRUE /\ ed.mode = (IF ParsesVisually(b) THEN "visual" ELSE "raw")
        /\ ed.raw = b /\ (ParsesVisually(b) => ed.cfg = b.base)
    BY <2>3, <2>4, <2>5 DEF Opened, b
  <2>7. Effective(ed) = b
    BY <2>4, <2>6 DEF Effective
  <2>8. m.mode = "tiered" /\ m.base = b /\ m.rules = RulesOf(y)
    BY <1>0, <2>2, <2>6, <2>7
  <2> QED BY <1>0, <2>1, <2>6, <2>7, <2>8 DEF b, y
<1>5. RatioInv
  <2> SUFFICES ASSUME first \in StoredRatios
               PROVE  SameRatios(opt) /\ ed = Closed /\ \E o : SameRatios(o) /\ m = BuildModelState(o)
    BY <1>1 DEF RatioInv
  <2>1. ~opt.tiered
    BY <1>0, StoredCases
  <2>2. SameRatios(opt)
    BY <1>0, <2>1 DEF SameRatios
  <2>3. x.mode # "tiered"
    BY <2>1 DEF BuildModelState
  <2>4. ed = Closed /\ ~ed.on
    BY <1>0, <2>3 DEF Closed
  <2> QED BY <1>0, <2>2, <2>4
<1> QED BY <1>3, <1>4, <1>5 DEF PriceInv

\* The models built anew from options that say the same are the same (the effect on options).
LEMMA ReloadKeeps ==
  ASSUME PriceInv, NEW o, Reload(o), ~repriced, locked' = locked, first' = first,
         (first.tiered = TRUE /\ ~Misread(first)) => o.tiered = TRUE /\ o.expr \in Saved(first.expr),
         first \in StoredRatios => SameRatios(o)
  PROVE  /\ (first.tiered = TRUE /\ ~Misread(first)) =>
              /\ m'.mode = "tiered" /\ m'.base = BaseOf(first.expr) /\ m'.rules = RulesOf(first.expr)
              /\ ed'.on = TRUE /\ Effective(ed)' = BaseOf(first.expr)
         /\ first \in StoredRatios => ed' = Closed /\ m' = BuildModelState(o)
<1> DEFINE x == BuildModelState(o)
<1>0. ed' = Mounted(x, ed) /\ m' = Taken(x, ed')
  BY DEF Reload
<1>1. ASSUME first.tiered = TRUE, ~Misread(first)
      PROVE  /\ m'.mode = "tiered" /\ m'.base = BaseOf(first.expr) /\ m'.rules = RulesOf(first.expr)
             /\ ed'.on = TRUE /\ Effective(ed)' = BaseOf(first.expr)
  <2> DEFINE y == first.expr
  <2>1. Plain(y)
    BY <1>1, FirstPlain DEF PriceInv
  <2>2. x.mode = "tiered" /\ x.base = BaseOf(y) /\ x.rules = RulesOf(y)
    BY <1>1, <2>1, SplitSaved DEF BuildModelState
  <2>3. ed.on = TRUE /\ Effective(ed) = BaseOf(y) /\ m.rules = RulesOf(y)
    BY <1>1 DEF PriceInv, TieredInv
  <2> HIDE DEF x, y
  <2>4. ed' = ed
    BY <1>0, <2>2, <2>3 DEF Mounted
  <2>5. m' = x
    BY <1>0, <2>3, <2>4 DEF Taken
  <2>6. Effective(ed)' = Effective(ed)
    BY <2>4 DEF Effective
  <2> QED BY <2>2, <2>3, <2>4, <2>5, <2>6 DEF y
<1>2. ASSUME first \in StoredRatios
      PROVE  ed' = Closed /\ m' = x
  <2>1. x.mode # "tiered"
    BY <1>2 DEF BuildModelState, SameRatios
  <2> HIDE DEF x
  <2>2. ed' = Closed
    BY <1>0, <2>1 DEF Mounted
  <2>3. ~ed'.on
    BY <2>2 DEF Closed
  <2> QED BY <1>0, <2>2, <2>3 DEF Taken
<1> QED BY <1>1, <1>2

\* What is the same when the ghosts and the lock do not change.
LEMMA SameKept ==
  ASSUME first' = first, locked' = locked
  PROVE  /\ \A o : SameRatios(o)' <=> SameRatios(o)
         /\ \A o : BuildModelState(o)' = BuildModelState(o)
BY DEF SameRatios, BuildModelState

\* What a step keeps.
LEMMA PriceInvStep ==
  ASSUME PriceInv, [PricingNext]_pricingVars
  PROVE  PriceInv'
<1> USE DEF PriceInv
<1>1. ASSUME Edits PROVE PriceInv'
  BY <1>1 DEF Edits, FirstOK, TieredInv, RatioInv
<1>2. ASSUME HandleSubmit PROVE PriceInv'
  <2>1. /\ opt' = opt /\ locked' = locked /\ m' = m /\ ed' = ed /\ first' = first /\ repriced' = repriced
        /\ out' = [on |-> TRUE, opts |-> Output(m), seen |-> m] /\ (Throws(m) => m.mode = "tiered")
    BY <1>2 DEF HandleSubmit
  <2>2. out'.on = TRUE /\ out'.opts = Output(m)
    BY <2>1
  <2>3. FirstOK'
    BY <2>1 DEF FirstOK
  <2>4. TieredInv'
    <3> SUFFICES ASSUME ~repriced, first.tiered = TRUE, ~Misread(first)
                 PROVE  /\ opt.tiered = TRUE /\ opt.expr \in Saved(first.expr)
                        /\ m.mode = "tiered" /\ m.base = BaseOf(first.expr) /\ m.rules = RulesOf(first.expr)
                        /\ ed.on = TRUE /\ Effective(ed) = BaseOf(first.expr)
                        /\ Output(m).tiered = TRUE /\ Output(m).expr \in Saved(first.expr)
      BY <2>1, <2>2 DEF TieredInv, Misread, Effective
    <3>1. /\ opt.tiered = TRUE /\ opt.expr \in Saved(first.expr)
          /\ m.mode = "tiered" /\ m.base = BaseOf(first.expr) /\ m.rules = RulesOf(first.expr)
          /\ ed.on = TRUE /\ Effective(ed) = BaseOf(first.expr)
      BY DEF TieredInv
    <3> DEFINE b == BaseOf(first.expr)
    <3>2. b = Expr(b.base, b.inner, b.rules) /\ b.base # None
      BY FirstPlain DEF BaseOf, Expr, Plain, None
    <3>3. Output(m).tiered = TRUE /\ Output(m).expr = Expr(b.base, b.inner, RulesOf(first.expr))
      BY <3>1, <3>2, TieredOutput
    <3> QED BY <3>1, <3>3 DEF Saved
  <2>5. RatioInv'
    <3> SUFFICES ASSUME ~repriced, first \in StoredRatios
                 PROVE  /\ SameRatios(opt) /\ ed = Closed
                        /\ \E o : SameRatios(o) /\ m = BuildModelState(o)
                        /\ SameRatios(Output(m))
      BY <2>1, <2>2, SameKept DEF RatioInv
    <3>1. PICK o : SameRatios(o) /\ m = BuildModelState(o)
      BY DEF RatioInv
    <3>2. BuildModelState(o).mode # "tiered"
      BY <3>1 DEF SameRatios, BuildModelState
    <3>3. ~Throws(BuildModelState(o))
      BY <2>1, <3>1, <3>2
    <3>4. SameRatios(Output(m))
      BY <3>1, <3>3, RatiosRoundTrip DEF FirstOK
    <3> QED BY <3>4 DEF RatioInv
  <2> QED BY <2>3, <2>4, <2>5
<1>3. ASSUME first' = first, locked' = locked, repriced' = repriced, ~out'.on, NEW o, Reload(o),
             opt' = o,
             (~repriced /\ first.tiered = TRUE /\ ~Misread(first)) => o.tiered = TRUE /\ o.expr \in Saved(first.expr),
             (~repriced /\ first \in StoredRatios) => SameRatios(o)
      PROVE  PriceInv'
  <2>1. FirstOK'
    BY <1>3 DEF FirstOK
  <2>2. TieredInv'
    <3> SUFFICES ASSUME ~repriced, first.tiered = TRUE, ~Misread(first)
                 PROVE  /\ m'.mode = "tiered" /\ m'.base = BaseOf(first.expr) /\ m'.rules = RulesOf(first.expr)
                        /\ ed'.on = TRUE /\ Effective(ed)' = BaseOf(first.expr)
      BY <1>3 DEF TieredInv, Misread
    <3> QED BY <1>3, ReloadKeeps
  <2>3. RatioInv'
    <3> SUFFICES ASSUME ~repriced, first \in StoredRatios
                 PROVE  ed' = Closed /\ m' = BuildModelState(o)
      BY <1>3, SameKept DEF RatioInv
    <3> QED BY <1>3, ReloadKeeps
  <2> QED BY <2>1, <2>2, <2>3
<1>4. ASSUME SaveSucceeds PROVE PriceInv'
  <2>1. /\ out.on /\ opt' = out.opts /\ Reload(out.opts) /\ locked' = locked /\ first' = first /\ repriced' = repriced
        /\ out' = NoOut
    BY <1>4 DEF SaveSucceeds
  <2>2. ~out'.on
    BY <2>1 DEF NoOut
  <2> QED BY <1>3, <2>1, <2>2 DEF TieredInv, RatioInv
<1>5. ASSUME RefreshOther PROVE PriceInv'
  <2>1. /\ ~out.on /\ opt' = opt /\ Reload(opt) /\ locked' = locked /\ first' = first /\ repriced' = repriced
        /\ out' = out
    BY <1>5 DEF RefreshOther
  <2> QED BY <1>3, <2>1 DEF TieredInv, RatioInv
<1>6. ASSUME NEW done, SaveFails(done) PROVE PriceInv'
  <2>1. /\ out.on /\ opt' = [k \in Keys |-> IF k \in done THEN out.opts[k] ELSE opt[k]] /\ locked' = locked /\ first' = first
        /\ repriced' = repriced /\ out' = NoOut /\ m' = m /\ ed' = ed
    BY <1>6 DEF SaveFails
  <2>2. ~out'.on
    BY <2>1 DEF NoOut
  <2>3. /\ opt'.tiered = out.opts.tiered \/ opt'.tiered = opt.tiered
        /\ opt'.expr = out.opts.expr \/ opt'.expr = opt.expr
        /\ opt'.price = out.opts.price \/ opt'.price = opt.price
        /\ opt'.ratio = out.opts.ratio \/ opt'.ratio = opt.ratio
        /\ opt'.comp = out.opts.comp \/ opt'.comp = opt.comp
        /\ opt'.audio = out.opts.audio \/ opt'.audio = opt.audio
        /\ opt'.audioComp = out.opts.audioComp \/ opt'.audioComp = opt.audioComp
    BY <2>1 DEF Keys
  <2>4. FirstOK'
    BY <2>1 DEF FirstOK
  <2>5. TieredInv'
    BY <2>1, <2>2, <2>3 DEF TieredInv, Misread, Effective
  <2>6. RatioInv'
    <3> SUFFICES ASSUME ~repriced, first \in StoredRatios
                 PROVE  SameRatios(opt') /\ ed = Closed /\ \E o : SameRatios(o) /\ m = BuildModelState(o)
      BY <2>1, <2>2, SameKept DEF RatioInv
    <3>1. SameRatios(opt) /\ SameRatios(out.opts) /\ ed = Closed /\ \E o : SameRatios(o) /\ m = BuildModelState(o)
      BY <2>1 DEF RatioInv
    <3>2. SameRatios(opt')
      BY <2>3, <3>1 DEF SameRatios
    <3> QED BY <3>1, <3>2
  <2> QED BY <2>4, <2>5, <2>6
<1>7. ASSUME UNCHANGED pricingVars PROVE PriceInv'
  BY <1>7, SameKept DEF pricingVars, FirstOK, TieredInv, RatioInv, Misread, Effective
<1> HIDE DEF PriceInv
<1>8. ASSUME PricingNext PROVE PriceInv'
  BY <1>1, <1>2, <1>4, <1>5, <1>6, <1>8
     DEF PricingNext, HandleNumericFieldChange, HandleOptionalFieldToggle, HandleBillingModeChange, HandleVisualChange,
         HandleRawChange, HandleRequestRuleGroupsChange, HandleModeSwitch, ApplyPreset
<1> QED BY <1>7, <1>8

\* A model the user never changed costs what it cost when the page was opened, after any number of saves of
\* all models (handleSubmit), some of which failed in part, and any number of refreshes of the options.
THEOREM UntouchedPricesKept == PricingSpec => []UntouchedKeepsPrice
<1>1. PricingInit => PriceInv
  BY PriceInvInit
<1>2. PriceInv /\ [PricingNext]_pricingVars => PriceInv'
  BY PriceInvStep
<1>3. PriceInv => UntouchedKeepsPrice
  BY PriceInvKeeps
<1> QED BY <1>1, <1>2, <1>3, PTL DEF PricingSpec
=============================================================================
