------------------------- MODULE ModelMatchingProofs -------------------------
(***************************************************************************)
(* Lemmas about the lists of models of ModelMatching: what is selected     *)
(* from them by provider and by name.                                      *)
(***************************************************************************)
EXTENDS ModelMatching, SequenceLemmas

(***************************************************************************)
(* Models by their providers.                                              *)
(***************************************************************************)

\* The models of one provider.
Of(p) == {m \in Model : ProviderOf[m] = p}

\* The models of a provider in a list are a list of its models.
LEMMA ModelsForType ==
    ASSUME NEW s \in Seq(Model), NEW p
    PROVE  /\ ModelsFor(s, p) \in Seq(Model) /\ Len(ModelsFor(s, p)) \in Nat
           /\ Range(ModelsFor(s, p)) = Range(s) \cap Of(p)
<1>1. ModelsFor(s, p) = Only(s, Of(p))
  BY DEF ModelsFor, Of
<1>2. Only(s, Of(p)) \in Seq(Model) /\ Range(Only(s, Of(p))) = Range(s) \cap Of(p)
  BY OnlyInSeq, OnlyRange
<1> QED
  BY <1>1, <1>2, LenProperties

\* A model more in the list is one more of its provider's, and of no other.
LEMMA ModelsForAppend ==
    ASSUME NEW s \in Seq(Model), NEW m \in Model, NEW p
    PROVE  /\ ProviderOf[m] = p => ModelsFor(Append(s, m), p) = Append(ModelsFor(s, p), m)
           /\ ProviderOf[m] # p => ModelsFor(Append(s, m), p) = ModelsFor(s, p)
<1> DEFINE R == Of(p)
<1>1. ModelsFor(Append(s, m), p) = Only(Append(s, m), R) /\ ModelsFor(s, p) = Only(s, R)
  BY DEF ModelsFor, Of
<1>2. m \in R <=> ProviderOf[m] = p
  BY DEF Of
<1> HIDE DEF R
<1>3. CASE m \in R
  <2>1. Only(Append(s, m), R) = Append(Only(s, R), m)
    BY <1>3, OnlyAppend
  <2> QED
    BY <1>1, <1>2, <1>3, <2>1
<1>4. CASE m \notin R
  <2>1. Only(Append(s, m), R) = Only(s, R)
    BY <1>4, OnlyAppend
  <2> QED
    BY <1>1, <1>2, <1>4, <2>1
<1> QED
  BY <1>3, <1>4

\* Every model has one of the four providers.
LEMMA LenByProvider ==
    ASSUME NEW s \in Seq(Model)
    PROVE  Len(s) = Len(ModelsFor(s, "ollama")) + Len(ModelsFor(s, "openai"))
                      + Len(ModelsFor(s, "gemini")) + Len(ModelsFor(s, "openrouter"))
<1> DEFINE A == Of("ollama")
           B == Of("openai")
           C == Of("gemini")
           D == Of("openrouter")
<1>1. /\ A \cap B = {} /\ (A \cup B) \cap C = {} /\ (A \cup B \cup C) \cap D = {}
      /\ A \cup B \cup C \cup D = Model
  BY ProviderAssumption DEF Of, Providers
<1> HIDE DEF A, B, C, D
<1>2. Range(s) \subseteq Model
  BY LenProperties DEF Range
<1>3. Only(s, A \cup B \cup C \cup D) = s
  BY <1>1, <1>2, OnlyAll
<1>4. Len(Only(s, A \cup B \cup C \cup D)) = Len(Only(s, A \cup B \cup C)) + Len(Only(s, D))
  BY <1>1, OnlyLen
<1>5. Len(Only(s, A \cup B \cup C)) = Len(Only(s, A \cup B)) + Len(Only(s, C))
  BY <1>1, OnlyLen
<1>6. Len(Only(s, A \cup B)) = Len(Only(s, A)) + Len(Only(s, B))
  BY <1>1, OnlyLen
<1>7. Len(s) = Len(Only(s, A)) + Len(Only(s, B)) + Len(Only(s, C)) + Len(Only(s, D))
  BY <1>3, <1>4, <1>5, <1>6
<1> QED
  BY <1>7 DEF A, B, C, D, ModelsFor, Of

(***************************************************************************)
(* Matching models.                                                        *)
(***************************************************************************)

\* Matching gives models of the configuration only.
LEMMA MatchingModels ==
    ASSUME NEW models \in Seq(Model), NEW name \in Names
    PROVE  Matching(models, name) \subseteq Range(models)
<1>1. \A s \in Seq(Model) : FirstOf(s) \subseteq Range(s)
  <2>1. TAKE s \in Seq(Model)
  <2>2. CASE s = <<>>
    BY <2>2 DEF FirstOf
  <2>3. CASE s # <<>>
    BY <2>3, RangeTail DEF FirstOf
  <2> QED
    BY <2>2, <2>3
<1>2. ASSUME NEW p
      PROVE  FirstOf(ModelsFor(models, p)) \subseteq Range(models)
  <2> DEFINE R == {m \in Model : ProviderOf[m] = p}
  <2>1. Only(models, R) \in Seq(Model) /\ Range(Only(models, R)) = Range(models) \cap R
    BY OnlyInSeq, OnlyRange
  <2> HIDE DEF R
  <2>2. FirstOf(Only(models, R)) \subseteq Range(models)
    BY <1>1, <2>1
  <2> QED
    BY <2>2 DEF ModelsFor, R
<1> QED
  BY <1>1, <1>2 DEF Matching, Names

\* Some name matches each model of the configuration, and none another one.
LEMMA MatchingAll ==
    ASSUME NEW s \in Seq(Model)
    PROVE  AnyMatching(s, Names) = Range(s)
<1>1. Range(s) = Matching(s, "*") /\ "*" \in Names
  <2>1. "*" \notin Model /\ "*" \notin Providers
    BY NameAssumption DEF Providers
  <2> QED
    BY <2>1 DEF Matching, Names
<1>2. ASSUME NEW n \in Names
      PROVE  Matching(s, n) \subseteq Range(s)
  BY MatchingModels
<1> QED
  BY <1>1, <1>2 DEF AnyMatching

=============================================================================
