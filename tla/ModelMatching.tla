--------------------------- MODULE ModelMatching ---------------------------
(***************************************************************************)
(* The models of a DriaWorkflowsConfig (workflows/src/config.rs): a list   *)
(* of models, each with its provider, and the operators that select from   *)
(* it. A name in a task is "*", "!", the name of a provider or the name of *)
(* a model.                                                                *)
(***************************************************************************)
EXTENDS SequencesExt, Selection

CONSTANTS
    Model,       \* the models the workflows library knows
    ProviderOf   \* the provider of each

Providers == {"ollama", "openai", "gemini", "openrouter"}

ASSUME ProviderAssumption == ProviderOf \in [Model -> Providers]
ASSUME NameAssumption == Model \cap (Providers \cup {"*", "!"}) = {}

Names == Model \cup Providers \cup {"*", "!"}

\* the worker that runs the tasks of a model
KindOf(m) == IF ProviderOf[m] = "ollama" THEN "single" ELSE "batch"

ModelsFor(models, p) == Only(models, {m \in Model : ProviderOf[m] = p})

\* the first element, as a set
FirstOf(models) == IF models = <<>> THEN {} ELSE {Head(models)}

\* MUTANT: an API provider was forgotten
HasBatchableOpenAI(models) == \E m \in Range(models) : ProviderOf[m] = "openai"

HasBatchable(models) == \E m \in Range(models) : ProviderOf[m] # "ollama"

HasNonBatchable(models) == \E m \in Range(models) : ProviderOf[m] = "ollama"

\* what get_matching_model may return; empty: an error
Matching(models, name) ==
    CASE name = "*"         -> Range(models)
      [] name = "!"         -> FirstOf(models)
      [] name \in Providers -> FirstOf(ModelsFor(models, name))
      [] name \in Model     -> Range(models) \cap {name}
      [] OTHER              -> {}

\* what get_any_matching_model may return for a list of names
AnyMatching(models, names) == UNION {Matching(models, n) : n \in names}

=============================================================================
