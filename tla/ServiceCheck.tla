---------------------------- MODULE ServiceCheck ----------------------------
(***************************************************************************)
(* check_services() of workflows/src/config.rs with the checks of the two  *)
(* search APIs and the four model providers it calls. Every request to the *)
(* outside is a step of its own: it is sent, and answered later or never.  *)
(*                                                                         *)
(* stage is the part of the check that runs; call the request it waits     *)
(* for, "none" before the first one and "each" at the head of a provider's *)
(* loop over its models. passes and seen only serve the properties.        *)
(***************************************************************************)
EXTENDS ModelMatching

CONSTANT MaxModels   \* bound: models in DKN_MODELS

ASSUME MaxModelsAssumption == MaxModels \in Nat \ {0}

VARIABLES
    models,   \* config.models, set again at the end of the check
    stage,
    call,
    todo,     \* the models the provider's loop has left
    listed,   \* the models the provider has, as far as this loop asks
    good,     \* good_models
    passes,   \* history: the tests each model passed
    seen      \* history: the models a provider's loop is done with

checkVars == <<models, stage, call, todo, listed, good, passes, seen>>

\* what Ollama must have for the workflows; pulled, not tested
Hardcoded == "embedder"

SearchAPIs == {"serper", "jina"}

\* the stage that follows
After == [idle |-> "serper", serper |-> "jina", jina |-> "ollama", ollama |-> "openai",
          openai |-> "gemini", gemini |-> "openrouter", openrouter |-> "end"]

Stages == DOMAIN After \cup {"end", "done", "failed"}
Calls  == {"none", "each", "search", "list", "fetch", "pull", "embed", "generate", "dummy"}

CheckInit ==
    /\ models = <<>>
    /\ stage = "idle"
    /\ call = "none"
    /\ todo = <<>>
    /\ listed = {}
    /\ good = <<>>
    /\ passes = [m \in Model |-> 0]
    /\ seen = {}

\* new_from_csv keeps the models it knows, in their order, repeated ones too
Configure ==
    /\ models' \in SeqOf(Model, MaxModels) \ {<<>>}
    /\ UNCHANGED <<stage, call, todo, listed, good, passes, seen>>

-----------------------------------------------------------------------------
(* From one stage to the next, and inside a stage.                         *)

GoTo(s) ==
    /\ stage' = s
    /\ call' = "none"
    /\ todo' = <<>>
    /\ listed' = {}

Ask(c) ==
    /\ call' = c
    /\ UNCHANGED <<models, stage, todo, listed, good, passes, seen>>

\* the loop is done with its first model
Drop ==
    /\ call' = "each"
    /\ todo' = Tail(todo)
    /\ seen' = seen \cup {Head(todo)}
    /\ UNCHANGED <<models, stage, listed, good, passes>>

Pass ==
    /\ call' = "each"
    /\ todo' = Tail(todo)
    /\ good' = Append(good, Head(todo))
    /\ passes' = [passes EXCEPT ![Head(todo)] = @ + 1]
    /\ seen' = seen \cup {Head(todo)}
    /\ UNCHANGED <<models, stage, listed>>

\* the loop has a model to look at
AtEach == call = "each" /\ todo # <<>>

-----------------------------------------------------------------------------
(* Steps of the check itself.                                              *)

BeginCheck == stage = "idle" /\ GoTo(After["idle"]) /\ UNCHANGED <<models, good, passes, seen>>

\* MUTANT: a provider without key is passed over too, its models unchecked
SkipWithoutKey ==
    /\ call = "none"
    /\ stage \in SearchAPIs \cup Providers
    /\ stage = "ollama" => ModelsFor(models, stage) = <<>>
    /\ GoTo(After[stage])
    /\ UNCHANGED <<models, good, passes, seen>>

\* a search API without key, or a provider without models
Skip ==
    /\ call = "none"
    /\ stage \in SearchAPIs \cup Providers
    /\ stage \in Providers => ModelsFor(models, stage) = <<>>
    /\ GoTo(After[stage])
    /\ UNCHANGED <<models, good, passes, seen>>

AskSearch == call = "none" /\ stage \in SearchAPIs /\ Ask("search")

\* OpenRouter has no list to ask for
BeginProvider ==
    /\ call = "none"
    /\ stage \in Providers
    /\ ModelsFor(models, stage) # <<>>
    /\ call' = CASE stage = "ollama"                -> "list"
                 [] stage \in {"openai", "gemini"}  -> "fetch"
                 [] OTHER                           -> "each"
    /\ todo' = IF stage = "openrouter" THEN ModelsFor(models, stage) ELSE <<>>
    /\ UNCHANGED <<models, stage, listed, good, passes, seen>>

\* the next model: missing in Ollama, it is pulled; missing in an account, ignored
AskModel ==
    /\ AtEach
    /\ IF stage = "ollama"
       THEN IF Head(todo) \notin listed THEN Ask("pull")
            ELSE IF Head(todo) = Hardcoded THEN Drop ELSE Ask("embed")
       ELSE IF stage \in {"openai", "gemini"} /\ Head(todo) \notin listed THEN Drop
            ELSE Ask("dummy")

EndProvider ==
    /\ call = "each" /\ todo = <<>>
    /\ GoTo(After[stage])
    /\ UNCHANGED <<models, good, passes, seen>>

\* MUTANT: the generation is awaited without the timer
GenerateWaits == FALSE

\* MUTANT: a model that takes too long is loaded and asked again
GenerateAsksAgain == call = "generate" /\ Ask("embed")

\* a model that takes too long is ignored
GenerateTimesOut == call = "generate" /\ Drop

CheckStep ==
    \/ BeginCheck \/ Skip \/ AskSearch \/ BeginProvider \/ AskModel \/ EndProvider
    \/ GenerateTimesOut

-----------------------------------------------------------------------------
(* Answers from the outside.                                               *)

\* any status but a client error will do
SearchAnswered ==
    /\ call = "search"
    /\ GoTo(After[stage])
    /\ UNCHANGED <<models, good, passes, seen>>

\* Ollama's local models, or those of the account; for Gemini a model counts as
\* listed when a listed name starts with it
Listed ==
    /\ call \in {"list", "fetch"}
    /\ LET wanted == ModelsFor(models, stage)
           queue  == IF stage = "ollama" THEN <<Hardcoded>> \o wanted ELSE wanted
       IN  todo' = queue /\ listed' \in SUBSET Range(queue)
    /\ call' = "each"
    /\ UNCHANGED <<models, stage, good, passes, seen>>

Pulled == call = "pull" /\ IF Head(todo) = Hardcoded THEN Drop ELSE Ask("embed")

\* the model is in memory, or could not be loaded and is ignored
Embedded == call = "embed" /\ (Ask("generate") \/ Drop)

\* fast enough and without error, or ignored
Tested == call \in {"generate", "dummy"} /\ (Pass \/ Drop)

CheckAnswered == SearchAnswered \/ Listed \/ Pulled \/ Embedded \/ Tested

-----------------------------------------------------------------------------
(* The end of the check.                                                   *)

\* MUTANT: the check that good models are left is missing
CheckPassesWithNone ==
    /\ stage = "end"
    /\ models' = good
    /\ good' = <<>>
    /\ GoTo("done")
    /\ UNCHANGED <<passes, seen>>

CheckPasses ==
    /\ stage = "end"
    /\ good # <<>>
    /\ models' = good
    /\ good' = <<>>
    /\ GoTo("done")
    /\ UNCHANGED <<passes, seen>>

\* a request that must succeed does not, a provider has no key, a model is missing
\* with auto-pull off, or no good model is left
CheckFails ==
    /\ \/ call \in {"search", "list", "fetch", "pull"}
       \/ stage \in Providers \ {"ollama"} /\ call = "none" /\ ModelsFor(models, stage) # <<>>
       \/ stage = "ollama" /\ AtEach /\ Head(todo) \notin listed
       \/ stage = "end" /\ good = <<>>
    /\ GoTo("failed")
    /\ good' = <<>>
    /\ UNCHANGED <<models, passes, seen>>

-----------------------------------------------------------------------------
CheckTypeOK ==
    /\ models \in SeqOf(Model, MaxModels)
    /\ stage \in Stages
    /\ call \in Calls
    /\ Range(todo) \subseteq Model \cup {Hardcoded}
    /\ listed \subseteq Model \cup {Hardcoded}
    /\ good \in SeqOf(Model, MaxModels)
    /\ passes \in [Model -> 0 .. MaxModels]
    /\ seen \subseteq Model \cup {Hardcoded}

\* The stages the check has still to come to, and the steps left in the one it is in: a
\* model of Ollama takes four, the pull, the embedding, the generation and the next one.
StagesLeft(s) ==
    CASE s = "idle"   -> 8  [] s = "serper" -> 7  [] s = "jina"   -> 6
      [] s = "ollama" -> 5  [] s = "openai" -> 4  [] s = "gemini" -> 3
      [] s = "openrouter" -> 2  [] s = "end" -> 1  [] OTHER -> 0

CallsLeft ==
    CASE call = "none"             -> 4 * MaxModels + 6
      [] call \in {"list", "fetch"} -> 4 * MaxModels + 5
      [] call = "search"           -> 0
      [] call = "each"             -> 4 * Len(todo)
      [] call = "pull"             -> 4 * Len(todo) - 1
      [] call = "embed"            -> 4 * Len(todo) - 2
      [] OTHER                     -> 4 * Len(todo) - 3

=============================================================================
