--------------------------- MODULE MCNodeLifecycle --------------------------
(***************************************************************************)
(* Two models of Ollama and one of each API provider, in lists of up to    *)
(* three: providers alone and together, out of their order, with two       *)
(* models of one provider and with one model given twice.                  *)
(***************************************************************************)
EXTENDS NodeLifecycle

MCProviderOf ==
    [llama |-> "ollama", phi |-> "ollama", gpt |-> "openai",
     flash |-> "gemini", qwen |-> "openrouter"]

=============================================================================
