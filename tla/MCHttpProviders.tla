--------------------------- MODULE MCHttpProviders ---------------------------
(* A default provider, a fallback listed twice, an unusable one, a spare and  *)
(* providers that answer only when named.                                     *)
EXTENDS HttpProviders

CONSTANTS main, backup, broken, spare, slicer, gem   \* providers

MCFallbacks == <<broken, backup, main, spare, backup>>
MCStyle == [p \in Provider |->
    CASE p = main -> "openai" [] p = backup -> "compatible" [] p = spare -> "ollama"
      [] p = slicer -> "anthropic" [] OTHER -> "gemini"]
==============================================================================
