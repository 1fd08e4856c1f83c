----------------------------- MODULE MCRequestFlow -----------------------------
(* A small instance of RequestFlow: two requests, a template of the user and *)
(* one of somebody else, and bodies for every way through resolvePrompt.     *)
EXTENDS RequestFlow

CONSTANTS r1, r2, alice, bob, own, foreign

MCOwner == [t \in Templates |-> IF t = own THEN alice ELSE bob]
MCHoles == [t \in Templates |-> {"name"}]
MCModels == [p \in Providers |-> IF p = "gemini" THEN {"flash"} ELSE {"llama"}]

Body(route, prompt, template, variables, provider, model) ==
  [route |-> route, prompt |-> prompt, template |-> template, variables |-> variables,
   provider |-> provider, model |-> model]

MCDtos ==
  { Body("complete", TRUE, NoTemplate, {}, "gemini", "default"),
    Body("complete", TRUE, NoTemplate, {}, "groq", "llama"),
    Body("complete", FALSE, own, {"name"}, "groq", "flash"),
    Body("complete", FALSE, own, {}, "gemini", "default"),
    Body("complete", FALSE, foreign, {}, "gemini", "default"),
    Body("complete", TRUE, own, {"name"}, "gemini", "default"),
    Body("async", TRUE, NoTemplate, {}, "gemini", "default"),
    Body("async", FALSE, NoTemplate, {}, "groq", "default") }
=============================================================================
