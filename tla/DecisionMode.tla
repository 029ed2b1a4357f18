---------------------------- MODULE DecisionMode ----------------------------
(* What decides for the agent, chosen when it starts: "local", the default *)
(* policy; "learned", a neural one that may prefer any option it is shown; *)
(* or a language model: "llm", one that says what it likes, if anything,   *)
(* "silent", one whose requests fail, "dry_run", the script in its place.  *)
VARIABLE policy

LanguageModels == {"llm", "silent", "dry_run"}
Policies == {"local", "learned"} \union LanguageModels

(* think: what may come back for a prompt, the empty set for a failure.    *)
Thoughts(said, scripted) ==
    CASE policy = "llm"     -> {{x} : x \in said} \union {{}}
      [] policy = "silent"  -> {{}}
      [] policy = "dry_run" -> {{scripted}}

(* The handler checks the answer; one that it does not let pass, or none,  *)
(* is replaced by its fallback.  The guardrail is not asked.               *)
Decided(thoughts, valid, fallback) ==
    UNION {IF t \intersect valid # {} THEN t ELSE {fallback} : t \in thoughts}
=============================================================================
