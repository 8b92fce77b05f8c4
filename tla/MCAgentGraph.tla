---- MODULE MCAgentGraph ----
(* Values for the constants of AgentGraph. *)
EXTENDS AgentGraph

MCCalls == {[tool |-> "search_private_knowledge", arg |-> "topic"],
            [tool |-> "search_web", arg |-> "topic"],
            [tool |-> "create_learning_reminder", arg |-> "a"],
            [tool |-> "update_learning_progress", arg |-> "b"]}

NoSkill == [workflow |-> FALSE, tools |-> {}]
WritingSkill == [workflow |-> TRUE,
                 tools |-> {"search_web", "create_learning_reminder", "update_learning_progress"}]
MCSkills == {NoSkill, WritingSkill}

(* A retrieved text may hold the number after the last source's, of both kinds. *)
MCQuotedMarks == [s |-> {2}, w |-> {2}]
====
