---------------------------- MODULE MCBootstrap ----------------------------
EXTENDS Bootstrap

\* No statement on the t_* tables touches events, alerts or prompts, and none
\* of the others the t_* tables: beside events and alerts the commands that send
\* such statements are left out, beside edits of the lists those that do not.
MCCrowds == {{"users"}, {"events"}, {"alerts"}, {"lists"}}
MCCommands ==
    [c \in MCCrowds |->
        (IF c = {"lists"} THEN {} ELSE {"init", "load-demo"})
        \cup (IF c \subseteq {"events", "alerts"} THEN {}
              ELSE {"init-with-demo", "init-lyserver-compat"})]
=============================================================================
