---------------------------- MODULE MCEventQueue ----------------------------
EXTENDS EventQueue

CONSTANTS notice, work, broken

KindOf ==
    [m \in Messages |->
        CASE m = notice -> "notice"
          [] m = work -> "work"
          [] m = broken -> "broken"]
=============================================================================
