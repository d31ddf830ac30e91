---------------------------- MODULE MCEventLoop ----------------------------
EXTENDS EventLoop

CONSTANTS Cmd, Sig, Tmr

\* The Commands source ties with the timer and yields to signals.
MCPriority == [s \in {Cmd, Sig, Tmr} |->
                  IF s = Sig THEN -10 ELSE 0]
====
