--------------------------- MODULE InterpreterLog ---------------------------
(***************************************************************************)
(* Interpreters among the log subscribers of a program that executes no    *)
(* command: what they silence and what they give back.                     *)
(***************************************************************************)
EXTENDS LogSubscribers

VARIABLE heard    \* history: of each interpreter, who heard the log before it

Init == LogInit /\ heard = [i \in Interpreter |-> {}]

Build(i) == Construct(i) /\ heard' = [heard EXCEPT ![i] = Hears]

Next ==
    \/ \E i \in Interpreter : Build(i)
    \/ /\ HostStep \/ \E i \in Interpreter : Destruct(i) \/ MoveAssign(i)
       /\ UNCHANGED heard

Spec == Init /\ [][Next]_<<logVars, heard>>

\* "Resume all log subscribers that were active before the interpreter was
\* created.  If any if these subscriptions were removed externally Log->Resume
\* will simply ignore them" (core/cli/Interpreter.cc:231).
ActiveResumed ==
    [][\A i \in Interpreter :
         state[i] = "alive" /\ state'[i] = "gone" =>
           heard[i] \cap subscribed' \subseteq Hears']_<<logVars, heard>>
=============================================================================
