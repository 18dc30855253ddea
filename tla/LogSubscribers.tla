--------------------------- MODULE LogSubscribers ---------------------------
(***************************************************************************)
(* Who hears the log: the subscribers of ncc::Log, which an Interpreter    *)
(* silences for its lifetime (core/cli/Interpreter.cc) and the lsp command *)
(* for the time it serves on standard output (lsp/Run.cc).  The log itself *)
(* belongs to libnitrate-core and is modelled as these two files use it.   *)
(*                                                                         *)
(* Interpreters may be nested, destroyed in any order and assigned over.   *)
(* LspCommand composes these steps with the command.                       *)
(***************************************************************************)

CONSTANTS
    Host,        \* subscribers of the program that embeds the interpreter
    Interpreter  \* interpreters the program constructs

FileLogger == "file_logger"

Subscriber == Host \cup Interpreter \cup {FileLogger}

ASSUME SubscriberAssumption ==
    /\ Host \cap Interpreter = {}
    /\ FileLogger \notin Host \cup Interpreter

VARIABLES
    subscribed,  \* on the list of the log
    suspended,   \* of these, the suspended ones
    state,       \* of each interpreter: "new", "alive", "gone", or "dropped" by an
                 \* assignment
    saved,       \* m_log_suspend_ids of each interpreter
    resumed      \* old_active_subscribers of the lsp command

logVars == <<subscribed, suspended, state, saved, resumed>>

LogInit ==
    /\ subscribed = {} /\ suspended = {}
    /\ state = [i \in Interpreter |-> "new"]
    /\ saved = [i \in Interpreter |-> {}]
    /\ resumed = {}

Hears == subscribed \ suspended

AnyAlive == \E i \in Interpreter : state[i] = "alive"
-----------------------------------------------------------------------------
\* What an embedding program does with its own subscribers.
HostStep ==
    /\ \E s \in Host :
         \/ /\ s \notin subscribed
            /\ subscribed' = subscribed \cup {s} /\ UNCHANGED suspended
         \/ subscribed' = subscribed \ {s} /\ suspended' = suspended \ {s}
         \/ s \in subscribed /\ suspended' = suspended \cup {s} /\ UNCHANGED subscribed
         \/ suspended' = suspended \ {s} /\ UNCHANGED subscribed
    /\ UNCHANGED <<state, saved, resumed>>

\* The subscribers the constructor takes down to resume later.
Collected == { s \in subscribed : s \in suspended }

\* Interpreter::Interpreter: collect, suspend all, subscribe.
Construct(i) ==
    /\ state[i] = "new"
    /\ state' = [state EXCEPT ![i] = "alive"]
    /\ saved' = [saved EXCEPT ![i] = Collected]
    /\ suspended' = subscribed
    /\ subscribed' = subscribed \cup {i}
    /\ UNCHANGED resumed

\* Interpreter::~Interpreter: Resume ignores those that are gone.
Destruct(i) ==
    /\ state[i] = "alive"
    /\ state' = [state EXCEPT ![i] = "gone"]
    /\ subscribed' = subscribed \ {i}
    /\ suspended' = (suspended \ {i}) \ saved[i]
    /\ UNCHANGED <<saved, resumed>>

\* Another interpreter is moved to this one: the defaulted assignment drops
\* what this one held and tells the log nothing.
MoveAssign(i) ==
    /\ state[i] = "alive" /\ \E j \in Interpreter \ {i} : state[j] # "new"
    /\ state' = [state EXCEPT ![i] = "dropped"]
    /\ UNCHANGED <<subscribed, suspended, saved, resumed>>

SilenceLikeInterpreter ==
    /\ resumed' = Collected
    /\ suspended' = subscribed
    /\ subscribed' = subscribed \cup {FileLogger}
    /\ UNCHANGED <<state, saved>>

SilenceSubscribedFirst ==
    /\ resumed' = subscribed \ suspended
    /\ subscribed' = subscribed \cup {FileLogger}
    /\ suspended' = subscribed'
    /\ UNCHANGED <<state, saved>>

\* The lsp command before it serves on standard output: remember who hears,
\* suspend all, subscribe the log file ...
Silence ==
    /\ resumed' = subscribed \ suspended
    /\ suspended' = subscribed
    /\ subscribed' = subscribed \cup {FileLogger}
    /\ UNCHANGED <<state, saved>>

\* ... and after it.
Unsilence ==
    /\ subscribed' = subscribed \ {FileLogger}
    /\ suspended' = suspended \ resumed
    /\ resumed' = {}
    /\ UNCHANGED <<state, saved>>

\* On a port it only subscribes the log file ...
LogToFile ==
    /\ subscribed' = subscribed \cup {FileLogger}
    /\ UNCHANGED <<suspended, state, saved, resumed>>

\* ... and removes it.
StopLogToFile ==
    /\ subscribed' = subscribed \ {FileLogger}
    /\ UNCHANGED <<suspended, state, saved, resumed>>
=============================================================================
