------------------------------ MODULE LspStream ------------------------------
(***************************************************************************)
(* One stream, read by the server's loop (MessageReader) and written by    *)
(* every thread that sends: Context::SendMessage and the log subscriber of *)
(* lsp/server/Context.cc, which sends what is logged as another message.   *)
(* Both directions are one std::iostream with one state: where reading     *)
(* meets the end, writing stops too, and a write that fails ends reading.  *)
(*                                                                         *)
(* The trace level is chosen once: LspContext models how it changes.       *)
(***************************************************************************)
EXTENDS MessageReader

CONSTANTS
    Main, Worker,   \* the thread that reads, and the pool's threads
    Requests,       \* the members of JsonRpc that have an id
    Pieces,         \* insertions per message
    MaxLines        \* bound: lines logged of the threads' own accord

ASSUME StreamAssumption ==
    /\ Main \notin Worker /\ Requests \subseteq JsonRpc
    /\ Pieces \in Nat \ {0} /\ MaxLines \in Nat

VARIABLES
    level,      \* "off" (also before `initialized'), "messages" or "verbose"
    waiting,    \* messages read and not yet executed: indices of got
    pc,         \* of each thread: "idle", "lock", "write" or "log"
    sending,    \* of each thread: its message, and how much of it it inserted
    holder,     \* of m_os_lock
    out,        \* what has been written: pairs of a message and a piece number
    lines       \* lines logged

sendVars == <<level, waiting, pc, sending, holder, out, lines>>

streamVars == <<vars, sendVars>>

Thread == Worker \cup {Main}
Nobody == {}
Nothing == <<"none", 0>>

StreamInit ==
    /\ Init
    /\ level \in {"off", "messages", "verbose"}
    /\ waiting = {} /\ holder = Nobody /\ out = <<>> /\ lines = 0
    /\ pc = [t \in Thread |-> "idle"]
    /\ sending = [t \in Thread |-> [message |-> Nothing, piece |-> 0]]

Alive == state # "crashed"

Go(t, from, to) == Alive /\ pc[t] = from /\ pc' = [pc EXCEPT ![t] = to]

Begin(t, message) == sending' = [sending EXCEPT ![t] = [message |-> message, piece |-> 0]]
-----------------------------------------------------------------------------
\* The loop reads, while its thread executes nothing.
Read ==
    /\ pc[Main] = "idle"
    /\ ReadRequest
    /\ waiting' = IF Last(got') = Failed THEN waiting ELSE waiting \cup {Len(got')}
    /\ UNCHANGED <<level, pc, sending, holder, out, lines>>

\* Scheduler::Schedule leaves the message to a worker, or executes it itself
\* once no other waits (which, LspServer tells); a request comes to be answered.
Execute(t) ==
    \E n \in waiting :
        /\ t = Main => waiting = {n} /\ n = Len(got)
        /\ waiting' = waiting \ {n}
        /\ IF got[n] \in Requests
           THEN Go(t, "idle", "lock") /\ Begin(t, <<"reply", n>>)
           ELSE Go(t, "idle", "idle") /\ UNCHANGED sending
        /\ UNCHANGED <<vars, level, holder, out, lines>>

\* The subscriber, called with a line above Trace: it is sent at either level.
LogLine(t) ==
    /\ level # "off" /\ lines < MaxLines
    /\ Go(t, "idle", "lock") /\ Begin(t, <<"trace", lines + 1>>)
    /\ lines' = lines + 1
    /\ UNCHANGED <<vars, level, waiting, holder, out>>
-----------------------------------------------------------------------------
(* SendMessage *)

LockWithoutWaiting(t) ==
    /\ Go(t, "lock", "write") /\ holder' = {t}
    /\ UNCHANGED <<vars, level, waiting, sending, out, lines>>

Lock(t) ==
    /\ holder = Nobody
    /\ Go(t, "lock", "write") /\ holder' = {t}
    /\ UNCHANGED <<vars, level, waiting, sending, out, lines>>

Left(t) == sending[t].piece < Pieces

Advance(t) ==
    /\ Alive /\ pc[t] = "write" /\ Left(t)
    /\ sending' = [sending EXCEPT ![t] = [message |-> @.message, piece |-> @.piece + 1]]

\* An insertion into a stream that is not good inserts nothing.
Insert(t) ==
    /\ Advance(t)
    /\ out' = IF state = "reading"
              THEN Append(out, <<sending[t].message, sending[t].piece + 1>>) ELSE out
    /\ UNCHANGED <<vars, level, waiting, pc, holder, lines>>

\* badbit
InsertFails(t) ==
    /\ Advance(t) /\ state = "reading"
    /\ state' = "spoilt"
    /\ UNCHANGED <<sent, rest, got, level, waiting, pc, holder, out, lines>>

UnlockAfterLog(t) ==
    /\ ~Left(t)
    /\ IF sending[t].message[1] = "reply"
       THEN Go(t, "write", "log") /\ UNCHANGED holder
       ELSE Go(t, "write", "idle") /\ holder' = Nobody
    /\ UNCHANGED <<vars, level, waiting, sending, out, lines>>

\* The end of the critical section.  A transmission is logged after it, but for
\* that of a logged line.
Unlock(t) ==
    /\ ~Left(t)
    /\ Go(t, "write", IF sending[t].message[1] = "reply" THEN "log" ELSE "idle")
    /\ holder' = Nobody
    /\ UNCHANGED <<vars, level, waiting, sending, out, lines>>

\* "Wrote response", at Trace.
LogTransmission(t) ==
    /\ IF level = "verbose"
       THEN /\ Go(t, "log", "lock")
            /\ Begin(t, <<"transmission", sending[t].message[2]>>)
       ELSE Go(t, "log", "idle") /\ UNCHANGED sending
    /\ UNCHANGED <<vars, level, waiting, holder, out, lines>>

Send(t) == Lock(t) \/ Insert(t) \/ Unlock(t) \/ LogTransmission(t)

StreamNext ==
    \/ Read
    \/ \E t \in Thread : Execute(t) \/ LogLine(t) \/ Send(t) \/ InsertFails(t)

\* A thread that sends goes on; nobody needs to send or to read.
StreamSpec ==
    StreamInit /\ [][StreamNext]_streamVars /\ \A t \in Thread : WF_streamVars(Send(t))
-----------------------------------------------------------------------------
Whole == { i \in DOMAIN out : out[i][2] = Pieces }

\* The client gets whole messages, one after the other, each once: pieces of two
\* are never mixed, whoever sends and whatever is logged meanwhile.  Only the
\* last may be cut short, while it is being sent or for ever once the stream is
\* spoilt, and only then is a request that was executed left without its answer.
FramesWhole ==
    /\ \A i \in DOMAIN out :
         IF out[i][2] = 1 THEN i = 1 \/ i - 1 \in Whole
         ELSE out[i - 1] = <<out[i][1], out[i][2] - 1>>
    /\ \A i, j \in Whole : out[i][1] = out[j][1] => i = j
    /\ out # <<>> /\ Len(out) \notin Whole =>
         \/ state # "reading"
         \/ \E t \in Thread : holder = {t} /\ sending[t].message = Last(out)[1]
    /\ state = "reading" =>
         \A n \in DOMAIN got \ waiting : got[n] \in Requests =>
            \/ \E i \in Whole : out[i][1] = <<"reply", n>>
            \/ \E t \in Thread : sending[t].message = <<"reply", n>> /\ pc[t] # "idle"

\* No thread waits for ever to send: in particular what the log subscriber sends
\* does not wait for the lock that its own thread holds.
EverySendEnds == \A t \in Thread : pc[t] = "lock" ~> (pc[t] # "lock" \/ ~Alive)
=============================================================================
