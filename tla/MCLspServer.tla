----------------------------- MODULE MCLspServer ------------------------------
(* Clients for the runs of LspServer: families of short message sequences, *)
(* each long enough for two messages on two threads to meet a third.       *)
EXTENDS LspServer, TLC

CONSTANTS w1, w2

MCWorkers == {w1, w2}
MCOneWorker == {w1}
MCThreads == MCWorkers \cup {Main}
MCTwoThreads == MCOneWorker \cup {Main}

Plain(method) == [method |-> method, value |-> "absent", edits |-> <<>>]
WithValue(method, v) == [Plain(method) EXCEPT !.value = v]
Change(e) == [Plain("didChange") EXCEPT !.edits = e]

Hello == Plain("initialize")
Comp == Plain("completion")
TwoEdits == Change(<<"ok", "ok">>)
FailingEdit == Change(<<"ok", "bad", "ok">>)
Trace(v) == WithValue("setTrace", v)

UpTo(n, S) == UNION {[1..k -> S] : k \in 0..n}

(* Three messages about an open document; three completions before a       *)
(* write, one more than there are threads.                                 *)
MCDocInputs ==
  {<<Hello, Plain("didOpen")>> \o s :
     s \in [1..3 -> {Comp, TwoEdits, FailingEdit, Plain("didClose")}]}
  \cup {<<Hello, Plain("didOpen"), Comp, Comp, Comp, TwoEdits>>}

(* Everything about the life of a session.                                 *)
MCLifeMessages ==
  {Hello, WithValue("initialize", "invalid"), Plain("initialized"),
   Plain("shutdown"), Plain("exit"), Comp, Plain("unknownRequest"),
   Plain("unknownNotification"), Plain("didOpen"), Plain("didSave"),
   WithValue("didClose", "invalid"), Trace("off"), Unreadable}
MCLifeInputs == [1..3 -> MCLifeMessages]

(* An exit that is lost twice, with an `initialize' ignored in between.    *)
MCLostExitInputs ==
  {<<Comp, Comp, Plain("exit"), Comp, Hello, Plain("shutdown")>>}

MCSafetyInputs == MCDocInputs \cup MCLifeInputs \cup MCLostExitInputs

(* Liveness: requests, an exit, unreadable messages.                       *)
MCLiveInputs ==
  {<<Hello>> \o s :
     s \in [1..3 -> {Comp, Plain("shutdown"), Plain("exit"), Unreadable}]}

(* A client whose exit is lost.                                            *)
MCExitInputs == {<<Hello, Comp, Plain("exit")>>}

(* MaxInput for all of them.                                               *)
MCMaxInput == 6

MCSymmetry == Permutations(MCWorkers)
===============================================================================
