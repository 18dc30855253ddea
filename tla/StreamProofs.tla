----------------------------- MODULE StreamProofs -----------------------------
(***************************************************************************)
(* The server's stream, for any client, any number of threads and of       *)
(* pieces, any lines logged and a failure of any write: the client gets    *)
(* whole messages, each once.                                              *)
(*                                                                         *)
(* The lock makes one thread the writer, and what is written ends with as  *)
(* much of its message as it has inserted.  That no message is sent twice  *)
(* is a matter of where messages come from: a reply is begun when its      *)
(* request leaves the ones that wait, the line that logs the reply when    *)
(* the reply is given up, and a line of the threads' own has a number.     *)
(*                                                                         *)
(* The other direction follows: whatever was sent, no message is read that *)
(* was not, and well framed messages are read one by one.                  *)
(***************************************************************************)
EXTENDS LspStream, Recursion

ThreadPc == {"idle", "lock", "write", "log"}
Message == {"none", "reply", "transmission", "trace"} \X Nat

StreamTypeOK ==
  /\ got \in Seq({got[i] : i \in DOMAIN got})
  /\ waiting \subseteq 1..Len(got)
  /\ pc \in [Thread -> ThreadPc]
  /\ sending \in [Thread -> [message : Message, piece : 0..Pieces]]
  /\ holder \subseteq Thread
  /\ out \in Seq(Message \X (1..Pieces))
  /\ lines \in Nat

(* Who writes holds the lock.                                              *)
OneWriter ==
  /\ \A t \in Thread : pc[t] = "write" <=> holder = {t}
  /\ holder = Nobody \/ \E t \in Thread : holder = {t}
  /\ \A t \in Thread : pc[t] = "lock" => sending[t].piece = 0
  /\ \A t \in Thread : pc[t] = "log" => sending[t].message[1] = "reply"

Active(t) == pc[t] # "idle"
Sent(m) == \E i \in Whole : out[i][1] = m
Begun(m) == Sent(m) \/ \E t \in Thread : Active(t) /\ sending[t].message = m

(* What has been begun had a reason to be.                                 *)
Origins ==
  \A n \in Nat :
    /\ Begun(<<"reply", n>>) => n \in 1..Len(got) /\ n \notin waiting
    /\ Begun(<<"transmission", n>>) => n \in 1..Len(got) /\ n \notin waiting
    /\ Begun(<<"trace", n>>) => n <= lines

(* No message is in two hands, or in one that has not written all of it    *)
(* and already written; a reply in hand has not been logged.               *)
EachOnce ==
  /\ \A s, t \in Thread : Active(s) /\ Active(t) /\ s # t => sending[s].message # sending[t].message
  /\ \A t \in Thread :
       /\ pc[t] \in {"lock", "write"} /\ sending[t].piece < Pieces => ~Sent(sending[t].message)
       /\ Active(t) => sending[t].message[1] # "none"
       /\ Active(t) /\ sending[t].message[1] = "reply" =>
            ~Begun(<<"transmission", sending[t].message[2]>>)
  /\ \A i, j \in Whole : out[i][1] = out[j][1] => i = j

Between == out = <<>> \/ Len(out) \in Whole

(* What is written, and how it ends.                                       *)
Written ==
  /\ \A i \in DOMAIN out :
       IF out[i][2] = 1 THEN i = 1 \/ i - 1 \in Whole
       ELSE i > 1 /\ out[i - 1] = <<out[i][1], out[i][2] - 1>>
  /\ state = "reading" =>
       /\ holder = Nobody => Between
       /\ \A t \in Thread : holder = {t} =>
            IF sending[t].piece = 0 THEN Between
            ELSE out # <<>> /\ out[Len(out)] = <<sending[t].message, sending[t].piece>>

(* What was executed is answered, or being answered.                       *)
Answered ==
  state = "reading" =>
    /\ \A n \in 1..Len(got) : n \notin waiting /\ got[n] \in Requests =>
         Begun(<<"reply", n>>)
    /\ \A t \in Thread : pc[t] = "log" => Sent(sending[t].message)

WInv == StreamTypeOK /\ OneWriter /\ Origins /\ EachOnce /\ Written /\ Answered

-------------------------------------------------------------------------------
(* Of what a step of the writer's changes.                                 *)
LEMMA AdvanceIs ==
  ASSUME StreamTypeOK, NEW t \in Thread, Advance(t)
  PROVE  /\ pc[t] = "write" /\ sending[t].piece \in Nat /\ sending[t].piece + 1 \in 1..Pieces
         /\ sending' \in [Thread -> [message : Message, piece : 0..Pieces]]
         /\ \A s \in Thread : sending'[s].message = sending[s].message
         /\ sending'[t].piece = sending[t].piece + 1
         /\ \A s \in Thread \ {t} : sending'[s] = sending[s]
<1>1. /\ sending[t] \in [message : Message, piece : 0..Pieces] /\ Pieces \in Nat
      /\ sending' = [sending EXCEPT ![t] = [message |-> @.message, piece |-> @.piece + 1]]
  BY StreamAssumption DEF StreamTypeOK, Advance
<1>2. pc[t] = "write" /\ sending[t].piece + 1 \in 1..Pieces
  BY <1>1 DEF Advance, Left
<1>3. sending' = [sending EXCEPT ![t] = [message |-> sending[t].message,
                                          piece |-> sending[t].piece + 1]]
  BY <1>1
<1>4. sending \in [Thread -> [message : Message, piece : 0..Pieces]]
  BY DEF StreamTypeOK
<1>5. sending[t].piece \in Nat /\ [message |-> sending[t].message, piece |-> sending[t].piece + 1]
        \in [message : Message, piece : 0..Pieces]
  BY <1>1, <1>2
<1> QED
  BY <1>2, <1>3, <1>4, <1>5

(* Sequences grow at their end.                                            *)
LEMMA OutIs ==
  ASSUME StreamTypeOK
  PROVE  /\ Len(out) \in Nat /\ DOMAIN out = 1..Len(out)
         /\ \A i \in DOMAIN out : out[i] \in Message \X (1..Pieces)
BY DEF StreamTypeOK

LEMMA GotGrows ==
  ASSUME StreamTypeOK, ReadRequest
  PROVE  /\ Len(got) \in Nat /\ Len(got') = Len(got) + 1
         /\ got' \in Seq({got'[i] : i \in DOMAIN got'})
         /\ \A n \in 1..Len(got) : got'[n] = got[n]
<1> DEFINE S == {got[i] : i \in DOMAIN got}
<1>1. PICK m : got' = Append(got, m)
  BY DEF ReadRequest
<1>2. got \in Seq(S \cup {m}) /\ got \in Seq(S)
  BY DEF StreamTypeOK
<1>3. got' \in Seq(S \cup {m}) /\ Len(got') = Len(got) + 1
      /\ \A n \in 1..Len(got) : got'[n] = got[n]
      /\ got'[Len(got) + 1] = m
  BY <1>1, <1>2
<1>4. got' \in Seq({got'[i] : i \in DOMAIN got'})
  BY <1>3
<1> QED
  BY <1>2, <1>3, <1>4

-------------------------------------------------------------------------------
LEMMA ReadTyped ==
  ASSUME WInv, Read PROVE StreamTypeOK' /\ OneWriter'
<1> USE DEF WInv, Read, ReadRequest
<1>1. /\ Len(got) \in Nat /\ Len(got') = Len(got) + 1
      /\ got' \in Seq({got'[i] : i \in DOMAIN got'})
  BY GotGrows
<1>2. waiting' \subseteq waiting \cup {Len(got')}
  OBVIOUS
<1>3. waiting' \subseteq 1..Len(got')
  <2>1. waiting \subseteq 1..Len(got)
    BY DEF StreamTypeOK
  <2>2. Len(got) \in Nat /\ Len(got') = Len(got) + 1
    BY <1>1
  <2>3. 1..Len(got) \subseteq 1..Len(got') /\ Len(got') \in 1..Len(got')
    BY <2>2
  <2> QED
    BY <1>2, <2>1, <2>3
<1>4. UNCHANGED <<pc, sending, holder, out, lines>>
  OBVIOUS
<1>5. StreamTypeOK'
  BY <1>1, <1>3, <1>4 DEF StreamTypeOK
<1>6. OneWriter'
  BY <1>4 DEF OneWriter
<1> QED
  BY <1>5, <1>6

LEMMA ThreadStepTyped ==
  ASSUME WInv, NEW t \in Thread,
         Execute(t) \/ LogLine(t) \/ Send(t) \/ InsertFails(t)
  PROVE  /\ StreamTypeOK' /\ OneWriter'
         /\ UNCHANGED <<got, rest, sent, level>> /\ waiting' \subseteq waiting
         /\ \A s \in Thread \ {t} : pc'[s] = pc[s] /\ sending'[s] = sending[s]
<1> USE DEF WInv, vars
<1>1. /\ pc \in [Thread -> ThreadPc] /\ lines \in Nat /\ Pieces \in Nat
      /\ sending \in [Thread -> [message : Message, piece : 0..Pieces]]
      /\ waiting \subseteq 1..Len(got) /\ Len(got) \in Nat
      /\ out \in Seq(Message \X (1..Pieces)) /\ holder \subseteq Thread
  BY StreamAssumption DEF StreamTypeOK
<1>2. ASSUME NEW m \in Message
      PROVE  /\ [message |-> m, piece |-> 0] \in [message : Message, piece : 0..Pieces]
             /\ [message |-> m, piece |-> 0].piece = 0
  BY <1>1
<1>3. ASSUME NEW m \in Message, Begin(t, m), pc[t] \in {"idle", "log"}, pc' = [pc EXCEPT ![t] = "lock"],
             UNCHANGED <<got, rest, sent, level, holder, out>>, waiting' \subseteq waiting, lines' \in Nat
      PROVE  /\ StreamTypeOK' /\ OneWriter'
             /\ \A s \in Thread \ {t} : pc'[s] = pc[s] /\ sending'[s] = sending[s]
  <2>1. /\ sending' \in [Thread -> [message : Message, piece : 0..Pieces]]
        /\ sending'[t].piece = 0 /\ pc'[t] = "lock" /\ pc' \in [Thread -> ThreadPc]
        /\ \A s \in Thread \ {t} : pc'[s] = pc[s] /\ sending'[s] = sending[s]
    BY <1>1, <1>2, <1>3 DEF Begin, ThreadPc
  <2>2. StreamTypeOK'
    BY <1>3, <2>1 DEF StreamTypeOK
  <2>3. OneWriter'
    BY <1>3, <2>1 DEF OneWriter
  <2> QED
    BY <2>1, <2>2, <2>3
<1>4. CASE Execute(t)
  <2>1. PICK n \in waiting :
          /\ waiting' = waiting \ {n}
          /\ IF got[n] \in Requests
             THEN Go(t, "idle", "lock") /\ Begin(t, <<"reply", n>>)
             ELSE Go(t, "idle", "idle") /\ UNCHANGED sending
          /\ UNCHANGED <<vars, level, holder, out, lines>>
    BY <1>4 DEF Execute
  <2>2. n \in Nat /\ <<"reply", n>> \in Message
    BY <1>1 DEF Message
  <2>3. CASE got[n] \in Requests
    BY <1>1, <1>3, <2>1, <2>2, <2>3 DEF Go
  <2>4. CASE got[n] \notin Requests
    <3>1. pc' = pc /\ sending' = sending
      BY <1>1, <2>1, <2>4 DEF Go
    <3>2. StreamTypeOK' /\ OneWriter'
      BY <2>1, <3>1 DEF StreamTypeOK, OneWriter
    <3> QED
      BY <2>1, <3>1, <3>2
  <2> QED
    BY <2>3, <2>4
<1>5. CASE LogLine(t)
  <2>1. lines + 1 \in Nat /\ <<"trace", lines + 1>> \in Message
    BY <1>1 DEF Message
  <2>2. /\ Begin(t, <<"trace", lines + 1>>) /\ pc[t] = "idle" /\ pc' = [pc EXCEPT ![t] = "lock"]
        /\ UNCHANGED <<got, rest, sent, level, holder, out, waiting>> /\ lines' = lines + 1
    BY <1>5 DEF LogLine, Go
  <2> QED
    BY <1>3, <2>1, <2>2
<1>6. CASE LogTransmission(t)
  <2>1. UNCHANGED <<got, rest, sent, level, holder, out, waiting, lines>>
    BY <1>6 DEF LogTransmission
  <2>2. CASE level = "verbose"
    <3>1. sending[t].message[2] \in Nat
      BY <1>1 DEF Message
    <3>2. <<"transmission", sending[t].message[2]>> \in Message
      BY <3>1 DEF Message
    <3>3. /\ Begin(t, <<"transmission", sending[t].message[2]>>)
          /\ pc[t] = "log" /\ pc' = [pc EXCEPT ![t] = "lock"]
      BY <1>6, <2>2 DEF LogTransmission, Go
    <3> QED
      BY <1>1, <1>3, <2>1, <3>2, <3>3
  <2>3. CASE level # "verbose"
    <3>1. pc[t] = "log" /\ pc' = [pc EXCEPT ![t] = "idle"] /\ sending' = sending
      BY <1>6, <2>3 DEF LogTransmission, Go
    <3>2. StreamTypeOK'
      BY <1>1, <2>1, <3>1 DEF StreamTypeOK, ThreadPc
    <3>3. OneWriter'
      BY <1>1, <2>1, <3>1 DEF OneWriter
    <3> QED
      BY <1>1, <2>1, <3>1, <3>2, <3>3
  <2> QED
    BY <2>2, <2>3
<1>7. CASE Lock(t)
  <2>1. /\ pc[t] = "lock" /\ pc' = [pc EXCEPT ![t] = "write"] /\ holder = {} /\ holder' = {t}
        /\ UNCHANGED <<got, rest, sent, level, out, waiting, lines, sending>>
    BY <1>7 DEF Lock, Go, Nobody
  <2>2. StreamTypeOK'
    BY <1>1, <2>1 DEF StreamTypeOK, ThreadPc
  <2>3. \A s \in Thread : pc[s] # "write"
    BY <2>1 DEF OneWriter
  <2>4. OneWriter'
    BY <1>1, <2>1, <2>3 DEF OneWriter
  <2> QED
    BY <1>1, <2>1, <2>2, <2>4
<1>8. CASE Unlock(t)
  <2>1. /\ pc[t] = "write" /\ holder' = {}
        /\ pc' = [pc EXCEPT ![t] = IF sending[t].message[1] = "reply" THEN "log" ELSE "idle"]
        /\ UNCHANGED <<got, rest, sent, level, out, waiting, lines, sending>>
    BY <1>8 DEF Unlock, Go, Nobody
  <2>2. StreamTypeOK'
    BY <1>1, <2>1 DEF StreamTypeOK, ThreadPc
  <2>3. \A s \in Thread : pc[s] = "write" => s = t
    BY <2>1 DEF OneWriter
  <2>4. OneWriter'
    BY <1>1, <2>1, <2>3 DEF OneWriter, Nobody, ThreadPc
  <2> QED
    BY <1>1, <2>1, <2>2, <2>4
<1>9. CASE Insert(t) \/ InsertFails(t)
  <2>1. Advance(t) /\ UNCHANGED <<got, rest, sent, level, waiting, pc, holder, lines>>
    BY <1>9 DEF Insert, InsertFails
  <2>2. out' \in Seq(Message \X (1..Pieces))
    <3>1. <<sending[t].message, sending[t].piece + 1>> \in Message \X (1..Pieces)
      BY <1>1, <2>1, AdvanceIs
    <3>2. out' = out \/ out' = Append(out, <<sending[t].message, sending[t].piece + 1>>)
      BY <1>9 DEF Insert, InsertFails
    <3> DEFINE S == Message \X (1..Pieces)
    <3>3. \A e \in S : Append(out, e) \in Seq(S)
      <4> HIDE DEF S
      <4>1. out \in Seq(S)
        BY <1>1 DEF S
      <4> QED
        BY <4>1
    <3> QED
      BY <1>1, <3>1, <3>2, <3>3
  <2>3. StreamTypeOK'
    BY <2>1, <2>2, AdvanceIs DEF StreamTypeOK
  <2>4. OneWriter'
    BY <2>1, AdvanceIs DEF OneWriter
  <2> QED
    BY <2>1, <2>3, <2>4, AdvanceIs
<1> QED
  BY <1>4, <1>5, <1>6, <1>7, <1>8, <1>9 DEF Send

-------------------------------------------------------------------------------
(* A step that neither writes nor begins a message.                        *)
LEMMA NothingBegun ==
  ASSUME WInv, UNCHANGED <<out, sending>>, lines' = lines,
         \A s \in Thread : /\ pc'[s] # "idle" => pc[s] # "idle"
                           /\ pc'[s] \in {"lock", "write"} => pc[s] \in {"lock", "write"},
         \A n \in 1..Len(got) : n \notin waiting => n \in 1..Len(got') /\ n \notin waiting'
  PROVE  Origins' /\ EachOnce'
<1> USE DEF WInv
<1>1. Whole' = Whole /\ \A m : Sent(m)' <=> Sent(m)
  BY DEF Whole, Sent
<1>2. \A m : Begun(m)' => Begun(m)
  BY <1>1 DEF Begun, Active
<1>3. Origins'
  BY <1>2 DEF Origins
<1>4. \A s \in Thread : Active(s)' => Active(s)
  BY DEF Active
<1>5. EachOnce'
  BY <1>1, <1>2, <1>4 DEF EachOnce
<1> QED
  BY <1>3, <1>5

(* A step that begins a message that has not been begun.                   *)
LEMMA OneBegun ==
  ASSUME WInv, NEW t \in Thread, NEW m \in Message, m[1] # "none", ~Begun(m), Begin(t, m),
         pc' = [pc EXCEPT ![t] = "lock"], got' = got, out' = out,
         waiting' \subseteq waiting, lines' \in Nat, lines <= lines',
         \A n \in Nat :
           /\ m = <<"reply", n>> => /\ n \in 1..Len(got) /\ n \notin waiting'
                                    /\ ~Begun(<<"transmission", n>>)
           /\ m = <<"transmission", n>> =>
                /\ n \in 1..Len(got) /\ n \notin waiting'
                /\ \A s \in Thread \ {t} : Active(s) => sending[s].message # <<"reply", n>>
           /\ m = <<"trace", n>> => n <= lines'
  PROVE  Origins' /\ EachOnce'
<1> USE DEF WInv
<1>1. Whole' = Whole /\ \A k : Sent(k)' <=> Sent(k)
  BY DEF Whole, Sent
<1>2. /\ sending'[t].message = m /\ sending'[t].piece = 0 /\ pc'[t] = "lock"
      /\ \A s \in Thread \ {t} : sending'[s] = sending[s] /\ pc'[s] = pc[s]
  BY DEF Begin, StreamTypeOK
<1>3. \A k : Begun(k)' => k = m \/ Begun(k)
  BY <1>1, <1>2 DEF Begun, Active
<1>4. Origins'
  <2> SUFFICES ASSUME NEW n \in Nat
               PROVE  /\ Begun(<<"reply", n>>)' => n \in 1..Len(got) /\ n \notin waiting'
                      /\ Begun(<<"transmission", n>>)' => n \in 1..Len(got) /\ n \notin waiting'
                      /\ Begun(<<"trace", n>>)' => n <= lines'
    BY DEF Origins
  <2>1. lines \in Nat
    BY DEF StreamTypeOK
  <2>2. n <= lines => n <= lines'
    BY <2>1
  <2> QED
    BY <1>3, <2>2 DEF Origins
<1>5. \A s, u \in Thread : Active(s)' /\ Active(u)' /\ s # u =>
        sending'[s].message # sending'[u].message
  BY <1>2 DEF EachOnce, Active, Begun
<1>6. ASSUME NEW s \in Thread, NEW k, k = sending'[s].message,
             pc'[s] \in {"lock", "write"}, sending'[s].piece < Pieces
      PROVE  ~Sent(k)'
  <2>1. CASE s = t
    BY <1>1, <1>2, <1>6, <2>1 DEF Begun
  <2>2. CASE s # t
    BY <1>1, <1>2, <1>6, <2>2 DEF EachOnce
  <2> QED
    BY <2>1, <2>2
<1>7. ASSUME NEW s \in Thread, NEW k, k = sending'[s].message, Active(s)'
      PROVE  /\ k[1] # "none"
             /\ k[1] = "reply" => ~Begun(<<"transmission", k[2]>>)'
  <2>1. CASE s = t
    <3>1. m[1] = "reply" => m = <<"reply", m[2]>> /\ m[2] \in Nat
      BY DEF Message
    <3>2. m[1] = "reply" => ~Begun(<<"transmission", m[2]>>) /\ <<"transmission", m[2]>> # m
      BY <3>1
    <3> QED
      BY <1>2, <1>3, <1>7, <2>1, <3>2
  <2>2. CASE s # t
    <3>1. Active(s) /\ k = sending[s].message
      BY <1>2, <1>7, <2>2 DEF Active
    <3>2. k \in Message
      BY <3>1 DEF StreamTypeOK
    <3>3. k[1] = "reply" => k = <<"reply", k[2]>> /\ k[2] \in Nat
      BY <3>2 DEF Message
    <3>4. k[1] = "reply" => m # <<"transmission", k[2]>>
      BY <2>2, <3>1, <3>3
    <3>5. k[1] # "none" /\ (k[1] = "reply" => ~Begun(<<"transmission", k[2]>>))
      BY <3>1 DEF EachOnce
    <3> QED
      BY <1>3, <3>4, <3>5
  <2> QED
    BY <2>1, <2>2
<1>8. \A i, j \in Whole' : out'[i][1] = out'[j][1] => i = j
  BY <1>1 DEF EachOnce
<1>9. EachOnce'
  BY <1>5, <1>6, <1>7, <1>8 DEF EachOnce, Sent, Begun, Active
<1> QED
  BY <1>4, <1>9

(* A step that writes one more piece, or none.                             *)
LEMMA OneWritten ==
  ASSUME WInv, NEW t \in Thread, Advance(t), UNCHANGED <<got, waiting, pc, lines>>,
         out' \in {out, Append(out, <<sending[t].message, sending[t].piece + 1>>)}
  PROVE  /\ Origins' /\ EachOnce'
         /\ Whole' \subseteq DOMAIN out' /\ Whole = { i \in Whole' : i <= Len(out) }
         /\ \A m : Sent(m) => Sent(m)'
<1> USE DEF WInv
<1>1. /\ pc[t] = "write" /\ sending[t].piece < Pieces /\ sending[t].piece \in Nat /\ Pieces \in Nat
      /\ sending[t].message \in Message
      /\ \A s \in Thread : sending'[s].message = sending[s].message
      /\ sending'[t].piece = sending[t].piece + 1
      /\ \A s \in Thread \ {t} : sending'[s] = sending[s]
  BY AdvanceIs, StreamAssumption DEF Advance, Left, StreamTypeOK
<1>2. /\ Len(out) \in Nat /\ DOMAIN out = 1..Len(out)
      /\ \A i \in DOMAIN out : i \in DOMAIN out' /\ out'[i] = out[i]
      /\ \A i \in DOMAIN out' :
           \/ i \in DOMAIN out
           \/ /\ i = Len(out) + 1
              /\ out'[i] = <<sending[t].message, sending[t].piece + 1>>
  <2> DEFINE e == <<sending[t].message, sending[t].piece + 1>>
  <2>1. Len(out) \in Nat /\ DOMAIN out = 1..Len(out)
    BY OutIs
  <2>2. out \in Seq(Message \X (1..Pieces))
    BY DEF StreamTypeOK
  <2>3. CASE out' = out
    BY <2>1, <2>3
  <2>4. CASE out' = Append(out, e)
    <3> HIDE DEF e
    <3>1. /\ Len(out') = Len(out) + 1 /\ DOMAIN out' = 1..Len(out')
          /\ \A i \in 1..Len(out) : out'[i] = out[i]
          /\ out'[Len(out) + 1] = e
      BY <2>2, <2>4
    <3> QED
      BY <2>1, <3>1 DEF e
  <2> QED
    BY <2>3, <2>4
<1>3. /\ Whole' \subseteq DOMAIN out' /\ Whole = { i \in Whole' : i <= Len(out) }
  BY <1>2 DEF Whole
<1>4. \A m : Sent(m) => Sent(m)'
  BY <1>2, <1>3 DEF Sent, Whole
<1>5. \A m : Sent(m)' => Sent(m) \/ (m = sending[t].message /\ sending'[t].piece = Pieces)
  <2>1. ASSUME NEW k \in Whole'
        PROVE  \/ k \in Whole /\ out'[k] = out[k]
               \/ out'[k][1] = sending[t].message /\ sending'[t].piece = Pieces
    BY <1>1, <1>2, <2>1 DEF Whole
  <2> QED
    BY <2>1 DEF Sent
<1>6. \A s \in Thread : Active(s)' <=> Active(s)
  BY DEF Active
<1>7. \A m : Begun(m)' => Begun(m)
  BY <1>1, <1>5, <1>6 DEF Begun, Active
<1>8. Origins'
  BY <1>7 DEF Origins
<1>9. ASSUME NEW s \in Thread, NEW k, k = sending[s].message,
             pc[s] \in {"lock", "write"}, sending'[s].piece < Pieces
      PROVE  ~Sent(k)'
  <2>1. CASE s = t
    <3>1. ~Sent(k)
      BY <1>1, <1>9, <2>1 DEF EachOnce
    <3>2. sending'[t].piece # Pieces
      BY <1>1, <1>9, <2>1
    <3> QED
      BY <1>5, <3>1, <3>2
  <2>2. CASE s # t
    <3>1. k # sending[t].message /\ ~Sent(k)
      BY <1>1, <1>9, <2>2 DEF EachOnce, Active
    <3> QED
      BY <1>5, <3>1
  <2> QED
    BY <2>1, <2>2
<1>10. ASSUME NEW i \in Whole', NEW j \in Whole', out'[i][1] = out'[j][1] PROVE i = j
  <2>1. ~Sent(sending[t].message)
    BY <1>1 DEF EachOnce
  <2>2. ASSUME NEW k \in Whole'
        PROVE  \/ k \in Whole /\ out'[k] = out[k]
               \/ k = Len(out) + 1 /\ out'[k][1] = sending[t].message
    BY <1>2, <2>2 DEF Whole
  <2>3. \A k \in Whole : out[k][1] # sending[t].message
    BY <2>1 DEF Sent
  <2> QED
    BY <1>10, <2>2, <2>3 DEF EachOnce
<1>11. ASSUME NEW s \in Thread, NEW k, k = sending[s].message, Active(s)
       PROVE  k[1] # "none" /\ (k[1] = "reply" => ~Begun(<<"transmission", k[2]>>)')
  BY <1>7, <1>11 DEF EachOnce
<1>12. EachOnce'
  BY <1>1, <1>9, <1>10, <1>11 DEF EachOnce, Sent, Begun, Active
<1> QED
  BY <1>3, <1>4, <1>8, <1>12

-------------------------------------------------------------------------------
LEMMA ReadWInv == ASSUME WInv, Read PROVE WInv'
<1> USE DEF WInv
<1>1. StreamTypeOK' /\ OneWriter'
  BY ReadTyped
<1>2. /\ UNCHANGED <<pc, sending, holder, out, lines>> /\ state = "reading"
      /\ waiting' = IF Last(got') = Failed THEN waiting ELSE waiting \cup {Len(got')}
      /\ Len(got) \in Nat /\ Len(got') = Len(got) + 1
      /\ \A n \in 1..Len(got) : got'[n] = got[n]
  BY GotGrows DEF Read, ReadRequest
<1>3. \A n \in 1..Len(got) : n \notin waiting => n \in 1..Len(got') /\ n \notin waiting'
  BY <1>2
<1>4. Origins' /\ EachOnce'
  BY <1>2, <1>3, NothingBegun
<1>5. Written'
  BY <1>2 DEF Written, Whole, Between
<1>6. Answered'
  <2>1. \A m : (Begun(m)' <=> Begun(m)) /\ (Sent(m)' <=> Sent(m))
    BY <1>2 DEF Begun, Sent, Whole, Active
  <2>2. ASSUME NEW n \in 1..Len(got'), n \notin waiting', got'[n] \in Requests
        PROVE  Begun(<<"reply", n>>)
    <3>1. got'[n] # Failed
      BY <2>2, StreamAssumption, FrameAssumption DEF Failed
    <3>2. n # Len(got')
      BY <1>2, <2>2, <3>1 DEF Last
    <3>3. n \in 1..Len(got)
      BY <1>2, <3>2
    <3>4. n \notin waiting /\ got[n] \in Requests
      BY <1>2, <2>2, <3>3
    <3> QED
      BY <1>2, <3>3, <3>4 DEF Answered
  <2>3. \A t \in Thread : pc[t] = "log" => Sent(sending[t].message)
    BY <1>2 DEF Answered
  <2> QED
    BY <1>2, <2>1, <2>2, <2>3 DEF Answered, Sent, Whole
<1> QED
  BY <1>1, <1>4, <1>5, <1>6

(* Beginning a message keeps what is written and what is answered, if the  *)
(* thread had nothing in hand that is not sent.                            *)
LEMMA BeginWritten ==
  ASSUME WInv, NEW t \in Thread, NEW m, Begin(t, m),
         pc[t] \in {"idle", "log"}, pc' = [pc EXCEPT ![t] = "lock"],
         UNCHANGED <<got, state, holder, out>>,
         \A n \in waiting \ waiting' : m = <<"reply", n>>
  PROVE  Written' /\ Answered'
<1> USE DEF WInv
<1>1. /\ sending'[t].message = m /\ pc'[t] = "lock"
      /\ \A s \in Thread \ {t} : sending'[s] = sending[s] /\ pc'[s] = pc[s]
  BY DEF Begin, StreamTypeOK
<1>2. holder # {t}
  BY DEF OneWriter
<1>3. Written'
  BY <1>1, <1>2 DEF Written, Whole, Between
<1>4. \A k : Sent(k)' <=> Sent(k)
  BY DEF Sent, Whole
<1>5. \A k : state = "reading" /\ Begun(k) => Begun(k)'
  <2> SUFFICES ASSUME state = "reading", NEW k, NEW s \in Thread, Active(s), sending[s].message = k
               PROVE  Begun(k)'
    BY <1>4 DEF Begun
  <2>1. CASE s = t
    <3>1. Sent(k)
      BY <2>1 DEF Answered, Active
    <3> QED
      BY <1>4, <3>1 DEF Begun
  <2>2. CASE s # t
    BY <1>1, <2>2 DEF Begun, Active
  <2> QED
    BY <2>1, <2>2
<1>6. Begun(m)'
  BY <1>1 DEF Begun, Active
<1>7. ASSUME state = "reading", NEW n \in 1..Len(got), n \notin waiting', got[n] \in Requests
      PROVE  Begun(<<"reply", n>>)'
  BY <1>5, <1>6, <1>7 DEF Answered
<1>8. ASSUME state = "reading", NEW s \in Thread, pc'[s] = "log", NEW k, k = sending'[s].message
      PROVE  Sent(k)'
  BY <1>1, <1>4, <1>8 DEF Answered
<1>9. Answered'
  BY <1>7, <1>8 DEF Answered, Sent
<1> QED
  BY <1>3, <1>9

LEMMA ExecuteWInv == ASSUME WInv, NEW t \in Thread, Execute(t) PROVE WInv'
<1> USE DEF WInv, vars
<1>1. StreamTypeOK' /\ OneWriter'
  BY ThreadStepTyped
<1>2. PICK n \in waiting :
        /\ waiting' = waiting \ {n}
        /\ IF got[n] \in Requests
           THEN Go(t, "idle", "lock") /\ Begin(t, <<"reply", n>>)
           ELSE Go(t, "idle", "idle") /\ UNCHANGED sending
        /\ UNCHANGED <<vars, level, holder, out, lines>>
  BY DEF Execute
<1>3. n \in 1..Len(got) /\ n \in Nat /\ lines \in Nat
  BY DEF StreamTypeOK
<1>4. CASE got[n] \in Requests
  <2> DEFINE m == <<"reply", n>>
  <2>1. /\ pc[t] = "idle" /\ pc' = [pc EXCEPT ![t] = "lock"] /\ Begin(t, m)
        /\ UNCHANGED <<got, state, holder, out, lines>>
    BY <1>2, <1>4 DEF Go
  <2>2. ~Begun(m) /\ ~Begun(<<"transmission", n>>)
    BY <1>2, <1>3 DEF Origins
  <2>3. m \in Message /\ m[1] # "none"
    BY <1>3 DEF Message
  <2>4. waiting' \subseteq waiting /\ lines' \in Nat /\ lines <= lines'
    BY <1>2, <1>3
  <2>5. Written' /\ Answered'
    <3>1. \A k \in waiting \ waiting' : m = <<"reply", k>>
      BY <1>2
    <3> QED
      BY <2>1, <3>1, BeginWritten
  <2>6. \A k \in Nat :
          /\ m = <<"reply", k>> => /\ k \in 1..Len(got) /\ k \notin waiting'
                                   /\ ~Begun(<<"transmission", k>>)
          /\ m = <<"transmission", k>> =>
               /\ k \in 1..Len(got) /\ k \notin waiting'
               /\ \A s \in Thread \ {t} : Active(s) => sending[s].message # <<"reply", k>>
          /\ m = <<"trace", k>> => k <= lines'
    <3> SUFFICES ASSUME NEW k \in Nat
                 PROVE  /\ m = <<"reply", k>> => /\ k \in 1..Len(got) /\ k \notin waiting'
                                                 /\ ~Begun(<<"transmission", k>>)
                        /\ m # <<"transmission", k>> /\ m # <<"trace", k>>
      OBVIOUS
    <3>1. m = <<"reply", k>> => k = n
      OBVIOUS
    <3> QED
      BY <1>2, <1>3, <2>2, <3>1
  <2>7. Origins' /\ EachOnce'
    <3> HIDE DEF m, WInv
    <3> QED
      BY <2>1, <2>2, <2>3, <2>4, <2>6, OneBegun
  <2> QED
    BY <1>1, <2>5, <2>7
<1>5. CASE got[n] \notin Requests
  <2>1. UNCHANGED <<got, state, pc, sending, holder, out, lines>>
    BY <1>2, <1>5 DEF Go, StreamTypeOK
  <2>2. Origins' /\ EachOnce'
    BY <1>2, <2>1, NothingBegun
  <2>3. Written'
    BY <2>1 DEF Written, Whole, Between
  <2>4. \A m : (Begun(m)' <=> Begun(m)) /\ (Sent(m)' <=> Sent(m))
    BY <2>1 DEF Begun, Sent, Whole, Active
  <2>5. Answered'
    BY <1>2, <1>5, <2>1, <2>4 DEF Answered, Sent, Whole
  <2> QED
    BY <1>1, <2>2, <2>3, <2>5
<1> QED
  BY <1>4, <1>5

LEMMA LogLineWInv == ASSUME WInv, NEW t \in Thread, LogLine(t) PROVE WInv'
<1> USE DEF WInv, vars
<1> DEFINE m == <<"trace", lines + 1>>
<1>1. StreamTypeOK' /\ OneWriter'
  BY ThreadStepTyped
<1>2. /\ pc[t] = "idle" /\ pc' = [pc EXCEPT ![t] = "lock"] /\ Begin(t, m)
      /\ UNCHANGED <<got, state, holder, out, waiting>> /\ lines' = lines + 1
  BY DEF LogLine, Go
<1>3. lines \in Nat /\ lines + 1 \in Nat /\ ~(lines + 1 <= lines)
  BY DEF StreamTypeOK
<1>4. ~Begun(m)
  BY <1>3 DEF Origins
<1>5. m \in Message /\ m[1] # "none"
  BY <1>3 DEF Message
<1>6. \A k \in Nat : /\ m # <<"reply", k>> /\ m # <<"transmission", k>>
                     /\ m = <<"trace", k>> => k <= lines'
  BY <1>2, <1>3
<1>7. lines' \in Nat /\ lines <= lines' /\ waiting' \subseteq waiting
  BY <1>2, <1>3
<1> HIDE DEF m
<1>8. Origins' /\ EachOnce'
  BY <1>2, <1>4, <1>5, <1>6, <1>7, OneBegun
<1>9. Written' /\ Answered'
  BY <1>2, BeginWritten
<1> QED
  BY <1>1, <1>8, <1>9

LEMMA LogTransmissionWInv ==
  ASSUME WInv, NEW t \in Thread, LogTransmission(t) PROVE WInv'
<1> USE DEF WInv, vars
<1>1. StreamTypeOK' /\ OneWriter'
  <2> HIDE DEF WInv, vars
  <2> QED
    BY ThreadStepTyped DEF Send
<1>2. pc[t] = "log" /\ UNCHANGED <<got, state, holder, out, waiting, lines>>
  BY DEF LogTransmission, Go
<1>3. PICK n \in Nat : sending[t].message = <<"reply", n>>
  <2>1. sending[t].message \in Message
    BY DEF StreamTypeOK
  <2>2. sending[t].message[1] = "reply"
    BY <1>2 DEF OneWriter
  <2> QED
    BY <2>1, <2>2 DEF Message
<1>4. Active(t) /\ Begun(<<"reply", n>>)
  BY <1>2, <1>3 DEF Active, Begun
<1>5. CASE level = "verbose"
  <2> DEFINE m == <<"transmission", n>>
  <2>1. pc' = [pc EXCEPT ![t] = "lock"] /\ Begin(t, m)
    BY <1>3, <1>5 DEF LogTransmission, Go
  <2>2. ~Begun(m)
    BY <1>3, <1>4 DEF EachOnce
  <2>3. m \in Message /\ m[1] # "none"
    BY DEF Message
  <2>4. n \in 1..Len(got) /\ n \notin waiting
    BY <1>4 DEF Origins
  <2>5. \A s \in Thread \ {t} : Active(s) => sending[s].message # <<"reply", n>>
    BY <1>3, <1>4 DEF EachOnce
  <2>6. \A k \in Nat :
          /\ m = <<"reply", k>> => /\ k \in 1..Len(got) /\ k \notin waiting'
                                   /\ ~Begun(<<"transmission", k>>)
          /\ m = <<"transmission", k>> =>
               /\ k \in 1..Len(got) /\ k \notin waiting'
               /\ \A s \in Thread \ {t} : Active(s) => sending[s].message # <<"reply", k>>
          /\ m = <<"trace", k>> => k <= lines'
    <3> SUFFICES ASSUME NEW k \in Nat
                 PROVE  /\ m # <<"reply", k>> /\ m # <<"trace", k>>
                        /\ m = <<"transmission", k>> =>
                             /\ k \in 1..Len(got) /\ k \notin waiting'
                             /\ \A s \in Thread \ {t} : Active(s) =>
                                  sending[s].message # <<"reply", k>>
      OBVIOUS
    <3>1. m = <<"transmission", k>> => k = n
      OBVIOUS
    <3> QED
      BY <1>2, <2>4, <2>5, <3>1
  <2>7. lines' \in Nat /\ lines <= lines' /\ waiting' \subseteq waiting
    BY <1>2 DEF StreamTypeOK
  <2>8. Origins' /\ EachOnce'
    <3> HIDE DEF m, WInv
    <3> QED
      BY <1>2, <2>1, <2>2, <2>3, <2>6, <2>7, OneBegun
  <2> HIDE DEF m
  <2>9. Written' /\ Answered'
    BY <1>2, <2>1, BeginWritten
  <2> QED
    BY <1>1, <2>8, <2>9
<1>6. CASE level # "verbose"
  <2>1. pc' = [pc EXCEPT ![t] = "idle"] /\ UNCHANGED sending /\ pc \in [Thread -> ThreadPc]
    BY <1>6 DEF LogTransmission, Go, StreamTypeOK
  <2>2. Origins' /\ EachOnce'
    BY <1>2, <2>1, NothingBegun
  <2>3. Written'
    BY <1>2, <2>1 DEF Written, Whole, Between
  <2>4. \A k : Sent(k)' <=> Sent(k)
    BY <1>2 DEF Sent, Whole
  <2>5. \A k : state = "reading" /\ Begun(k) => Begun(k)'
    <3> SUFFICES ASSUME state = "reading", NEW k, NEW s \in Thread, Active(s), sending[s].message = k
                 PROVE  Begun(k)'
      BY <2>4 DEF Begun
    <3>1. CASE s = t
      <4>1. Sent(k)
        BY <1>2, <3>1 DEF Answered
      <4> QED
        BY <2>4, <4>1 DEF Begun
    <3>2. CASE s # t
      BY <2>1, <3>2 DEF Begun, Active
    <3> QED
      BY <3>1, <3>2
  <2>6. ASSUME state = "reading", NEW s \in Thread, pc'[s] = "log", NEW k, k = sending[s].message
        PROVE  Sent(k)'
    BY <2>1, <2>4, <2>6 DEF Answered
  <2>7. Answered'
    BY <1>2, <2>1, <2>5, <2>6 DEF Answered, Sent
  <2> QED
    BY <1>1, <2>2, <2>3, <2>7
<1> QED
  BY <1>5, <1>6

LEMMA LockWInv == ASSUME WInv, NEW t \in Thread, Lock(t) PROVE WInv'
<1> USE DEF WInv, vars
<1>1. StreamTypeOK' /\ OneWriter'
  <2> HIDE DEF WInv, vars
  <2> QED
    BY ThreadStepTyped DEF Send
<1>2. /\ pc[t] = "lock" /\ pc' = [pc EXCEPT ![t] = "write"] /\ holder = Nobody /\ holder' = {t}
      /\ UNCHANGED <<got, state, out, waiting, lines, sending>>
      /\ pc \in [Thread -> ThreadPc]
  BY DEF Lock, Go, StreamTypeOK
<1>3. Origins' /\ EachOnce'
  BY <1>2, NothingBegun
<1>4. Written'
  <2>1. sending[t].piece = 0
    BY <1>2 DEF OneWriter
  <2>2. \A s \in Thread : holder' = {s} => s = t
    BY <1>2
  <2>3. holder' # Nobody
    BY <1>2 DEF Nobody
  <2> QED
    BY <1>2, <2>1, <2>2, <2>3 DEF Written, Whole, Between
<1>5. Answered'
  <2>1. \A m : (Begun(m)' <=> Begun(m)) /\ (Sent(m)' <=> Sent(m))
    BY <1>2 DEF Begun, Sent, Whole, Active
  <2>2. \A s \in Thread : pc'[s] = "log" => pc[s] = "log"
    BY <1>2
  <2> QED
    BY <1>2, <2>1, <2>2 DEF Answered, Sent, Whole
<1> QED
  BY <1>1, <1>3, <1>4, <1>5

LEMMA UnlockWInv == ASSUME WInv, NEW t \in Thread, Unlock(t) PROVE WInv'
<1> USE DEF WInv, vars
<1>1. StreamTypeOK' /\ OneWriter'
  <2> HIDE DEF WInv, vars
  <2> QED
    BY ThreadStepTyped DEF Send
<1>2. /\ pc[t] = "write" /\ holder' = Nobody
      /\ pc' = [pc EXCEPT ![t] = IF sending[t].message[1] = "reply" THEN "log" ELSE "idle"]
      /\ UNCHANGED <<got, state, out, waiting, lines, sending>>
      /\ pc \in [Thread -> ThreadPc]
  BY DEF Unlock, Go, StreamTypeOK
<1>3. Origins' /\ EachOnce'
  BY <1>2, NothingBegun
<1>4. sending[t].piece = Pieces /\ Pieces # 0
  <2>1. sending[t].piece \in 0..Pieces /\ Pieces \in Nat \ {0}
    BY StreamAssumption DEF StreamTypeOK
  <2> QED
    BY <2>1 DEF Unlock, Left
<1>5. ASSUME state = "reading"
      PROVE  Len(out) \in Whole /\ Sent(sending[t].message)
  <2>1. holder = {t}
    BY <1>2 DEF OneWriter
  <2>2. out # <<>> /\ out[Len(out)] = <<sending[t].message, Pieces>>
    BY <1>4, <1>5, <2>1 DEF Written
  <2>3. Len(out) \in DOMAIN out
    BY <2>2, OutIs DEF StreamTypeOK
  <2> QED
    BY <2>2, <2>3 DEF Whole, Sent
<1>6. Written'
  <2>1. \A s \in Thread : holder' # {s}
    BY <1>2 DEF Nobody
  <2>2. state' = "reading" => Between'
    BY <1>2, <1>5 DEF Between, Whole
  <2> QED
    BY <1>2, <2>1, <2>2 DEF Written, Whole
<1>7. Answered'
  <2>1. \A k : Sent(k)' <=> Sent(k)
    BY <1>2 DEF Sent, Whole
  <2>2. \A k : state = "reading" /\ Begun(k) => Begun(k)'
    <3> SUFFICES ASSUME state = "reading", NEW k, NEW s \in Thread, Active(s), sending[s].message = k
                 PROVE  Begun(k)'
      BY <2>1 DEF Begun
    <3>1. CASE s = t
      BY <1>5, <2>1, <3>1 DEF Begun
    <3>2. CASE s # t
      BY <1>2, <3>2 DEF Begun, Active
    <3> QED
      BY <3>1, <3>2
  <2>3. ASSUME state = "reading", NEW s \in Thread, pc'[s] = "log", NEW k, k = sending[s].message
        PROVE  Sent(k)'
    BY <1>2, <1>5, <2>1, <2>3 DEF Answered
  <2> QED
    BY <1>2, <2>2, <2>3 DEF Answered, Sent
<1> QED
  BY <1>1, <1>3, <1>6, <1>7

LEMMA InsertWInv ==
  ASSUME WInv, NEW t \in Thread, Insert(t) \/ InsertFails(t) PROVE WInv'
<1> USE DEF WInv
<1>1. StreamTypeOK' /\ OneWriter'
  <2> HIDE DEF WInv
  <2> QED
    BY ThreadStepTyped DEF Send
<1>2. /\ Advance(t) /\ UNCHANGED <<got, waiting, pc, holder, lines>>
      /\ out' \in {out, Append(out, <<sending[t].message, sending[t].piece + 1>>)}
  BY DEF Insert, InsertFails, vars
<1>3. /\ Origins' /\ EachOnce'
      /\ Whole' \subseteq DOMAIN out' /\ Whole = { i \in Whole' : i <= Len(out) }
      /\ \A m : Sent(m) => Sent(m)'
  <2> HIDE DEF WInv
  <2> QED
    BY <1>2, OneWritten
<1>4. /\ pc[t] = "write" /\ sending[t].piece \in Nat
      /\ \A s \in Thread : sending'[s].message = sending[s].message
      /\ sending'[t].piece = sending[t].piece + 1
  BY <1>2, AdvanceIs
<1>5. holder = {t} /\ \A s \in Thread : holder = {s} <=> s = t
  BY <1>4 DEF OneWriter
<1>6. CASE state' = "reading"
  <2> DEFINE e == <<sending[t].message, sending[t].piece + 1>>
  <2>1. state = "reading" /\ out' = Append(out, e)
    BY <1>6 DEF Insert, InsertFails, vars
  <2>2. /\ out \in Seq(Message \X (1..Pieces)) /\ Len(out) \in Nat /\ DOMAIN out = 1..Len(out)
    BY OutIs DEF StreamTypeOK
  <2>3. /\ Len(out') = Len(out) + 1 /\ DOMAIN out' = 1..(Len(out) + 1)
        /\ \A i \in 1..Len(out) : out'[i] = out[i]
        /\ out'[Len(out) + 1] = e
    <3> HIDE DEF e
    <3> QED
      BY <2>1, <2>2
  <2>4. IF sending[t].piece = 0 THEN Between
        ELSE out # <<>> /\ out[Len(out)] = <<sending[t].message, sending[t].piece>>
    BY <1>5, <2>1 DEF Written
  <2>5. ASSUME NEW i \in DOMAIN out'
        PROVE  IF out'[i][2] = 1 THEN i = 1 \/ i - 1 \in Whole'
               ELSE i > 1 /\ out'[i - 1] = <<out'[i][1], out'[i][2] - 1>>
    <3>1. CASE i \in DOMAIN out
      <4>1. IF out[i][2] = 1 THEN i = 1 \/ i - 1 \in Whole
            ELSE i > 1 /\ out[i - 1] = <<out[i][1], out[i][2] - 1>>
        BY <3>1 DEF Written
      <4>2. out'[i] = out[i] /\ (i > 1 => out'[i - 1] = out[i - 1])
        BY <2>2, <2>3, <3>1
      <4> QED
        BY <1>3, <4>1, <4>2
    <3>2. CASE i = Len(out) + 1
      <4>1. out'[i] = e /\ i - 1 = Len(out)
        BY <2>2, <2>3, <3>2
      <4>2. CASE sending[t].piece = 0
        <5>1. out'[i][2] = 1
          BY <4>1, <4>2
        <5>2. out = <<>> \/ Len(out) \in Whole
          BY <2>4, <4>2 DEF Between
        <5>3. i = 1 \/ i - 1 \in Whole'
          BY <1>3, <2>2, <3>2, <4>1, <5>2
        <5> QED
          BY <5>1, <5>3
      <4>3. CASE sending[t].piece # 0
        <5>1. out'[i][2] # 1 /\ out'[i][2] - 1 = sending[t].piece
              /\ out'[i][1] = sending[t].message
          BY <1>4, <4>1, <4>3
        <5>2. out # <<>> /\ out[Len(out)] = <<sending[t].message, sending[t].piece>>
          BY <2>4, <4>3
        <5>3. Len(out) \in 1..Len(out)
          BY <2>2, <5>2
        <5>4. i > 1 /\ out'[i - 1] = <<sending[t].message, sending[t].piece>>
          BY <2>2, <2>3, <3>2, <4>1, <5>2, <5>3
        <5> QED
          BY <5>1, <5>4
      <4> QED
        BY <4>2, <4>3
    <3> QED
      BY <2>2, <2>3, <3>1, <3>2
  <2>6. /\ out' # <<>> /\ out'[Len(out')] = e
        /\ e = <<sending'[t].message, sending'[t].piece>> /\ sending'[t].piece # 0
    <3>1. out' # <<>>
      BY <2>2, <2>3
    <3> QED
      BY <1>4, <2>3, <3>1
  <2>7. Written'
    <3>1. holder' = {t} /\ holder' # Nobody /\ \A s \in Thread : holder' = {s} => s = t
      BY <1>2, <1>5 DEF Nobody
    <3> QED
      BY <2>5, <2>6, <3>1 DEF Written
  <2>8. \A s \in Thread : Active(s)' <=> Active(s)
    BY <1>2 DEF Active
  <2>9. \A m : Begun(m) => Begun(m)'
    BY <1>3, <1>4, <2>8 DEF Begun, Active
  <2>10. \A s \in Thread : pc'[s] = "log" => Sent(sending[s].message)
    BY <1>2, <2>1 DEF Answered
  <2>11. ASSUME NEW s \in Thread, pc'[s] = "log", NEW k, k = sending'[s].message
         PROVE  Sent(k)'
    BY <1>3, <1>4, <2>10, <2>11
  <2>12. \A n \in 1..Len(got') : n \notin waiting' /\ got'[n] \in Requests => Begun(<<"reply", n>>)'
    BY <1>2, <2>1, <2>9 DEF Answered
  <2>13. Answered'
    BY <2>11, <2>12 DEF Answered, Sent
  <2> QED
    BY <1>1, <1>3, <2>7, <2>13
<1>7. CASE state' # "reading"
  <2>1. \A i \in DOMAIN out :
          IF out[i][2] = 1 THEN i = 1 \/ i - 1 \in Whole
          ELSE i > 1 /\ out[i - 1] = <<out[i][1], out[i][2] - 1>>
    BY DEF Written
  <2>2. out' = out
    BY <1>7 DEF Insert, InsertFails, vars
  <2>3. Whole' = Whole
    BY <2>2 DEF Whole
  <2>4. Written'
    BY <1>7, <2>1, <2>2, <2>3 DEF Written
  <2>5. Answered'
    BY <1>7 DEF Answered
  <2> QED
    BY <1>1, <1>3, <2>4, <2>5
<1> QED
  BY <1>6, <1>7

-------------------------------------------------------------------------------
LEMMA InitWInv == StreamInit => WInv
<1> SUFFICES ASSUME StreamInit PROVE WInv
  OBVIOUS
<1>1. /\ got = <<>> /\ waiting = {} /\ holder = Nobody /\ out = <<>> /\ lines = 0
      /\ pc = [t \in Thread |-> "idle"]
      /\ sending = [t \in Thread |-> [message |-> Nothing, piece |-> 0]]
  BY DEF StreamInit, Init
<1>2. StreamTypeOK
  <2>1. got \in Seq({got[i] : i \in DOMAIN got})
    BY <1>1
  <2>2. Pieces \in Nat /\ Nothing \in Message
    BY StreamAssumption DEF Nothing, Message
  <2> QED
    BY <1>1, <2>1, <2>2 DEF StreamTypeOK, ThreadPc, Nobody
<1>3. OneWriter
  BY <1>1 DEF OneWriter, Nobody
<1>4. Whole = {} /\ DOMAIN out = {}
  BY <1>1 DEF Whole
<1>5. \A m : ~Begun(m) /\ ~Sent(m)
  BY <1>1, <1>4 DEF Begun, Sent, Active
<1>6. Origins
  BY <1>5 DEF Origins
<1>7. EachOnce
  BY <1>1, <1>4, <1>5 DEF EachOnce, Active
<1>8. Written
  BY <1>1, <1>4 DEF Written, Between, Nobody
<1>9. Answered
  BY <1>1 DEF Answered
<1> QED
  BY <1>2, <1>3, <1>6, <1>7, <1>8, <1>9 DEF WInv

LEMMA StepWInv == WInv /\ [StreamNext]_streamVars => WInv'
<1> SUFFICES ASSUME WInv, [StreamNext]_streamVars PROVE WInv'
  OBVIOUS
<1>1. CASE Read
  BY <1>1, ReadWInv
<1>2. ASSUME NEW t \in Thread, Execute(t) \/ LogLine(t) \/ Send(t) \/ InsertFails(t)
      PROVE  WInv'
  BY <1>2, ExecuteWInv, LogLineWInv, LockWInv, InsertWInv, UnlockWInv, LogTransmissionWInv DEF Send
<1>3. CASE UNCHANGED streamVars
  <2>1. UNCHANGED <<got, state, level, waiting, pc, sending, holder, out, lines>>
    BY <1>3 DEF streamVars, vars, sendVars
  <2>2. \A m : (Begun(m)' <=> Begun(m)) /\ (Sent(m)' <=> Sent(m))
    BY <2>1 DEF Begun, Sent, Whole, Active
  <2>3. StreamTypeOK' /\ OneWriter'
    BY <2>1 DEF WInv, StreamTypeOK, OneWriter
  <2>4. Origins' /\ EachOnce'
    BY <2>1, NothingBegun DEF WInv
  <2>5. Written'
    BY <2>1 DEF WInv, Written, Whole, Between
  <2>6. Answered'
    BY <2>1, <2>2 DEF WInv, Answered, Sent, Whole
  <2> QED
    BY <2>3, <2>4, <2>5, <2>6 DEF WInv
<1> QED
  BY <1>1, <1>2, <1>3 DEF StreamNext

(* The inductive invariant holds for ever.                                 *)
THEOREM StreamInvariance == StreamSpec => []WInv
BY InitWInv, StepWInv, PTL DEF StreamSpec

(* SendMessage, called by any thread for any reply, log line or logged     *)
(* transmission: the pieces of two messages are never mixed, no message is *)
(* written twice, and a request that was executed is answered, being       *)
(* answered, or the stream is spoilt.                                      *)
THEOREM FramesAreWhole == StreamSpec => []FramesWhole
<1>1. WInv => FramesWhole
  <2> SUFFICES ASSUME WInv PROVE FramesWhole
    OBVIOUS
  <2> USE DEF WInv
  <2>1. \A i \in DOMAIN out :
          IF out[i][2] = 1 THEN i = 1 \/ i - 1 \in Whole
          ELSE out[i - 1] = <<out[i][1], out[i][2] - 1>>
    BY DEF Written
  <2>2. \A i, j \in Whole : out[i][1] = out[j][1] => i = j
    BY DEF EachOnce
  <2>3. ASSUME out # <<>>, Len(out) \notin Whole, state = "reading"
        PROVE  \E t \in Thread : holder = {t} /\ sending[t].message = Last(out)[1]
    <3>1. holder # Nobody
      BY <2>3 DEF Written, Between
    <3>2. PICK t \in Thread : holder = {t}
      BY <3>1 DEF OneWriter
    <3>3. out[Len(out)] = <<sending[t].message, sending[t].piece>>
      BY <2>3, <3>2 DEF Written, Between
    <3> QED
      BY <3>2, <3>3 DEF Last
  <2>4. ASSUME state = "reading", NEW n \in DOMAIN got \ waiting, got[n] \in Requests
        PROVE  \/ \E i \in Whole : out[i][1] = <<"reply", n>>
               \/ \E t \in Thread : sending[t].message = <<"reply", n>> /\ pc[t] # "idle"
    <3>1. n \in 1..Len(got) /\ n \notin waiting
      BY DEF StreamTypeOK
    <3>2. Begun(<<"reply", n>>)
      BY <2>4, <3>1 DEF Answered
    <3> QED
      BY <3>2 DEF Begun, Sent, Active
  <2> QED
    BY <2>1, <2>2, <2>3, <2>4 DEF FramesWhole
<1> QED
  BY <1>1, StreamInvariance, PTL

-------------------------------------------------------------------------------

(***************************************************************************)
(* Reading                                                                 *)
(*                                                                         *)
(* Where the parts of a stream are follows from where FlattenSeq puts      *)
(* parts.  What a call of ReadHttpMessage does follows by induction on     *)
(* what is left to read, over the function that models the header loop;    *)
(* for a well framed head the induction is over its lines instead.         *)
(***************************************************************************)

Parts(f) == [i \in DOMAIN f.head |-> Append(f.head[i], Newline)]

(* An end of line is an atom.                                              *)
LEMMA NewlineIsAtom == Newline \in Atom
  BY DEF Newline, Atom

(* What is assumed of a frame, line by line.                               *)
LEMMA FrameIs ==
  ASSUME NEW f \in Frame
  PROVE  /\ Len(f.head) \in Nat /\ DOMAIN f.head = 1..Len(f.head)
         /\ f.body \in Seq(Atom)
         /\ \A i \in 1..Len(f.head) :
              /\ f.head[i] \in Seq(Atom) /\ Len(f.head[i]) > 0
              /\ \A j \in 1..Len(f.head[i]) : f.head[i][j] # Newline
<1>1. f.head \in Seq(Seq(Atom) \ {<<>>}) /\ f.body \in Seq(Atom)
  BY FrameAssumption
<1>2. \A i \in DOMAIN f.head : Newline \notin Range(f.head[i])
  BY FrameAssumption
<1>3. \A i \in 1..Len(f.head) : f.head[i] \in Seq(Atom) /\ f.head[i] # <<>>
  BY <1>1
<1>4. \A x \in Seq(Atom) : x # <<>> => Len(x) > 0
  OBVIOUS
<1>5. DOMAIN f.head = 1..Len(f.head) /\ Len(f.head) \in Nat
  BY <1>1
<1>6. ASSUME NEW i \in 1..Len(f.head), NEW j \in 1..Len(f.head[i]) PROVE f.head[i][j] # Newline
  <2> DEFINE x == f.head[i]
  <2>1. x \in Seq(Atom) /\ Newline \notin Range(x)
    BY <1>2, <1>3, <1>5
  <2> HIDE DEF x
  <2>2. \A n \in 1..Len(x) : x[n] \in Range(x)
    BY <2>1 DEF Range
  <2> QED
    BY <2>1, <2>2 DEF x
<1> QED
  BY <1>1, <1>3, <1>4, <1>5, <1>6

(* Where the lines of a frame's head are, and its body.                    *)
Layout(f, Q) ==
  /\ Q \in [0..Len(f.head) -> Nat] /\ Q[0] = 0
  /\ \A k \in 1..Len(f.head) :
       /\ Q[k] = Q[k - 1] + Len(f.head[k]) + 1
       /\ \A i \in 1..Len(f.head[k]) : Bytes(f)[Q[k - 1] + i] = f.head[k][i]
       /\ Bytes(f)[Q[k]] = Newline
  /\ Bytes(f)[Q[Len(f.head)] + 1] = Newline
  /\ \A i \in 1..Len(f.body) : Bytes(f)[Q[Len(f.head)] + 1 + i] = f.body[i]
  /\ Len(Bytes(f)) = Q[Len(f.head)] + 1 + Len(f.body)

(* A frame is laid out as its head and its body say.                       *)
LEMMA BytesIs ==
  ASSUME NEW f \in Frame
  PROVE  Bytes(f) \in Seq(Atom) /\ \E Q : Layout(f, Q)
<1> DEFINE n == Len(f.head)
           s == Parts(f)
           H == FlattenSeq(s)
           V == Seq(Atom)
           body == f.body
           line(k) == f.head[k]
<1>1. Texts(V)
  BY SequencesAreTexts
<1>2. n \in Nat /\ DOMAIN f.head = 1..n /\ body \in Seq(Atom)
      /\ \A k \in 1..n : line(k) \in Seq(Atom)
  BY FrameIs
<1> HIDE DEF n, body, line
<1>3. \A x \in Seq(Atom) :
        /\ Append(x, Newline) \in Seq(Atom) /\ Len(Append(x, Newline)) = Len(x) + 1
        /\ Len(x) \in Nat
        /\ \A i \in 1..Len(x) : Append(x, Newline)[i] = x[i]
        /\ Append(x, Newline)[Len(x) + 1] = Newline
  BY NewlineIsAtom
<1>4. s = [k \in 1..n |-> Append(line(k), Newline)]
  BY <1>2 DEF line, Parts
<1>5. /\ s \in Seq(V) /\ Len(s) = n
      /\ \A k \in 1..n : s[k] = Append(line(k), Newline)
  BY <1>2, <1>3, <1>4
<1> HIDE DEF V, s
<1>6. PICK Q : Places(s, Q)
  BY <1>1, <1>5, FlattenPlaces
<1>7. H \in V
  BY <1>1, <1>5, FlattenTyped
<1> HIDE DEF H
<1>8. Q \in [0..n -> Nat] /\ Q[0] = 0 /\ Len(H) = Q[n]
  BY <1>5, <1>6 DEF Places, H
<1>9. ASSUME NEW k \in 1..n
      PROVE  /\ Q[k] = Q[k - 1] + Len(line(k)) + 1
             /\ \A i \in 1..Len(line(k)) : H[Q[k - 1] + i] = line(k)[i]
             /\ H[Q[k]] = Newline
  <2> DEFINE x == line(k)
             y == s[k]
  <2>1. x \in Seq(Atom) /\ y = Append(x, Newline)
    BY <1>2, <1>5
  <2>2. /\ Q[k] = Q[k - 1] + Len(y)
        /\ \A i \in 1..Len(y) : H[Q[k - 1] + i] = y[i]
    BY <1>5, <1>6 DEF Places, H
  <2>3. Q[k - 1] \in Nat
    BY <1>2, <1>8
  <2> HIDE DEF x, y
  <2>4. Len(y) = Len(x) + 1 /\ Len(x) \in Nat /\ \A i \in 1..Len(x) : y[i] = x[i] /\ y[Len(x) + 1] = Newline
    BY <1>3, <2>1
  <2>4a. y[Len(x) + 1] = Newline
    BY <1>3, <2>1
  <2>5. \A i \in 1..Len(x) : H[Q[k - 1] + i] = x[i]
    BY <2>2, <2>4
  <2>6. H[Q[k - 1] + (Len(x) + 1)] = Newline
    <3>1. Len(x) + 1 \in 1..Len(y)
      BY <2>4
    <3> QED
      BY <2>2, <2>4a, <3>1
  <2>7. Q[k] = Q[k - 1] + (Len(x) + 1)
    BY <2>2, <2>4
  <2>8. Q[k] = Q[k - 1] + Len(x) + 1
    BY <2>3, <2>4, <2>7
  <2> QED
    BY <2>5, <2>6, <2>7, <2>8 DEF x
<1> DEFINE nl == <<Newline>>
           HN == Cat(H, nl)
           B == Cat(HN, body)
<1>10. nl \in V /\ Len(nl) = 1 /\ nl[1] = Newline
  BY NewlineIsAtom DEF V
<1>11. Bytes(f) = B
  BY DEF Bytes, Cat, H, s, Parts, body
<1> HIDE DEF nl
<1>12. body \in V
  BY <1>2 DEF V
<1>13. /\ HN \in V /\ Len(HN) = Len(H) + 1 /\ Len(H) \in Nat
       /\ \A i \in 1..Len(H) : HN[i] = H[i]
  <2>1. HN \in V /\ Len(HN) = Len(H) + Len(nl) /\ Len(H) \in Nat
    BY <1>1, <1>7, <1>10 DEF Texts
  <2>2. \A i \in 1..Len(H) : HN[i] = H[i]
    BY <1>1, <1>7, <1>10 DEF Texts
  <2> QED
    BY <1>10, <2>1, <2>2
<1>14. HN[Len(H) + 1] = Newline
  <2>1. 1 \in 1..Len(nl)
    BY <1>10
  <2> QED
    BY <1>1, <1>7, <1>10, <2>1 DEF Texts
<1> HIDE DEF HN
<1>15. /\ B \in V /\ Len(B) = Len(HN) + Len(body) /\ Len(body) \in Nat
       /\ \A i \in 1..Len(HN) : B[i] = HN[i]
       /\ \A i \in 1..Len(body) : B[Len(HN) + i] = body[i]
  BY <1>1, <1>12, <1>13 DEF Texts
<1> HIDE DEF B
<1>16. \A i \in 1..Len(H) : B[i] = H[i]
  BY <1>13, <1>15
<1>17. B[Len(H) + 1] = Newline
  BY <1>13, <1>14, <1>15
<1>18. /\ \A i \in 1..Len(body) : B[Q[n] + 1 + i] = body[i]
       /\ B[Q[n] + 1] = Newline /\ Len(B) = Q[n] + 1 + Len(body)
  BY <1>8, <1>13, <1>15, <1>17
<1>19. \A k \in 0..n : Q[k] <= Q[n]
  <2>1. \A k \in 1..n : Q[k - 1] <= Q[k]
    <3> SUFFICES ASSUME NEW k \in 1..n PROVE Q[k - 1] <= Q[k]
      OBVIOUS
    <3>1. Q[k] = Q[k - 1] + Len(line(k)) + 1 /\ Len(line(k)) \in Nat /\ Q[k - 1] \in Nat
      BY <1>2, <1>3, <1>8, <1>9
    <3> QED
      BY <3>1
  <2>2. Climbs(Q, n)
    BY <1>8, <2>1 DEF Climbs
  <2> QED
    BY <1>2, <2>2, ClimbsToTheTop
<1>20. ASSUME NEW k \in 1..n
       PROVE  /\ \A i \in 1..Len(line(k)) : B[Q[k - 1] + i] = line(k)[i]
              /\ B[Q[k]] = Newline
  <2>0. Len(line(k)) \in Nat /\ k - 1 \in 0..n /\ k \in 0..n /\ n \in 0..n
    BY <1>2, <1>3
  <2>1. /\ Q[k] = Q[k - 1] + Len(line(k)) + 1 /\ Len(line(k)) \in Nat /\ Q[k - 1] \in Nat
        /\ Q[k] <= Len(H) /\ Len(H) \in Nat /\ Q[k] \in Nat
    BY <1>8, <1>9, <1>19, <2>0
  <2>2. Q[k] \in 1..Len(H) /\ \A i \in 1..Len(line(k)) : Q[k - 1] + i \in 1..Len(H)
    BY <2>1
  <2> QED
    BY <1>9, <1>16, <2>2
<1>21. Layout(f, Q)
  BY <1>8, <1>9, <1>11, <1>18, <1>20 DEF Layout, n, body, line
<1> QED
  BY <1>11, <1>15, <1>21 DEF V

End(frames, k) == Len(Stream(SubSeq(frames, 1, k)))

(* Where the frames of a stream are.                                       *)
LEMMA StreamIs ==
  ASSUME NEW frames \in Streams
  PROVE  /\ Len(frames) \in Nat /\ DOMAIN frames = 1..Len(frames)
         /\ \A k \in 1..Len(frames) : frames[k] \in Frame
         /\ Stream(frames) \in Seq(Atom)
         /\ End(frames, 0) = 0 /\ End(frames, Len(frames)) = Len(Stream(frames))
         /\ \A k \in 0..Len(frames) : End(frames, k) \in Nat
         /\ \A j, k \in 0..Len(frames) : j <= k => End(frames, j) <= End(frames, k)
         /\ \A k \in 1..Len(frames) :
              /\ End(frames, k) = End(frames, k - 1) + Len(Bytes(frames[k]))
              /\ Len(Bytes(frames[k])) \in Nat
              /\ \A i \in 1..Len(Bytes(frames[k])) :
                   Stream(frames)[End(frames, k - 1) + i] = Bytes(frames[k])[i]
<1> DEFINE n == Len(frames)
           s == [k \in DOMAIN frames |-> Bytes(frames[k])]
           V == Seq(Atom)
           E(k) == End(frames, k)
<1>1. frames \in Seq(Frame)
  BY FrameAssumption DEF Streams
<1>2. n \in Nat /\ DOMAIN frames = 1..n /\ \A k \in 1..n : frames[k] \in Frame
  BY <1>1
<1>3. \A f \in Frame : Bytes(f) \in V
  BY BytesIs
<1>4. Texts(V)
  BY SequencesAreTexts
<1>5. \A k \in 0..n : Stream(SubSeq(frames, 1, k)) = FlattenSeq(SubSeq(s, 1, k))
  <2> SUFFICES ASSUME NEW k \in 0..n
               PROVE  Stream(SubSeq(frames, 1, k)) = FlattenSeq(SubSeq(s, 1, k))
    OBVIOUS
  <2> DEFINE a == SubSeq(frames, 1, k)
             b == [i \in DOMAIN a |-> Bytes(a[i])]
  <2>1. DOMAIN a = 1..k /\ \A i \in 1..k : a[i] = frames[i] /\ i \in DOMAIN frames
    BY <1>1, <1>2
  <2>2. b = [i \in 1..k |-> Bytes(frames[i])]
    BY <2>1
  <2>3. SubSeq(s, 1, k) = [i \in 1..k |-> Bytes(frames[i])]
    <3>1. s = [i \in 1..n |-> Bytes(frames[i])] /\ k \in Nat /\ k <= n
      BY <1>2
    <3> DEFINE g(i) == Bytes(frames[i])
    <3>2. s = [i \in 1..n |-> g(i)]
      BY <3>1
    <3> HIDE DEF g
    <3>3. SubSeq([i \in 1..n |-> g(i)], 1, k) = [i \in 1..k |-> g(i)]
      BY <1>2, <3>1
    <3> QED
      BY <3>2, <3>3 DEF g
  <2>4. SubSeq(s, 1, k) = b
    BY <2>2, <2>3
  <2>5. Stream(a) = FlattenSeq(b)
    BY DEF Stream
  <2> QED
    BY <2>4, <2>5
<1>6. Stream(frames) = FlattenSeq(s)
  BY DEF Stream
<1>7. s \in Seq(V) /\ Len(s) = n /\ \A k \in 1..n : s[k] = Bytes(frames[k])
  <2> DEFINE g(i) == Bytes(frames[i])
  <2>1. \A i \in 1..n : g(i) \in V
    BY <1>2, <1>3
  <2>2. s = [i \in 1..n |-> g(i)]
    BY <1>2
  <2> HIDE DEF V, g, n, s
  <2>3. s \in Seq(V) /\ Len(s) = n /\ \A k \in 1..n : s[k] = g(k)
    BY <1>2, <2>1, <2>2
  <2> QED
    BY <2>3 DEF g
<1> HIDE DEF s, V, n
<1>8. PICK P : Places(s, P)
  BY <1>4, <1>7, FlattenPlaces
<1>9. \A k \in 0..n : P[k] = E(k)
  <2>1. \A k \in 0..Len(s) : P[k] = Len(FlattenSeq(SubSeq(s, 1, k)))
    BY <1>4, <1>7, <1>8, PlacesArePrefixes
  <2> QED
    BY <1>5, <1>7, <2>1 DEF End
<1>10. /\ P \in [0..n -> Nat] /\ P[0] = 0 /\ Len(Stream(frames)) = P[n]
       /\ \A k \in 1..n :
            /\ Len(s[k]) \in Nat /\ P[k] = P[k - 1] + Len(s[k])
            /\ \A i \in 1..Len(s[k]) : Stream(frames)[P[k - 1] + i] = s[k][i]
  BY <1>6, <1>7, <1>8 DEF Places
<1>11. \A j, k \in 0..n : j <= k => P[j] <= P[k]
  <2>1. \A k \in 1..n : P[k - 1] <= P[k]
    <3> SUFFICES ASSUME NEW k \in 1..n PROVE P[k - 1] <= P[k]
      OBVIOUS
    <3>1. P[k] = P[k - 1] + Len(s[k]) /\ Len(s[k]) \in Nat /\ P[k - 1] \in Nat
      BY <1>2, <1>10
    <3> QED
      BY <3>1
  <2>2. Climbs(P, n)
    BY <1>10, <2>1 DEF Climbs
  <2> QED
    BY <1>2, <2>2, ClimbsToTheTop
<1>12. Stream(frames) \in V
  BY <1>4, <1>6, <1>7, FlattenTyped
<1> HIDE DEF E
<1>13. /\ E(0) = 0 /\ E(n) = Len(Stream(frames))
       /\ \A k \in 0..n : E(k) \in Nat
       /\ \A j, k \in 0..n : j <= k => E(j) <= E(k)
  BY <1>2, <1>9, <1>10, <1>11
<1>14. ASSUME NEW k \in 1..n
       PROVE  /\ E(k) = E(k - 1) + Len(s[k]) /\ Len(s[k]) \in Nat
              /\ \A i \in 1..Len(s[k]) : Stream(frames)[E(k - 1) + i] = s[k][i]
  <2>1. P[k] = E(k) /\ P[k - 1] = E(k - 1)
    BY <1>2, <1>9
  <2> QED
    BY <1>10, <2>1
<1>15. \A k \in 1..n :
              /\ E(k) = E(k - 1) + Len(Bytes(frames[k]))
              /\ Len(Bytes(frames[k])) \in Nat
              /\ \A i \in 1..Len(Bytes(frames[k])) :
                   Stream(frames)[E(k - 1) + i] = Bytes(frames[k])[i]
  BY <1>7, <1>14
<1> QED
  BY <1>2, <1>12, <1>13, <1>15 DEF E, n, V

-------------------------------------------------------------------------------
NextNewline(in, p) == SelectInSubSeq(in, p, Len(in), LAMBDA a : a = Newline)

(* std::getline stops at the first end of line, or at the end.             *)
LEMMA NextNewlineIs ==
  ASSUME NEW in \in Seq(Atom), NEW p \in 1..(Len(in) + 1)
  PROVE  \/ NextNewline(in, p) = 0 /\ \A i \in p..Len(in) : in[i] # Newline
         \/ /\ NextNewline(in, p) \in p..Len(in) /\ in[NextNewline(in, p)] = Newline
            /\ \A i \in p..(NextNewline(in, p) - 1) : in[i] # Newline
<1> DEFINE I == {i \in p..Len(in) : in[i] = Newline}
<1>1. NextNewline(in, p) = IF I # {} THEN Min(I) ELSE 0
  BY DEF NextNewline, SelectInSubSeq
<1>2. I \subseteq Nat /\ Len(in) \in Nat /\ p \in Nat
  OBVIOUS
<1>3. CASE I = {}
  BY <1>1, <1>3
<1>4. CASE I # {}
  <2>1. Min(I) \in I /\ \A i \in I : Min(I) <= i
    <3> HIDE DEF I
    <3> QED
      BY <1>2, <1>4, MinIs
  <2> DEFINE q == Min(I)
  <2>2. q \in p..Len(in) /\ in[q] = Newline /\ NextNewline(in, p) = q
    BY <1>1, <1>4, <2>1
  <2>3. ASSUME NEW i \in p..(q - 1) PROVE in[i] # Newline
    <3>1. i \in p..Len(in) /\ ~(q <= i)
      BY <1>2, <2>2
    <3> QED
      BY <2>1, <3>1
  <2> HIDE DEF q
  <2> QED
    BY <2>2, <2>3
<1> QED
  BY <1>3, <1>4

Lens == Declared \cup {Absent}
Starts(in) == (1..(Len(in) + 1)) \X Lens

(* One header line, read from w[1] on: the reading it ends, or what follows.*)
Line(in, w) == SubSeq(in, w[1], NextNewline(in, w[1]) - 1)
After(in, w) == SubSeq(in, NextNewline(in, w[1]) + 1, Len(in))
Goes(in, w) == NextNewline(in, w[1]) # 0 /\ Line(in, w) # <<>> /\ HasColon(Line(in, w))
Onward(in, w) == <<NextNewline(in, w[1]) + 1, DeclaredBy(Line(in, w), w[2])>>
Ends(in, w) ==
  IF NextNewline(in, w[1]) = 0 THEN RanOut
  ELSE IF Line(in, w) = <<>> THEN ReadContent(After(in, w), w[2])
  ELSE Result(Failed, After(in, w))

IsHeader(in, h) ==
  h = [w \in Starts(in) |-> IF Goes(in, w) THEN h[Onward(in, w)] ELSE Ends(in, w)]

Outcome == [message : Seq(Atom), rest : Seq(Atom), state : {"reading", "spoilt", "crashed"}]

(* A line that was read, and what follows it.                              *)
LEMMA LineIs ==
  ASSUME NEW in \in Seq(Atom), NEW w \in Starts(in), NextNewline(in, w[1]) # 0
  PROVE  /\ Line(in, w) \in Seq(Atom) /\ After(in, w) \in Seq(Atom)
         /\ Len(Line(in, w)) = NextNewline(in, w[1]) - w[1]
         /\ NextNewline(in, w[1]) \in 1..Len(in) /\ w[1] \in 1..Len(in) /\ w[1] <= NextNewline(in, w[1])
         /\ \A i \in 1..(NextNewline(in, w[1]) - w[1]) : Line(in, w)[i] = in[w[1] + i - 1]
<1> DEFINE p == w[1]
           q == NextNewline(in, p)
<1>1. p \in 1..(Len(in) + 1) /\ Len(in) \in Nat
  BY DEF Starts
<1>2. q \in p..Len(in)
  BY <1>1, NextNewlineIs
<1>3. Line(in, w) = SubSeq(in, p, q - 1) /\ After(in, w) = SubSeq(in, q + 1, Len(in))
  BY DEF Line, After
<1> HIDE DEF p, q
<1>4. /\ SubSeq(in, p, q - 1) \in Seq(Atom) /\ SubSeq(in, q + 1, Len(in)) \in Seq(Atom)
      /\ Len(SubSeq(in, p, q - 1)) = q - p
      /\ \A i \in 1..(q - p) : SubSeq(in, p, q - 1)[i] = in[p + i - 1]
  BY <1>1, <1>2
<1> QED
  BY <1>1, <1>2, <1>3, <1>4 DEF p, q

(* A header line that counts leads on to a later place.                    *)
LEMMA GoesOn ==
  ASSUME NEW in \in Seq(Atom), NEW w \in Starts(in), Goes(in, w)
  PROVE  Onward(in, w) \in Starts(in) /\ w[1] < Onward(in, w)[1]
<1> DEFINE q == NextNewline(in, w[1])
           l == Line(in, w)
<1>1. /\ l \in Seq(Atom) /\ Len(l) = q - w[1] /\ l # <<>>
      /\ q \in 1..Len(in) /\ w[1] \in 1..Len(in) /\ w[1] <= q /\ Len(in) \in Nat
  BY LineIs DEF Goes
<1> HIDE DEF q, l
<1>2. 1 \in 1..Len(l) /\ l[1] \in Atom
  BY <1>1
<1>3. l[1][1] = "len" => l[1][2] \in Declared
  BY <1>2 DEF Atom
<1>4. w[2] \in Lens
  BY DEF Starts
<1>5. DeclaredBy(l, w[2]) \in Lens
  BY <1>3, <1>4 DEF DeclaredBy, Declares, Lens
<1>6. q + 1 \in 1..(Len(in) + 1) /\ w[1] < q + 1
  BY <1>1
<1>7. Onward(in, w) = <<q + 1, DeclaredBy(l, w[2])>>
  BY DEF Onward, q, l
<1> DEFINE d == DeclaredBy(l, w[2])
<1> HIDE DEF d
<1> QED
  BY <1>5, <1>6, <1>7 DEF Starts, d

(* A message is a text.                                                    *)
LEMMA ConvertTyped ==
  ASSUME NEW x \in Seq(Atom) PROVE Convert(x) \in Seq(Atom)
<1> DEFINE c == Convert(x)
<1>1. c = x \/ c = <<>>
  BY DEF Convert, Failed
<1>2. <<>> \in Seq(Atom)
  OBVIOUS
<1> HIDE DEF c
<1>3. c \in Seq(Atom)
  BY <1>1, <1>2
<1> QED
  BY <1>3 DEF c

(* A reading that ends has an outcome.                                     *)
LEMMA EndsTyped ==
  ASSUME NEW in \in Seq(Atom), NEW w \in Starts(in), ~Goes(in, w)
  PROVE  Ends(in, w) \in Outcome
<1> DEFINE q == NextNewline(in, w[1])
           a == After(in, w)
           v == w[2]
<1>0. <<>> \in Seq(Atom)
  OBVIOUS
<1>1. CASE q = 0
  BY <1>0, <1>1 DEF Ends, RanOut, Outcome, Failed
<1>2. CASE q # 0
  <2>1. a \in Seq(Atom)
    BY <1>2, LineIs
  <2>2. v \in Nat \cup {Negative, NotANumber, Absent}
    BY DEF Starts, Lens, Declared
  <2>3. Result(Failed, a) \in Outcome
    BY <1>0, <2>1 DEF Result, Outcome, Failed
  <2> HIDE DEF a, v
  <2>4. ReadContent(a, v) \in Outcome
    <3>1. CASE v = Negative
      BY <1>0, <2>1, <3>1 DEF ReadContent, Outcome, Failed
    <3>2. CASE v # Negative /\ v \in {Absent, NotANumber}
      BY <2>3, <3>2 DEF ReadContent
    <3>3. CASE v # Negative /\ v \notin {Absent, NotANumber} /\ v > Len(a)
      BY <1>0, <3>3 DEF ReadContent, RanOut, Outcome, Failed
    <3>4. CASE v # Negative /\ v \notin {Absent, NotANumber} /\ ~(v > Len(a))
      <4>1. v \in Nat /\ v <= Len(a) /\ Len(a) \in Nat
        BY <2>1, <2>2, <3>4
      <4> DEFINE x == SubSeq(a, 1, v)
                 y == SubSeq(a, v + 1, Len(a))
      <4>2. x \in Seq(Atom) /\ y \in Seq(Atom)
        BY <2>1, <4>1
      <4>3. ReadContent(a, v) = Result(Convert(x), y)
        BY <3>4 DEF ReadContent
      <4> HIDE DEF x, y
      <4> QED
        BY <4>2, <4>3, ConvertTyped DEF Result, Outcome
    <3> QED
      BY <3>1, <3>2, <3>3, <3>4
  <2> QED
    BY <1>2, <2>3, <2>4 DEF Ends, a, v, q
<1> QED
  BY <1>1, <1>2

(* The loop over the header lines does what its lines say, one after the   *)
(* other.                                                                  *)
LEMMA HeaderIs ==
  ASSUME NEW in \in Seq(Atom)
  PROVE  \E h : IsHeader(in, h) /\ ReadHttpMessage(in) = h[<<1, Absent>>]
<1> DEFINE D == Starts(in)
           V == Outcome
           m == [w \in D |-> Len(in) + 1 - w[1]]
           E(g, w) == IF Goes(in, w) THEN g[Onward(in, w)] ELSE Ends(in, w)
           F == [g \in [D -> V] |-> [w \in D |-> E(g, w)]]
<1>1. ReadHttpMessage(in) = (CHOOSE h : IsHeader(in, h))[<<1, Absent>>]
  BY DEF ReadHttpMessage, IsHeader, Starts, Goes, Onward, Ends, Line, After, NextNewline, Lens
<1>2. Len(in) \in Nat
  OBVIOUS
<1>3. \A w \in D : w[1] \in 1..(Len(in) + 1)
  BY DEF Starts
<1>4. m \in [D -> Nat]
  BY <1>2, <1>3
<1>5. \A w \in D : Goes(in, w) => Onward(in, w) \in D /\ m[Onward(in, w)] < m[w]
  <2> SUFFICES ASSUME NEW w \in D, Goes(in, w)
               PROVE  Onward(in, w) \in D /\ m[Onward(in, w)] < m[w]
    OBVIOUS
  <2> DEFINE x == Onward(in, w)
  <2>1. x \in D /\ w[1] < x[1]
    BY GoesOn
  <2> HIDE DEF x, D
  <2>2. m[x] < m[w]
    BY <1>2, <1>3, <2>1
  <2> QED
    BY <2>1, <2>2 DEF x
<1>6. \A w \in D : ~Goes(in, w) => Ends(in, w) \in V
  BY EndsTyped
<1> HIDE DEF D, V, m
<1>7. F \in [[D -> V] -> [D -> V]] /\ \A g \in [D -> V] : \A w \in D : F[g][w] = E(g, w)
  BY <1>5, <1>6
<1>8. \A g, h \in [D -> V] : \A x \in D :
        (\A y \in D : m[y] < m[x] => g[y] = h[y]) => F[g][x] = F[h][x]
  BY <1>5, <1>7
<1>9. Descends(F, D, V, m)
  BY <1>4, <1>7, <1>8 DEF Descends
<1>10. V # {}
  <2>1. RanOut \in Outcome
    <3> <<>> \in Seq(Atom)
      OBVIOUS
    <3> QED
      BY DEF RanOut, Outcome, Failed
  <2> QED
    BY <2>1 DEF V
<1>11. Tells(F, D, V)
  <2> HIDE DEF F
  <2> QED
    BY <1>9, <1>10, RecursionHasFixpoint
<1>12. \E h : IsHeader(in, h)
  BY <1>11 DEF Tells, IsHeader, D
<1> DEFINE c == CHOOSE h : IsHeader(in, h)
<1>13. IsHeader(in, c)
  BY <1>12
<1> QED
  BY <1>1, <1>13

-------------------------------------------------------------------------------
(* A part of a text.                                                       *)
LEMMA PartIs ==
  ASSUME NEW in \in Seq(Atom), NEW q \in Nat, NEW m \in Nat, q + m <= Len(in)
  PROVE  /\ SubSeq(in, q + 1, q + m) \in Seq(Atom)
         /\ Len(SubSeq(in, q + 1, q + m)) = m
         /\ \A i \in 1..m : SubSeq(in, q + 1, q + m)[i] = in[q + i]
OBVIOUS

(* A part of what follows is a part of the whole.                          *)
LEMMA PartOfRest ==
  ASSUME NEW in \in Seq(Atom), NEW q \in 0..Len(in), NEW i \in Nat, NEW j \in 0..(Len(in) - q),
         1 <= i
  PROVE  SubSeq(SubSeq(in, q + 1, Len(in)), i, j) = SubSeq(in, q + i, q + j)
<1> DEFINE n == Len(in)
           a == SubSeq(in, q + 1, n)
           x == SubSeq(a, i, j)
           y == SubSeq(in, q + i, q + j)
<1>1. n \in Nat /\ q \in Nat /\ j \in Nat /\ q <= n /\ q + j <= n
  OBVIOUS
<1>2. a \in Seq(Atom) /\ Len(a) = n - q /\ \A k \in 1..(n - q) : a[k] = in[q + k]
  BY <1>1
<1> HIDE DEF a
<1>3. CASE i <= j
  <2>1. x \in Seq(Atom) /\ Len(x) = j - i + 1 /\ \A k \in 1..(j - i + 1) : x[k] = a[i + k - 1]
    BY <1>1, <1>2, <1>3
  <2>2. y \in Seq(Atom) /\ Len(y) = j - i + 1 /\ \A k \in 1..(j - i + 1) : y[k] = in[q + i + k - 1]
    BY <1>1, <1>3
  <2> HIDE DEF x, y, n
  <2>3. \A k \in 1..(j - i + 1) : x[k] = y[k]
    <3> SUFFICES ASSUME NEW k \in 1..(j - i + 1) PROVE x[k] = y[k]
      OBVIOUS
    <3>1. i + k - 1 \in 1..(n - q)
      BY <1>1, <1>3
    <3>2. a[i + k - 1] = in[q + (i + k - 1)]
      BY <1>2, <3>1
    <3>3. q + (i + k - 1) = q + i + k - 1
      BY <1>1
    <3> QED
      BY <2>1, <2>2, <3>2, <3>3
  <2>4. x = y
    BY <2>1, <2>2, <2>3
  <2> QED
    BY <2>4 DEF x, y, a, n
<1>4. CASE ~(i <= j)
  <2>1. x = <<>> /\ y = <<>>
    BY <1>1, <1>2, <1>4
  <2> QED
    BY <2>1 DEF x, y, a, n
<1> QED
  BY <1>3, <1>4

(* What a reading leaves of its input is an end of it, and a message stood *)
(* right before.                                                           *)
Keeps(in, r) ==
  \E a, b \in 0..Len(in) :
    /\ a <= b /\ r.rest = SubSeq(in, b + 1, Len(in))
    /\ r.message # Failed =>
         r.message = SubSeq(in, a + 1, b) /\ r.message \in JsonRpc

(* True of a reading that ends here.                                       *)
LEMMA EndsKeeps ==
  ASSUME NEW in \in Seq(Atom), NEW w \in Starts(in), ~Goes(in, w)
  PROVE  Keeps(in, Ends(in, w))
<1> DEFINE q == NextNewline(in, w[1])
           n == Len(in)
           v == w[2]
           left == After(in, w)
<1>1. n \in Nat /\ v \in Nat \cup {Negative, NotANumber, Absent}
  BY DEF Starts, Lens, Declared
<1>2. ASSUME NEW r, r.message = Failed, NEW b \in 0..n, r.rest = SubSeq(in, b + 1, n)
      PROVE  Keeps(in, r)
  BY <1>1, <1>2 DEF Keeps
<1>3. ASSUME Ends(in, w) = RanOut PROVE Keeps(in, RanOut)
  <2>1. RanOut.message = Failed /\ RanOut.rest = <<>>
    BY DEF RanOut
  <2>2. n \in 0..n /\ <<>> = SubSeq(in, n + 1, n)
    BY <1>1
  <2> QED
    BY <1>2, <2>1, <2>2
<1>4. CASE q = 0
  BY <1>3, <1>4 DEF Ends
<1>5. CASE q # 0
  <2>1. q \in 1..n /\ left \in Seq(Atom) /\ left = SubSeq(in, q + 1, n)
    BY <1>5, LineIs DEF After
  <2>2. Len(left) = n - q /\ q \in 0..n
    BY <1>1, <2>1
  <2> HIDE DEF left, q, v
  <2>3. ASSUME NEW s, NEW r, r = [message |-> Failed, rest |-> left, state |-> s]
        PROVE  Keeps(in, r)
    <3>1. r.message = Failed /\ r.rest = SubSeq(in, q + 1, n)
      BY <2>1, <2>3
    <3> QED
      BY <1>2, <2>2, <3>1
  <2>4. ASSUME Ends(in, w) = ReadContent(left, v) PROVE Keeps(in, Ends(in, w))
    <3>1. CASE v = Negative
      BY <2>3, <2>4, <3>1 DEF ReadContent
    <3>2. CASE v # Negative /\ v \in {Absent, NotANumber}
      BY <2>3, <2>4, <3>2 DEF ReadContent, Result
    <3>3. CASE v # Negative /\ v \notin {Absent, NotANumber} /\ v > Len(left)
      BY <1>3, <2>4, <3>3 DEF ReadContent
    <3>4. CASE v # Negative /\ v \notin {Absent, NotANumber} /\ ~(v > Len(left))
      <4>1. v \in 0..(n - q) /\ v \in Nat
        BY <1>1, <2>2, <3>4
      <4> DEFINE x == SubSeq(left, 1, v)
                 y == SubSeq(left, v + 1, Len(left))
                 c == Convert(x)
                 r == Ends(in, w)
      <4>2. x = SubSeq(in, q + 1, q + v)
        BY <2>1, <2>2, <4>1, PartOfRest
      <4>3. y = SubSeq(in, q + (v + 1), q + (n - q))
        <5>1. n - q \in 0..(n - q) /\ v + 1 \in Nat /\ 1 <= v + 1
          BY <1>1, <2>2, <4>1
        <5> DEFINE i == v + 1
                   j == n - q
        <5> HIDE DEF i, j
        <5>2. SubSeq(SubSeq(in, q + 1, Len(in)), i, j) = SubSeq(in, q + i, q + j)
          BY <2>2, <5>1, PartOfRest DEF i, j
        <5> QED
          BY <2>1, <2>2, <5>2 DEF i, j
      <4>4. q + (v + 1) = (q + v) + 1 /\ q + (n - q) = n /\ q + v \in 0..n /\ q <= q + v
        BY <1>1, <2>2, <4>1
      <4>5. r.message = c /\ r.rest = y
        <5>1. r = Result(Convert(x), y)
          BY <2>4, <3>4 DEF ReadContent
        <5> HIDE DEF r, x, y
        <5> QED
          BY <5>1 DEF Result
      <4>6. c # Failed => c = x /\ x \in JsonRpc
        BY DEF Convert
      <4> HIDE DEF x, y, c, r
      <4>7. r.rest = SubSeq(in, (q + v) + 1, n)
        BY <4>3, <4>4, <4>5
      <4>8. Keeps(in, r)
        BY <2>2, <4>2, <4>4, <4>5, <4>6, <4>7 DEF Keeps
      <4> QED
        BY <4>8 DEF r
    <3> QED
      BY <3>1, <3>2, <3>3, <3>4
  <2>5. Line(in, w) # <<>> => Ends(in, w) = [message |-> Failed, rest |-> left, state |-> "reading"]
    BY <1>5 DEF Ends, Result, q, left
  <2>6. Line(in, w) = <<>> => Ends(in, w) = ReadContent(left, v)
    BY <1>5 DEF Ends, q, left, v
  <2> QED
    BY <2>3, <2>4, <2>5, <2>6
<1> QED
  BY <1>4, <1>5

(* Whatever a reading has in common at its ends it has from any start.     *)
LEMMA HeaderInduction ==
  ASSUME NEW in \in Seq(Atom), NEW h, IsHeader(in, h), NEW S,
         \A w \in Starts(in) : ~Goes(in, w) => Ends(in, w) \in S
  PROVE  \A w \in Starts(in) : h[w] \in S
<1> DEFINE D == Starts(in)
           T == {k \in Nat : \A w \in D : Len(in) + 1 - w[1] < k => h[w] \in S}
<1>1. Len(in) \in Nat /\ \A w \in D : w[1] \in 1..(Len(in) + 1)
  BY DEF Starts
<1>2. \A w \in D : h[w] = IF Goes(in, w) THEN h[Onward(in, w)] ELSE Ends(in, w)
  BY DEF IsHeader
<1>3. 0 \in T
  BY <1>1
<1>4. ASSUME NEW k \in Nat, k \in T PROVE k + 1 \in T
  <2> SUFFICES ASSUME NEW w \in D, Len(in) + 1 - w[1] < k + 1 PROVE h[w] \in S
    OBVIOUS
  <2>1. CASE ~Goes(in, w)
    BY <1>2, <2>1
  <2>2. CASE Goes(in, w)
    <3> DEFINE x == Onward(in, w)
    <3>1. x \in D /\ w[1] < x[1]
      BY <2>2, GoesOn
    <3> HIDE DEF x, D
    <3>2. Len(in) + 1 - x[1] < k
      BY <1>1, <3>1
    <3>3. h[x] \in S
      BY <1>4, <3>1, <3>2
    <3> QED
      BY <1>2, <2>2, <3>3 DEF x
  <2> QED
    BY <2>1, <2>2
<1> HIDE DEF T
<1>5. \A k \in Nat : k \in T
  BY <1>3, <1>4, InductionOnNat
<1> SUFFICES ASSUME NEW w \in D PROVE h[w] \in S
  OBVIOUS
<1> HIDE DEF D
<1>6. Len(in) + 2 - w[1] \in Nat /\ Len(in) + 1 - w[1] < Len(in) + 2 - w[1]
  BY <1>1
<1> QED
  BY <1>5, <1>6 DEF T

(* ParseHttpMessage of any input takes a beginning of it, and what it      *)
(* returns as a message was the end of that beginning.                     *)
LEMMA ReadKeeps ==
  ASSUME NEW in \in Seq(Atom)
  PROVE  ReadHttpMessage(in) \in Outcome /\ Keeps(in, ReadHttpMessage(in))
<1> DEFINE S == {r \in Outcome : Keeps(in, r)}
           w == <<1, Absent>>
<1>1. PICK h : IsHeader(in, h) /\ ReadHttpMessage(in) = h[w]
  BY HeaderIs
<1>2. \A x \in Starts(in) : ~Goes(in, x) => Ends(in, x) \in S
  BY EndsTyped, EndsKeeps
<1>3. w \in Starts(in)
  <2>1. Len(in) \in Nat
    OBVIOUS
  <2>2. 1 \in 1..(Len(in) + 1)
    BY <2>1
  <2> QED
    BY <2>2 DEF Starts, Lens
<1> HIDE DEF S, w
<1>4. h[w] \in S
  BY <1>1, <1>2, <1>3, HeaderInduction
<1> QED
  BY <1>1, <1>4 DEF S

-------------------------------------------------------------------------------
(* Where the body of a frame is in its stream.                             *)
LEMMA BodyStands ==
  ASSUME NEW frames \in Streams, NEW k \in 1..Len(frames)
  PROVE  /\ Len(frames[k].body) \in Nat /\ Len(frames[k].body) <= End(frames, k)
         /\ SubSeq(Stream(frames), End(frames, k) - Len(frames[k].body) + 1, End(frames, k))
              = frames[k].body
<1> DEFINE f == frames[k]
           B == Bytes(f)
           t == Stream(frames)
           body == f.body
           p == Len(f.head)
           e == End(frames, k)
           d == End(frames, k - 1)
           m == Len(body)
           N == Len(t)
<1>1. Len(frames) \in Nat /\ k \in 0..Len(frames) /\ k - 1 \in 0..Len(frames) /\ Len(frames) \in 0..Len(frames)
  BY StreamIs
<1>2. /\ f \in Frame /\ t \in Seq(Atom) /\ e = d + Len(B) /\ Len(B) \in Nat
      /\ d \in Nat /\ e \in Nat /\ e <= N /\ N \in Nat
  BY <1>1, StreamIs
<1>3. \A i \in 1..Len(B) : t[d + i] = B[i]
  BY StreamIs
<1>4. PICK Q : Layout(f, Q)
  BY <1>2, BytesIs
<1>5. body \in Seq(Atom) /\ m \in Nat /\ p \in Nat
  BY <1>2, FrameIs
<1>6. Q[p] \in Nat /\ Len(B) = Q[p] + 1 + m /\ \A i \in 1..m : B[Q[p] + 1 + i] = body[i]
  <2>1. Q \in [0..p -> Nat]
    BY <1>4 DEF Layout
  <2>2. p \in 0..p
    BY <1>5
  <2>3. Q[p] \in Nat
    BY <2>1, <2>2
  <2>4. Len(B) = Q[p] + 1 + m /\ \A i \in 1..m : B[Q[p] + 1 + i] = body[i]
    BY <1>4 DEF Layout
  <2> QED
    BY <2>3, <2>4
<1> HIDE DEF f, B, t, body, p, e, d, m, N
<1>7. ASSUME NEW i \in 1..m PROVE t[e - m + i] = body[i]
  <2> DEFINE j == Q[p] + 1 + i
  <2>1. j \in 1..Len(B) /\ d + j = e - m + i
    <3> DEFINE z == Q[p]
               l == Len(B)
    <3>1. /\ z \in Nat /\ m \in Nat /\ d \in Nat /\ l = z + 1 + m /\ e = d + l
          /\ j = z + 1 + i /\ i \in 1..m
      BY <1>2, <1>5, <1>6
    <3> HIDE DEF z, l, j
    <3>2. j \in 1..l /\ d + j = e - m + i
      BY <3>1
    <3> QED
      BY <3>2 DEF l
  <2>2. B[j] = body[i]
    BY <1>6
  <2> HIDE DEF j
  <2> QED
    BY <1>3, <2>1, <2>2
<1>8. m <= e
  <2> DEFINE z == Q[p]
             l == Len(B)
  <2>1. z \in Nat /\ m \in Nat /\ d \in Nat /\ l = z + 1 + m /\ e = d + l
    BY <1>2, <1>5, <1>6
  <2> HIDE DEF z, l
  <2> QED
    BY <2>1
<1> DEFINE x == SubSeq(t, e - m + 1, e)
<1>9. x \in Seq(Atom) /\ Len(x) = m /\ \A i \in 1..m : x[i] = t[e - m + i]
  <2> DEFINE j == e - m
  <2>1. j \in Nat /\ j + m = e /\ j + m <= Len(t)
    BY <1>2, <1>5, <1>8 DEF N
  <2> HIDE DEF j, x
  <2>2. x = SubSeq(t, j + 1, j + m)
    BY <2>1 DEF x, j
  <2>3. x \in Seq(Atom) /\ Len(x) = m /\ \A i \in 1..m : x[i] = t[j + i]
    BY <1>2, <1>5, <2>1, <2>2
  <2> QED
    BY <2>3 DEF j
<1> HIDE DEF x
<1>10. x = body
  BY <1>5, <1>7, <1>9 DEF m
<1> QED
  BY <1>5, <1>8, <1>10 DEF x, t, e, m, body, f

(* What is left to read is an end of the stream, and what was delivered    *)
(* are parts of it, one before the other: places[i] is where got[i] was.   *)
Placed(places, c) ==
  /\ places \in [Delivered -> (0..c) \X (0..c)]
  /\ \A i \in Delivered :
       /\ got[i] \in JsonRpc /\ places[i][1] < places[i][2]
       /\ got[i] = SubSeq(Stream(sent), places[i][1] + 1, places[i][2])
  /\ \A i, j \in Delivered : i < j => places[i][2] <= places[j][1]

Unread(c) == rest = SubSeq(Stream(sent), c + 1, Len(Stream(sent)))

PartsOfTheStream == \E c \in 0..Len(Stream(sent)) : Unread(c) /\ \E places : Placed(places, c)

ReadInv == sent \in Streams /\ got \in Seq(Seq(Atom)) /\ PartsOfTheStream

(* Nothing is read yet.                                                    *)
LEMMA ReadInvInit == Init => ReadInv
<1> SUFFICES ASSUME Init PROVE ReadInv
  OBVIOUS
<1>1. sent \in Streams /\ got = <<>> /\ rest = Stream(sent)
  BY DEF Init
<1>2. Delivered = {}
  BY <1>1 DEF Delivered
<1>3. Stream(sent) \in Seq(Atom)
  BY <1>1, StreamIs
<1> DEFINE t == Stream(sent)
<1> HIDE DEF t
<1>4. SubSeq(t, 0 + 1, Len(t)) = t /\ 0 \in 0..Len(t)
  BY <1>3 DEF t
<1>5. Placed([i \in Delivered |-> <<0, 0>>], 0)
  BY <1>2 DEF Placed
<1>6. Unread(0)
  BY <1>1, <1>4 DEF Unread, t
<1>7. got \in Seq(Seq(Atom))
  BY <1>1
<1> QED
  BY <1>1, <1>4, <1>5, <1>6, <1>7 DEF ReadInv, PartsOfTheStream, t

(* Each message that is read stood after the last one.                     *)
LEMMA ReadInvStep == ReadInv /\ ReadRequest => ReadInv'
<1> SUFFICES ASSUME ReadInv, ReadRequest PROVE ReadInv'
  OBVIOUS
<1> DEFINE t == Stream(sent)
           N == Len(t)
           r == ReadHttpMessage(rest)
           n == Len(got)
           D == Delivered
<1>1. /\ sent' = sent /\ rest' = r.rest /\ got' = Append(got, r.message)
  BY DEF ReadRequest
<1>2. sent \in Streams /\ got \in Seq(Seq(Atom))
  BY DEF ReadInv
<1>3. t \in Seq(Atom) /\ N \in Nat
  BY <1>2, StreamIs
<1>4. PICK c \in 0..N : Unread(c) /\ \E places : Placed(places, c)
  BY DEF ReadInv, PartsOfTheStream
<1>5. PICK places : Placed(places, c)
  BY <1>4
<1>6. rest = SubSeq(t, c + 1, N)
  BY <1>4 DEF Unread
<1>7. rest \in Seq(Atom) /\ Len(rest) = N - c
  <2> HIDE DEF t, N
  <2> QED
    BY <1>3, <1>4, <1>6 DEF N
<1>8. r \in Outcome /\ Keeps(rest, r)
  BY <1>7, ReadKeeps
<1>9. PICK a \in 0..(N - c), b \in 0..(N - c) :
        /\ a <= b /\ r.rest = SubSeq(rest, b + 1, Len(rest))
        /\ r.message # Failed =>
             r.message = SubSeq(rest, a + 1, b) /\ r.message \in JsonRpc
  <2> HIDE DEF N, r
  <2> QED
    BY <1>7, <1>8 DEF Keeps
<1> DEFINE e == c + b
           s == c + a
           x == r.message
<1>10. e \in 0..N /\ s \in 0..e /\ c \in 0..s /\ s <= e /\ c \in Nat
  <2> HIDE DEF N
  <2> QED
    BY <1>3, <1>4, <1>9
<1>11. r.rest = SubSeq(t, e + 1, N)
  <2>0. b + 1 \in Nat /\ N - c \in 0..(N - c) /\ 1 <= b + 1 /\ c \in 0..Len(t)
    <3> HIDE DEF t
    <3> QED
      BY <1>3, <1>4, <1>9
  <2> DEFINE i == b + 1
             j == N - c
  <2> HIDE DEF i, j, t, r
  <2>1. SubSeq(SubSeq(t, c + 1, Len(t)), i, j) = SubSeq(t, c + i, c + j)
    BY <1>3, <2>0, PartOfRest DEF i, j
  <2>2. r.rest = SubSeq(rest, i, j)
    BY <1>7, <1>9 DEF i, j
  <2>3. c + i = e + 1 /\ c + j = N
    BY <1>3, <1>9, <1>10 DEF i, j
  <2> QED
    BY <1>6, <2>1, <2>2, <2>3
<1>12. Unread(e)'
  BY <1>1, <1>11 DEF Unread
<1>13. x \in Seq(Atom)
  <2> HIDE DEF r
  <2> QED
    BY <1>8 DEF Outcome
<1> HIDE DEF x
<1>14. got' \in Seq(Seq(Atom)) /\ n \in Nat
  <2> DEFINE U == Seq(Atom)
  <2> HIDE DEF U
  <2>1. x \in U /\ got \in Seq(U) /\ got' = Append(got, x)
    BY <1>1, <1>2, <1>13 DEF U, x
  <2>2. Append(got, x) \in Seq(U) /\ Len(got) \in Nat
    BY <2>1
  <2> QED
    BY <2>1, <2>2 DEF U
<1>15. /\ D' = (IF x = Failed THEN D ELSE D \cup {n + 1}) /\ D \subseteq 1..n
       /\ (\A i \in 1..n : got'[i] = got[i]) /\ got'[n + 1] = x
  <2> DEFINE U == Seq(Atom)
  <2> HIDE DEF U
  <2>0. x \in U /\ got \in Seq(U) /\ got' = Append(got, x)
    BY <1>1, <1>2, <1>13 DEF U, x
  <2>1. /\ DOMAIN got = 1..n /\ DOMAIN got' = 1..(n + 1) /\ n \in Nat
        /\ \A i \in 1..n : got'[i] = got[i]
        /\ got'[n + 1] = x
    BY <2>0
  <2>2. D \subseteq 1..n
    BY <2>1 DEF Delivered
  <2>3. D' = (IF x = Failed THEN D ELSE D \cup {n + 1})
    BY <2>1 DEF Delivered
  <2> QED
    BY <2>1, <2>2, <2>3
<1>16. /\ places \in [D -> (0..c) \X (0..c)]
       /\ \A i \in D : /\ got[i] \in JsonRpc /\ places[i][1] < places[i][2]
                       /\ got[i] = SubSeq(t, places[i][1] + 1, places[i][2])
       /\ \A i, j \in D : i < j => places[i][2] <= places[j][1]
  BY <1>5 DEF Placed
<1>17. \A i \in D : places[i] \in (0..e) \X (0..e) /\ places[i][2] <= s
  <2> SUFFICES ASSUME NEW i \in D PROVE places[i] \in (0..e) \X (0..e) /\ places[i][2] <= s
    OBVIOUS
  <2> DEFINE p == places[i]
  <2>1. p \in (0..c) \X (0..c)
    BY <1>16
  <2> HIDE DEF p, s, e
  <2>2. p \in (0..e) \X (0..e) /\ p[2] <= s
    BY <1>10, <2>1
  <2> QED
    BY <2>2 DEF p
<1> HIDE DEF t, N, D, r
<1>18. ASSUME NEW q, Placed(q, e)' PROVE ReadInv'
  <2>1. e \in 0..Len(Stream(sent'))
    BY <1>1, <1>10 DEF N, t
  <2>2. PartsOfTheStream'
    BY <1>12, <1>18, <2>1 DEF PartsOfTheStream
  <2> QED
    BY <1>1, <1>2, <1>14, <2>2 DEF ReadInv
<1>19. CASE x = Failed
  <2>1. Delivered' = D
    BY <1>15, <1>19 DEF D
  <2>2. places \in [D -> (0..e) \X (0..e)]
    BY <1>16, <1>17
  <2>3. \A i \in D : got'[i] = got[i]
    BY <1>15
  <2>4. Placed(places, e)'
    BY <1>1, <1>16, <2>1, <2>2, <2>3 DEF Placed, t
  <2> QED
    BY <1>18, <2>4
<1>20. CASE x # Failed
  <2>1. x = SubSeq(t, s + 1, e) /\ x \in JsonRpc
    <3> DEFINE i == a + 1
    <3>1. i \in Nat /\ 1 <= i /\ b \in 0..(N - c) /\ c \in 0..Len(t)
      BY <1>4, <1>9 DEF N
    <3> HIDE DEF i
    <3>2. SubSeq(SubSeq(t, c + 1, Len(t)), i, b) = SubSeq(t, c + i, c + b)
      BY <1>3, <3>1, PartOfRest DEF N
    <3>3. c + i = s + 1
      BY <1>9, <1>10, <3>1 DEF i
    <3> QED
      BY <1>6, <1>9, <1>20, <3>2, <3>3 DEF i, x, N
  <2>2. s < e
    <3>1. x = <<>> \/ s < e
      BY <1>3, <1>10, <2>1 DEF N
    <3> QED
      BY <1>20, <3>1 DEF Failed
  <2>3. n + 1 \notin D /\ D' = D \cup {n + 1} /\ Delivered' = D'
    BY <1>14, <1>15, <1>20 DEF D
  <2>4. <<s, e>> \in (0..e) \X (0..e)
    BY <1>10
  <2>5. PICK q : /\ q \in [D' -> (0..e) \X (0..e)]
                 /\ (\A i \in D : q[i] = places[i]) /\ q[n + 1] = <<s, e>>
    <3> DEFINE q == [i \in D' |-> IF i \in D THEN places[i] ELSE <<s, e>>]
    <3>1. /\ q \in [D' -> (0..e) \X (0..e)]
          /\ (\A i \in D : q[i] = places[i]) /\ q[n + 1] = <<s, e>>
      BY <1>17, <2>3, <2>4
    <3> QED
      BY <3>1
  <2>6. \A i \in D' : /\ got'[i] \in JsonRpc /\ q[i][1] < q[i][2]
                      /\ got'[i] = SubSeq(t, q[i][1] + 1, q[i][2])
    <3>1. \A i \in D : /\ got'[i] \in JsonRpc /\ q[i][1] < q[i][2]
                       /\ got'[i] = SubSeq(t, q[i][1] + 1, q[i][2])
      BY <1>15, <1>16, <2>5
    <3>2. q[n + 1][1] = s /\ q[n + 1][2] = e
      BY <2>5
    <3>3. /\ got'[n + 1] \in JsonRpc /\ q[n + 1][1] < q[n + 1][2]
          /\ got'[n + 1] = SubSeq(t, q[n + 1][1] + 1, q[n + 1][2])
      BY <1>15, <2>1, <2>2, <3>2
    <3> QED
      BY <2>3, <3>1, <3>3
  <2>7. \A i, j \in D' : i < j => q[i][2] <= q[j][1]
    <3> SUFFICES ASSUME NEW i \in D', NEW j \in D', i < j PROVE q[i][2] <= q[j][1]
      OBVIOUS
    <3>1. i \in D
      BY <1>14, <1>15, <2>3
    <3>2. CASE j \in D
      BY <1>16, <2>5, <3>1, <3>2
    <3>3. CASE j = n + 1
      <4>1. q[j][1] = s
        BY <2>5, <3>3
      <4> QED
        BY <1>17, <2>5, <3>1, <4>1
    <3> QED
      BY <2>3, <3>2, <3>3
  <2>8. Placed(q, e)'
    BY <1>1, <2>3, <2>5, <2>6, <2>7 DEF Placed, t
  <2> QED
    BY <1>18, <2>8
<1> QED
  BY <1>19, <1>20

(* Parts of the stream that pass for messages are bodies, and parts one    *)
(* before the other are bodies one before the other.                       *)
LEMMA ReadInvProves == ReadInv => NothingMadeUp
<1> SUFFICES ASSUME ReadInv PROVE NothingMadeUp
  OBVIOUS
<1> DEFINE t == Stream(sent)
           E(k) == End(sent, k)
           m(k) == Len(sent[k].body)
<1>1. sent \in Streams
  BY DEF ReadInv
<1>2. PICK c \in 0..Len(t) : \E places : Placed(places, c)
  BY DEF ReadInv, PartsOfTheStream
<1>3. PICK places : Placed(places, c)
  BY <1>2
<1>4. DOMAIN sent = 1..Len(sent) /\ Len(sent) \in Nat /\ t \in Seq(Atom) /\ Len(t) \in Nat
  BY <1>1, StreamIs
<1>5. ASSUME NEW i \in Delivered
      PROVE  \E k \in 1..Len(sent) : places[i][2] = E(k) /\ got[i] = sent[k].body
  <2> DEFINE a == places[i][1]
             b == places[i][2]
  <2>1. /\ a \in 0..c /\ b \in 0..c /\ got[i] \in JsonRpc
        /\ got[i] = SubSeq(t, a + 1, b)
    BY <1>3 DEF Placed
  <2>2. a \in 0..Len(t) /\ b \in 0..Len(t)
    <3> HIDE DEF a, b, t
    <3> QED
      BY <1>2, <1>4, <2>1
  <2> HIDE DEF a, b
  <2>3. <<a, b>> \in BodyPlaces(sent)
    BY <1>1, <2>1, <2>2, BodiesAssumption
  <2>4. PICK k \in 1..Len(sent) : a = E(k) - m(k) /\ b = E(k)
    BY <1>4, <2>3 DEF BodyPlaces, End
  <2>5. SubSeq(t, E(k) - m(k) + 1, E(k)) = sent[k].body
    BY <1>1, BodyStands
  <2> QED
    BY <2>1, <2>4, <2>5 DEF b
<1> DEFINE origin == [i \in Delivered |->
             CHOOSE k \in 1..Len(sent) : places[i][2] = E(k) /\ got[i] = sent[k].body]
<1>6. \A i \in Delivered : /\ origin[i] \in 1..Len(sent)
                           /\ places[i][2] = E(origin[i]) /\ got[i] = sent[origin[i]].body
  BY <1>5
<1>7. origin \in [Delivered -> DOMAIN sent]
  BY <1>4, <1>5
<1> HIDE DEF origin
<1>8. ASSUME NEW i \in Delivered, NEW j \in Delivered, i < j PROVE origin[i] < origin[j]
  <2> DEFINE p == origin[i]
             q == origin[j]
  <2>1. p \in 1..Len(sent) /\ q \in 1..Len(sent) /\ p \in 0..Len(sent) /\ q \in 0..Len(sent)
    BY <1>4, <1>6
  <2>2. places[i][2] <= places[j][1] /\ places[j][1] < places[j][2]
    BY <1>3, <1>8 DEF Placed
  <2>3. places[i][2] \in Nat /\ places[j][1] \in Nat /\ places[j][2] \in Nat
    BY <1>3 DEF Placed
  <2>4. E(p) < E(q)
    BY <1>6, <2>2, <2>3
  <2>5. E(p) \in Nat /\ E(q) \in Nat
    BY <1>6, <2>3
  <2>6. q <= p => E(q) <= E(p)
    BY <1>1, <2>1, StreamIs
  <2> HIDE DEF p, q, E
  <2>7. p < q
    BY <1>4, <2>1, <2>4, <2>5, <2>6
  <2> QED
    BY <2>7 DEF p, q
<1> QED
  BY <1>6, <1>7, <1>8 DEF NothingMadeUp

-------------------------------------------------------------------------------
(* The first end of line is the only one with none before it.              *)
LEMMA NewlineAt ==
  ASSUME NEW in \in Seq(Atom), NEW p \in 1..Len(in), NEW q \in p..Len(in), in[q] = Newline,
         \A i \in p..(q - 1) : in[i] # Newline
  PROVE  NextNewline(in, p) = q
<1> DEFINE n == NextNewline(in, p)
<1>1. Len(in) \in Nat /\ p \in 1..(Len(in) + 1) /\ p \in Nat /\ q \in Nat
  OBVIOUS
<1>2. \/ n = 0 /\ \A i \in p..Len(in) : in[i] # Newline
      \/ n \in p..Len(in) /\ in[n] = Newline /\ \A i \in p..(n - 1) : in[i] # Newline
  BY <1>1, NextNewlineIs
<1> HIDE DEF n
<1>3. n \in p..Len(in) /\ in[n] = Newline /\ \A i \in p..(n - 1) : in[i] # Newline
  BY <1>2
<1>4. ~(n < q)
  BY <1>1, <1>3
<1>5. ~(q < n)
  BY <1>1, <1>3
<1>6. n = q
  BY <1>1, <1>3, <1>4, <1>5
<1> QED
  BY <1>6 DEF n

(* A head line read as the frame meant it.                                 *)
LEMMA LineReads ==
  ASSUME NEW in \in Seq(Atom), NEW x \in Seq(Atom), NEW p \in Nat, p + Len(x) + 1 <= Len(in),
         \A i \in 1..Len(x) : in[p + i] = x[i] /\ x[i] # Newline,
         in[p + Len(x) + 1] = Newline
  PROVE  /\ NextNewline(in, p + 1) = p + Len(x) + 1
         /\ SubSeq(in, p + 1, p + Len(x)) = x
<1> DEFINE l == Len(x)
           n == Len(in)
           q == p + l + 1
<1>1. l \in Nat /\ n \in Nat /\ q <= n /\ p + 1 \in 1..n /\ q \in (p + 1)..n
  OBVIOUS
<1>2. ASSUME NEW i \in (p + 1)..(q - 1) PROVE in[i] # Newline
  <2> DEFINE j == i - p
  <2>1. j \in 1..l /\ p + j = i
    BY <1>1
  <2> HIDE DEF j
  <2> QED
    BY <2>1
<1> DEFINE s == p + 1
<1> HIDE DEF s, q
<1>3. NextNewline(in, s) = q
  BY <1>1, <1>2, NewlineAt DEF s, q
<1> DEFINE y == SubSeq(in, p + 1, p + l)
<1>4. y \in Seq(Atom) /\ Len(y) = l /\ \A i \in 1..l : y[i] = in[p + i]
  <2> HIDE DEF l, n
  <2> QED
    BY <1>1 DEF q, n
<1> HIDE DEF y
<1>5. y = x
  BY <1>4 DEF l
<1> QED
  BY <1>3, <1>5 DEF y, s, q

(* The input begins with a frame.                                          *)
Begins(in, f) ==
  /\ Len(Bytes(f)) <= Len(in)
  /\ \A i \in 1..Len(Bytes(f)) : in[i] = Bytes(f)[i]

(* From line to line of a frame's head, up to its blank line.              *)
LEMMA HeadReads ==
  ASSUME NEW in \in Seq(Atom), NEW f \in Frame, WellFramed(f), Begins(in, f),
         NEW Q, Layout(f, Q), NEW h, IsHeader(in, h)
  PROVE  h[<<1, Absent>>] = h[<<Q[Len(f.head)] + 1, Len(f.body)>>]
<1> DEFINE p == Len(f.head)
           line(k) == f.head[k]
           m == Len(f.body)
           n == Len(in)
           L == Len(Bytes(f))
<1>1. /\ p \in Nat /\ DOMAIN f.head = 1..p /\ m \in Nat /\ n \in Nat
      /\ \A k \in 1..p : /\ line(k) \in Seq(Atom) /\ Len(line(k)) \in Nat /\ Len(line(k)) > 0
                         /\ \A i \in 1..Len(line(k)) : line(k)[i] # Newline
  <2>1. /\ p \in Nat /\ DOMAIN f.head = 1..p
        /\ \A k \in 1..p : /\ line(k) \in Seq(Atom) /\ Len(line(k)) > 0
                         /\ \A i \in 1..Len(line(k)) : line(k)[i] # Newline
    BY FrameIs
  <2>2. m \in Nat
    <3> f.body \in Seq(Atom)
      BY FrameIs
    <3> QED
      OBVIOUS
  <2> QED
    BY <2>1, <2>2
<1>2. PICK d \in 1..p : /\ Declares(line(d)) /\ line(d)[1][2] = m
                        /\ \A j \in 1..p : j > d => ~Declares(line(j))
  BY <1>1 DEF WellFramed
<1>3. \A k \in 1..p : HasColon(line(k))
  BY <1>1 DEF WellFramed
<1>4. /\ Q \in [0..p -> Nat] /\ Q[0] = 0 /\ L = Q[p] + 1 + m /\ L <= n /\ L \in Nat
      /\ \A i \in 1..L : in[i] = Bytes(f)[i]
  <2>1. Bytes(f) \in Seq(Atom)
    BY BytesIs
  <2>2. L \in Nat
    BY <2>1
  <2> QED
    BY <2>2 DEF Begins, Layout
<1>5. \A k \in 1..p : /\ Q[k] = Q[k - 1] + Len(line(k)) + 1
                      /\ \A i \in 1..Len(line(k)) : Bytes(f)[Q[k - 1] + i] = line(k)[i]
                      /\ Bytes(f)[Q[k]] = Newline
  BY DEF Layout
<1>6. \A j, k \in 0..p : j <= k => Q[j] <= Q[k]
  <2>1. \A k \in 1..p : Q[k - 1] <= Q[k]
    <3> SUFFICES ASSUME NEW k \in 1..p PROVE Q[k - 1] <= Q[k]
      OBVIOUS
    <3>0. k - 1 \in 0..p
      BY <1>1
    <3>1. Q[k - 1] \in Nat
      BY <1>4, <3>0
    <3>2. Q[k] = Q[k - 1] + Len(line(k)) + 1 /\ Len(line(k)) \in Nat
      BY <1>1, <1>5
    <3> DEFINE a == Q[k - 1]
               b == Len(line(k))
    <3> HIDE DEF a, b
    <3>3. a <= a + b + 1
      BY <3>1, <3>2 DEF a, b
    <3> QED
      BY <3>2, <3>3 DEF a, b
  <2>2. Climbs(Q, p)
    BY <1>4, <2>1 DEF Climbs
  <2> QED
    BY <1>1, <2>2, ClimbsToTheTop
<1> HIDE DEF p, m, n, L
<1> DEFINE At(k, v) == /\ v \in Lens /\ (k >= d => v = m) /\ h[<<1, Absent>>] = h[<<Q[k] + 1, v>>]
           T == {k \in Nat : k <= p => \E v : At(k, v)}
<1>7. 0 \in T
  <2>1. At(0, Absent)
    BY <1>1, <1>2, <1>4 DEF Lens
  <2> QED
    BY <2>1
<1> HIDE DEF At
<1>8. ASSUME NEW k \in Nat, k \in T PROVE k + 1 \in T
  <2> SUFFICES ASSUME k + 1 <= p PROVE \E v : At(k + 1, v)
    OBVIOUS
  <2>1. k + 1 \in 1..p /\ k \in 0..p /\ k + 1 \in 0..p /\ p \in 0..p /\ (k + 1) - 1 = k
    BY <1>1
  <2>2. PICK v : At(k, v)
    BY <1>8, <2>1
  <2> DEFINE x == line(k + 1)
             w == <<Q[k] + 1, v>>
             q == Q[k + 1]
             c == DeclaredBy(x, v)
  <2>3. x \in Seq(Atom) /\ Len(x) \in Nat /\ Len(x) > 0 /\ \A i \in 1..Len(x) : x[i] # Newline
    BY <1>1, <2>1
  <2>4. q = Q[k] + Len(x) + 1 /\ Q[k] \in Nat /\ q <= Q[p] /\ Q[p] \in Nat /\ q \in Nat
    BY <1>4, <1>5, <1>6, <2>1
  <2>5. q <= L /\ q <= n
    BY <1>1, <1>4, <2>4
  <2>6. /\ \A i \in 1..Len(x) : Bytes(f)[Q[k] + i] = x[i]
        /\ Bytes(f)[q] = Newline
    <3> DEFINE kk == k + 1
    <3>1. kk \in 1..p /\ kk - 1 = k
      BY <2>1
    <3> HIDE DEF kk
    <3>2. /\ \A i \in 1..Len(line(kk)) : Bytes(f)[Q[kk - 1] + i] = line(kk)[i]
          /\ Bytes(f)[Q[kk]] = Newline
      BY <1>5, <3>1
    <3> QED
      BY <3>1, <3>2 DEF kk
  <2> HIDE DEF x, q
  <2>7. /\ \A i \in 1..Len(x) : in[Q[k] + i] = x[i]
        /\ in[Q[k] + Len(x) + 1] = Newline
    <3>1. \A i \in 1..Len(x) : Q[k] + i \in 1..L
      <4> DEFINE z == Q[k]
                 l == Len(x)
      <4>1. z \in Nat /\ l \in Nat /\ z + l + 1 <= L /\ L \in Nat
        BY <1>4, <2>3, <2>4, <2>5
      <4> HIDE DEF z, l
      <4>2. \A i \in 1..l : z + i \in 1..L
        BY <4>1
      <4> QED
        BY <4>2 DEF z, l
    <3>2. q \in 1..L
      BY <1>4, <2>3, <2>4, <2>5
    <3> QED
      BY <1>4, <2>4, <2>6, <3>1, <3>2
  <2>8. NextNewline(in, Q[k] + 1) = q /\ SubSeq(in, Q[k] + 1, Q[k] + Len(x)) = x
    <3> DEFINE z == Q[k]
    <3>1. z \in Nat /\ z + Len(x) + 1 <= Len(in) /\ q = z + Len(x) + 1
      BY <2>4, <2>5 DEF n
    <3> HIDE DEF z
    <3>2. /\ \A i \in 1..Len(x) : in[z + i] = x[i] /\ x[i] # Newline
          /\ in[z + Len(x) + 1] = Newline
      BY <2>3, <2>7 DEF z
    <3>3. NextNewline(in, z + 1) = z + Len(x) + 1 /\ SubSeq(in, z + 1, z + Len(x)) = x
      BY <2>3, <3>1, <3>2, LineReads
    <3> QED
      BY <3>1, <3>3 DEF z
  <2>9. Line(in, w) = x
    <3>1. q - 1 = Q[k] + Len(x) /\ w[1] = Q[k] + 1
      BY <2>3, <2>4
    <3> QED
      BY <2>8, <3>1 DEF Line
  <2>10. w \in Starts(in)
    <3>1. Q[k] + 1 \in 1..(n + 1)
      BY <1>1, <2>3, <2>4, <2>5
    <3> QED
      BY <2>2, <3>1 DEF Starts, n, At
  <2>11. HasColon(x)
    BY <1>3, <2>1 DEF x
  <2>12. w[1] = Q[k] + 1 /\ w[2] = v
    OBVIOUS
  <2>13. Goes(in, w) /\ Onward(in, w) = <<q + 1, c>>
    <3>1. x # <<>> /\ q # 0
      BY <2>3, <2>4
    <3> HIDE DEF w
    <3> QED
      BY <2>8, <2>9, <2>11, <2>12, <3>1 DEF Goes, Onward
  <2> HIDE DEF w
  <2>14. h[w] = h[<<q + 1, c>>]
    BY <2>10, <2>13 DEF IsHeader
  <2>15. c \in Lens
    <3>1. Onward(in, w) \in Starts(in)
      BY <2>10, <2>13, GoesOn
    <3> HIDE DEF c
    <3> QED
      BY <2>13, <3>1 DEF Starts
  <2>16. k + 1 >= d => c = m
    <3>1. CASE k + 1 = d
      <4>1. Declares(x) /\ x[1][2] = m
        BY <1>2, <3>1 DEF x
      <4> QED
        BY <4>1 DEF DeclaredBy
    <3>2. CASE k + 1 > d
      <4>1. ~Declares(x)
        BY <1>2, <2>1, <3>2 DEF x
      <4>2. c = v /\ k >= d
        BY <3>2, <4>1 DEF DeclaredBy
      <4> QED
        BY <2>2, <4>2 DEF At
    <3> QED
      BY <3>1, <3>2
  <2> HIDE DEF c
  <2>17. At(k + 1, c)
    BY <2>2, <2>14, <2>15, <2>16 DEF w, q, At
  <2> QED
    BY <2>17
<1> HIDE DEF T
<1>9. \A k \in Nat : k \in T
  BY <1>7, <1>8, InductionOnNat
<1>10. \E v : At(p, v)
  BY <1>1, <1>9 DEF T
<1>11. p >= d
  BY <1>1, <1>2
<1> QED
  BY <1>10, <1>11 DEF p, m, At

(* ParseHttpMessage takes a frame whose head tells its length as a whole,  *)
(* whatever follows it and whatever its body holds.                        *)
LEMMA ReadWellFramed ==
  ASSUME NEW in \in Seq(Atom), NEW f \in Frame, WellFramed(f), Begins(in, f)
  PROVE  ReadHttpMessage(in) = Result(Convert(f.body), SubSeq(in, Len(Bytes(f)) + 1, Len(in)))
<1> DEFINE p == Len(f.head)
           m == Len(f.body)
           n == Len(in)
           L == Len(Bytes(f))
           body == f.body
<1>1. PICK h : IsHeader(in, h) /\ ReadHttpMessage(in) = h[<<1, Absent>>]
  BY HeaderIs
<1>2. PICK Q : Layout(f, Q)
  BY BytesIs
<1>3. h[<<1, Absent>>] = h[<<Q[p] + 1, m>>]
  BY <1>1, <1>2, HeadReads
<1>4. p \in Nat /\ body \in Seq(Atom) /\ m \in Nat /\ n \in Nat
  BY FrameIs
<1>5. /\ Q[p] \in Nat /\ L = Q[p] + 1 + m /\ L <= n
      /\ \A i \in 1..L : in[i] = Bytes(f)[i]
      /\ Bytes(f)[Q[p] + 1] = Newline
      /\ \A i \in 1..m : Bytes(f)[Q[p] + 1 + i] = body[i]
  <2>1. Q \in [0..p -> Nat] /\ p \in 0..p
    BY <1>2, <1>4 DEF Layout
  <2> QED
    BY <1>2, <2>1 DEF Layout, Begins
<1> DEFINE z == Q[p]
           w == <<z + 1, m>>
<1> HIDE DEF z, p, n, L, body
<1>6. z \in Nat /\ L = z + 1 + m /\ L <= n /\ z + 1 \in 1..L /\ z + 1 \in 1..n
  BY <1>4, <1>5 DEF z
<1>7. in[z + 1] = Newline
  BY <1>5, <1>6 DEF z
<1>8. NextNewline(in, z + 1) = z + 1
  <2> DEFINE s == z + 1
  <2>1. s \in 1..Len(in) /\ s \in s..Len(in) /\ in[s] = Newline /\ \A i \in s..(s - 1) : in[i] # Newline
    BY <1>6, <1>7 DEF n
  <2> HIDE DEF s
  <2>2. NextNewline(in, s) = s
    BY <2>1, NewlineAt
  <2> QED
    BY <2>2 DEF s
<1>9. w \in Starts(in) /\ w[1] = z + 1 /\ w[2] = m
  <2> HIDE DEF m
  <2>1. z + 1 \in 1..(n + 1)
    BY <1>4, <1>6
  <2> QED
    BY <1>4, <2>1 DEF Starts, Lens, Declared, n
<1> DEFINE a == After(in, w)
<1>10. Line(in, w) = <<>> /\ a = SubSeq(in, z + 2, n)
  <2> HIDE DEF w
  <2>1. Line(in, w) = SubSeq(in, z + 1, (z + 1) - 1) /\ a = SubSeq(in, (z + 1) + 1, n)
    BY <1>8, <1>9 DEF Line, After, n
  <2>2. (z + 1) + 1 = z + 2 /\ SubSeq(in, z + 1, (z + 1) - 1) = <<>>
    BY <1>6
  <2> QED
    BY <2>1, <2>2
<1>11. a \in Seq(Atom) /\ Len(a) = n - (z + 1)
  <2> DEFINE s == z + 1
  <2>1. s \in Nat /\ s <= n /\ s + 1 = z + 2
    BY <1>4, <1>6
  <2> HIDE DEF s, a
  <2>2. a = SubSeq(in, s + 1, n)
    BY <1>10, <2>1
  <2>3. a \in Seq(Atom) /\ Len(a) = n - s
    BY <2>1, <2>2 DEF n
  <2> QED
    BY <2>3 DEF s
<1> HIDE DEF a, w, m
<1>12. h[w] = ReadContent(a, m)
  <2>1. ~Goes(in, w)
    BY <1>10 DEF Goes
  <2>2. h[w] = Ends(in, w)
    BY <1>1, <1>9, <2>1 DEF IsHeader
  <2>3. Ends(in, w) = ReadContent(a, m)
    <3>1. NextNewline(in, w[1]) # 0
      BY <1>6, <1>8, <1>9
    <3> QED
      BY <1>9, <1>10, <3>1 DEF Ends, a
  <2> QED
    BY <2>2, <2>3
<1> DEFINE x == SubSeq(a, 1, m)
           y == SubSeq(a, m + 1, Len(a))
<1>13. ReadContent(a, m) = Result(Convert(x), y)
  <2>1. ~(m > Len(a)) /\ m # Negative /\ m \notin {Absent, NotANumber}
    BY <1>4, <1>6, <1>11 DEF Negative, Absent, NotANumber
  <2> QED
    BY <2>1 DEF ReadContent
<1>14. x = body
  <2>1. x = SubSeq(in, (z + 1) + 1, (z + 1) + m)
    <3> DEFINE q == z + 1
    <3>1. q \in 0..Len(in) /\ m \in 0..(Len(in) - q) /\ q + 1 = z + 2
      BY <1>4, <1>6 DEF n
    <3> HIDE DEF q
    <3>2. SubSeq(SubSeq(in, q + 1, Len(in)), 1, m) = SubSeq(in, q + 1, q + m)
      BY <3>1, PartOfRest
    <3> QED
      BY <1>10, <3>1, <3>2 DEF q, n
  <2>2. x \in Seq(Atom) /\ Len(x) = m /\ \A i \in 1..m : x[i] = in[(z + 1) + i]
    <3> DEFINE q == z + 1
    <3>1. q \in Nat /\ q + m <= Len(in)
      BY <1>4, <1>6 DEF n
    <3> HIDE DEF q, x
    <3>2. x = SubSeq(in, q + 1, q + m)
      BY <2>1 DEF q
    <3>3. x \in Seq(Atom) /\ Len(x) = m /\ \A i \in 1..m : x[i] = in[q + i]
      BY <1>4, <3>1, <3>2, PartIs
    <3> QED
      BY <3>3 DEF q
  <2>3. \A i \in 1..m : in[(z + 1) + i] = body[i]
    <3> SUFFICES ASSUME NEW i \in 1..m PROVE in[(z + 1) + i] = body[i]
      OBVIOUS
    <3> DEFINE j == (z + 1) + i
    <3>1. j \in 1..L
      BY <1>4, <1>6
    <3>2. Bytes(f)[j] = body[i]
      <4>1. \A k \in 1..m : Bytes(f)[z + 1 + k] = body[k]
        BY <1>5 DEF z
      <4> QED
        BY <4>1
    <3> HIDE DEF j
    <3>3. in[j] = body[i]
      BY <1>5, <3>1, <3>2
    <3> QED
      BY <3>3 DEF j
  <2> HIDE DEF x
  <2>4. Len(body) = m
    BY DEF body, m
  <2> QED
    BY <1>4, <2>2, <2>3, <2>4
<1>15. y = SubSeq(in, L + 1, n)
  <2> DEFINE q == z + 1
             i == m + 1
             j == n - q
  <2>1. /\ q \in 0..Len(in) /\ i \in Nat /\ j \in 0..(Len(in) - q) /\ 1 <= i
        /\ q + i = L + 1 /\ q + j = n /\ q + 1 = z + 2 /\ Len(a) = j
    BY <1>4, <1>6, <1>11 DEF n
  <2> HIDE DEF q, i, j
  <2>2. SubSeq(SubSeq(in, q + 1, Len(in)), i, j) = SubSeq(in, q + i, q + j)
    BY <2>1, PartOfRest
  <2> QED
    BY <1>10, <2>1, <2>2 DEF i, n
<1> HIDE DEF x, y
<1> QED
  BY <1>1, <1>3, <1>12, <1>13, <1>14, <1>15 DEF w, z, m, body, L, n

-------------------------------------------------------------------------------
(* The first n, or all there are.                                          *)
LEMMA FirstFewIs ==
  ASSUME NEW S, NEW s \in Seq(S), NEW n \in Nat
  PROVE  /\ n <= Len(s) => FirstFew(s, n) = SubSeq(s, 1, n)
         /\ Len(s) <= n => FirstFew(s, n) = s
<1> DEFINE l == Len(s)
           X == {n, l}
           m == Min(X)
<1>1. l \in Nat
  OBVIOUS
<1>2. X \subseteq Nat /\ X # {}
  BY <1>1
<1>3. m \in X /\ m <= n /\ m <= l
  <2>1. Min(X) \in X /\ \A y \in X : Min(X) <= y
    <3> HIDE DEF X
    <3> QED
      BY <1>2, MinIs
  <2> QED
    BY <2>1
<1>4. FirstFew(s, n) = SubSeq(s, 1, m)
  BY DEF FirstFew
<1>5. SubSeq(s, 1, l) = s
  OBVIOUS
<1> HIDE DEF m, l
<1>6. n <= l => m = n
  BY <1>1, <1>3
<1>7. l <= n => m = l
  BY <1>1, <1>3
<1> QED
  BY <1>4, <1>5, <1>6, <1>7 DEF l

(* The frames before the first wrong one are well framed.                  *)
LEMMA SoundLengthIs ==
  ASSUME sent \in Streams
  PROVE  SoundLength \in 0..Len(sent) /\ \A k \in 1..SoundLength : WellFramed(sent[k])
<1> DEFINE S == { n \in 0..Len(sent) : Sound(n) }
           N == Len(sent)
<1>1. N \in Nat
  BY StreamIs
<1>2. 0 \in S
  BY <1>1 DEF Sound
<1>3. SoundLength = Max(S)
  BY DEF SoundLength
<1>4. Max(S) \in S
  <2>1. S \subseteq 0..N /\ S # {}
    BY <1>2
  <2> HIDE DEF S, N
  <2> QED
    BY <1>1, <2>1, MaxIs
<1> QED
  BY <1>3, <1>4 DEF Sound

(* Up to the first wrong frame, each reading began where a frame begins.   *)
FrameInv ==
  /\ sent \in Streams /\ got \in Seq(Seq(Atom)) /\ rest \in Seq(Atom)
  /\ Len(got) <= SoundLength => Unread(End(sent, Len(got)))

(* The first frame begins where the stream does.                           *)
LEMMA FrameInvInit == Init => FrameInv
<1> SUFFICES ASSUME Init PROVE FrameInv
  OBVIOUS
<1> DEFINE t == Stream(sent)
<1>1. sent \in Streams /\ got = <<>> /\ rest = t
  BY DEF Init
<1>2. t \in Seq(Atom) /\ End(sent, 0) = 0
  BY <1>1, StreamIs
<1> HIDE DEF t
<1>3. SubSeq(t, 0 + 1, Len(t)) = t
  BY <1>2
<1>4. Len(got) = 0 /\ got \in Seq(Seq(Atom))
  BY <1>1
<1> QED
  BY <1>1, <1>2, <1>3, <1>4 DEF FrameInv, Unread, t

(* Reading a frame before the first wrong one takes it off the channel; the *)
(* channel sees nothing of later readings.                                 *)
LEMMA FrameStep ==
  ASSUME FrameInv, ReadRequest
  PROVE  /\ FrameInv'
         /\ [Channel!Take]_<<FirstFew(sent, SoundLength), FirstFew(got, SoundLength)>>
<1> DEFINE t == Stream(sent)
           N == Len(t)
           M == SoundLength
           r == ReadHttpMessage(rest)
           n == Len(got)
           x == r.message
           E(k) == End(sent, k)
<1>1. sent' = sent /\ rest' = r.rest /\ got' = Append(got, x)
  BY DEF ReadRequest
<1>2. sent \in Streams /\ got \in Seq(Seq(Atom)) /\ n \in Nat
  BY DEF FrameInv
<1>3. SoundLength' = SoundLength /\ \A k : End(sent, k)' = End(sent, k)
  BY <1>1 DEF SoundLength, Sound, End
<1>4. M \in 0..Len(sent) /\ (\A k \in 1..M : WellFramed(sent[k])) /\ M \in Nat
  BY <1>2, SoundLengthIs
<1>5. t \in Seq(Atom) /\ N \in Nat
  BY <1>2, StreamIs
<1>6. Len(sent) \in Nat /\ sent \in Seq(Frame)
  BY <1>2 DEF Streams
<1> DEFINE U == Seq(Atom)
<1>7. FirstFew(sent, SoundLength)' = FirstFew(sent, SoundLength)
  BY <1>1, <1>3 DEF FirstFew
<1>8. x \in U /\ rest' \in U
  <2>1. r \in Outcome
    BY ReadKeeps DEF FrameInv
  <2> HIDE DEF r
  <2> QED
    BY <1>1, <2>1 DEF Outcome
<1>9. got' \in Seq(U) /\ Len(got') = n + 1 /\ \A i \in 1..n : got'[i] = got[i]
  <2> HIDE DEF U, x
  <2>1. x \in U /\ got \in Seq(U) /\ got' = Append(got, x)
    BY <1>1, <1>2, <1>8 DEF U
  <2>2. Append(got, x) \in Seq(U) /\ Len(Append(got, x)) = Len(got) + 1
        /\ \A i \in 1..Len(got) : Append(got, x)[i] = got[i]
    BY <2>1
  <2> QED
    BY <2>1, <2>2
<1>10. CASE n < M
  <2> DEFINE k == n + 1
             f == sent[k]
             d == E(n)
             L == Len(Bytes(f))
  <2>1. k \in 1..M /\ k \in 1..Len(sent) /\ k - 1 = n /\ n \in 0..Len(sent) /\ k \in 0..Len(sent)
        /\ Len(sent) \in 0..Len(sent)
    BY <1>2, <1>4, <1>6, <1>10
  <2>2. /\ f \in Frame /\ E(k) = d + L /\ L \in Nat /\ d \in Nat /\ E(k) \in Nat /\ E(k) <= N
        /\ \A i \in 1..L : t[d + i] = Bytes(f)[i]
    <3>0. k <= Len(sent)
      BY <2>1
    <3>1. /\ \A j \in 0..Len(sent) : E(j) \in Nat
          /\ \A i, j \in 0..Len(sent) : i <= j => E(i) <= E(j)
          /\ E(Len(sent)) = N
      BY <1>2, StreamIs
    <3>2. /\ \A j \in 1..Len(sent) :
              /\ E(j) = E(j - 1) + Len(Bytes(sent[j]))
              /\ Len(Bytes(sent[j])) \in Nat
              /\ sent[j] \in Frame
              /\ \A i \in 1..Len(Bytes(sent[j])) : t[E(j - 1) + i] = Bytes(sent[j])[i]
      BY <1>2, StreamIs
    <3> HIDE DEF E, t, N, k
    <3>3. E(k) <= N
      BY <2>1, <3>0, <3>1
    <3> QED
      BY <2>1, <3>1, <3>2, <3>3
  <2>3. rest = SubSeq(t, d + 1, N)
    <3>1. n <= M
      BY <1>2, <1>4, <1>10
    <3> QED
      BY <3>1 DEF FrameInv, Unread
  <2> HIDE DEF E, t, N, f, d, L, k
  <2>4. rest \in Seq(Atom) /\ Len(rest) = N - d /\ \A i \in 1..(N - d) : rest[i] = t[d + i]
    <3>1. d \in Nat /\ d <= Len(t)
      BY <1>5, <2>2 DEF N
    <3>2. rest = SubSeq(t, d + 1, Len(t))
      BY <2>3 DEF N
    <3>3. rest \in Seq(Atom) /\ Len(rest) = Len(t) - d /\ \A i \in 1..(Len(t) - d) : rest[i] = t[d + i]
      BY <1>5, <3>1, <3>2
    <3> QED
      BY <3>3 DEF N
  <2>5. Begins(rest, f)
    <3>1. L <= Len(rest)
      BY <1>5, <2>2, <2>4
    <3>2. \A i \in 1..L : i \in 1..(N - d)
      BY <1>5, <2>2
    <3>3. \A i \in 1..L : rest[i] = Bytes(f)[i]
      BY <2>2, <2>4, <3>2
    <3> QED
      BY <3>1, <3>3 DEF Begins, L
  <2>6. WellFramed(f)
    BY <1>4, <2>1 DEF f
  <2>7. r = Result(Convert(f.body), SubSeq(rest, L + 1, Len(rest)))
    BY <2>2, <2>4, <2>5, <2>6, ReadWellFramed DEF L
  <2> DEFINE c == Convert(f.body)
             z == SubSeq(rest, L + 1, Len(rest))
  <2> HIDE DEF r, c, z
  <2>8. r.message = c /\ r.rest = z
    BY <2>7 DEF Result, c, z
  <2>9. c \in U
    <3>1. f.body \in Seq(Atom)
      BY <2>2, FrameIs
    <3> QED
      BY <3>1, ConvertTyped DEF c
  <2>10. z = SubSeq(t, E(k) + 1, N)
    <3> DEFINE i == L + 1
               j == N - d
    <3>1. /\ d \in 0..Len(t) /\ i \in Nat /\ j \in 0..(Len(t) - d) /\ 1 <= i
          /\ d + i = E(k) + 1 /\ d + j = N /\ j = Len(rest)
      BY <1>5, <2>2, <2>4 DEF N
    <3> HIDE DEF i, j
    <3>2. SubSeq(SubSeq(t, d + 1, Len(t)), i, j) = SubSeq(t, d + i, d + j)
      BY <1>5, <3>1, PartOfRest
    <3> QED
      BY <2>3, <3>1, <3>2 DEF i, z, N
  <2>11. got' = Append(got, c) /\ got' \in Seq(U) /\ Len(got') = k
    <3>1. x = c /\ x \in U
      BY <2>8, <2>9
    <3> QED
      BY <1>1, <1>9, <3>1 DEF k
  <2>12. FrameInv'
    <3>1. rest' = SubSeq(t, E(k) + 1, N) /\ t' = t /\ N' = N
      BY <1>1, <2>8, <2>10 DEF t, N
    <3>2. E(k) = End(sent', Len(got'))
      BY <1>1, <2>11 DEF E
    <3>3. rest' = SubSeq(Stream(sent'), End(sent', Len(got')) + 1, Len(Stream(sent')))
      BY <1>1, <3>1, <3>2 DEF t, N
    <3> QED
      BY <1>1, <1>2, <1>8, <2>11, <3>3 DEF FrameInv, Unread
  <2>13. FirstFew(got, M) = got /\ (FirstFew(got, M) = got)' 
    <3>0. n <= M /\ Len(got') <= M
      BY <1>2, <1>4, <1>10, <2>11 DEF k
    <3> HIDE DEF U, M
    <3>1. FirstFew(got, M) = got
      BY <1>2, <1>4, <3>0, FirstFewIs DEF U
    <3>2. FirstFew(got', M) = got'
      BY <1>4, <2>11, <3>0, FirstFewIs
    <3>3. FirstFew(got, M)' = FirstFew(got', M)
      BY <1>3 DEF FirstFew, M
    <3> QED
      BY <3>1, <3>2, <3>3
  <2>14. FirstFew(sent, M) = SubSeq(sent, 1, M)
    <3>1. M <= Len(sent)
      BY <1>4, <1>6
    <3> HIDE DEF M
    <3> QED
      BY <1>4, <1>6, <3>1, FirstFewIs
  <2>15. Len(SubSeq(sent, 1, M)) = M /\ SubSeq(sent, 1, M)[k] = f
    <3>1. M <= Len(sent)
      BY <1>4, <1>6
    <3> HIDE DEF M
    <3> QED
      BY <1>4, <1>6, <2>1, <3>1 DEF f
  <2>16. Channel!Take
    BY <1>7, <1>10, <2>11, <2>13, <2>14, <2>15 DEF Channel!Take, c, k
  <2> QED
    BY <2>12, <2>16
<1>11. CASE ~(n < M)
  <2>1. ~(Len(got') <= SoundLength')
    <3> HIDE DEF M
    <3>1. ~(n + 1 <= M)
      BY <1>2, <1>4, <1>11
    <3> QED
      BY <1>3, <1>9, <3>1 DEF M
  <2>2. FrameInv'
    BY <1>1, <1>2, <1>8, <1>9, <2>1 DEF FrameInv
  <2>3. FirstFew(got', M) = FirstFew(got, M)
    <3>1. M <= n /\ M <= Len(got')
      <4> HIDE DEF M
      <4> QED
        BY <1>2, <1>4, <1>9, <1>11
    <3> HIDE DEF M, U
    <3>2. FirstFew(got', M) = SubSeq(got', 1, M)
      BY <1>4, <1>9, <3>1, FirstFewIs
    <3>3. FirstFew(got, M) = SubSeq(got, 1, M)
      BY <1>2, <1>4, <3>1, FirstFewIs DEF U
    <3> DEFINE v == SubSeq(got', 1, M)
               w == SubSeq(got, 1, M)
    <3>4. v \in Seq(U) /\ Len(v) = M /\ \A i \in 1..M : v[i] = got'[i]
      BY <1>4, <1>9, <3>1
    <3>5. w \in Seq(U) /\ Len(w) = M /\ \A i \in 1..M : w[i] = got[i]
      BY <1>2, <1>4, <3>1 DEF U
    <3>6. \A i \in 1..M : i \in 1..n
      BY <1>2, <1>4, <3>1
    <3> HIDE DEF v, w
    <3>7. v = w
      BY <1>9, <3>4, <3>5, <3>6
    <3> QED
      BY <3>2, <3>3, <3>7 DEF v, w
  <2>4. FirstFew(got, SoundLength)' = FirstFew(got, SoundLength)
    BY <1>3, <2>3 DEF FirstFew
  <2> QED
    BY <1>7, <2>2, <2>4
<1> QED
  BY <1>10, <1>11

(* No other step reads.                                                    *)
LEMMA FrameInvStep ==
  ASSUME FrameInv, [StreamNext]_streamVars
  PROVE  /\ FrameInv'
         /\ [Channel!Take]_<<FirstFew(sent, SoundLength), FirstFew(got, SoundLength)>>
<1>1. CASE Read
  BY <1>1, FrameStep DEF Read
<1>2. ASSUME UNCHANGED <<sent, rest, got>>
      PROVE  /\ FrameInv'
             /\ [Channel!Take]_<<FirstFew(sent, SoundLength), FirstFew(got, SoundLength)>>
  BY <1>2 DEF FrameInv, Unread, End, SoundLength, Sound, FirstFew
<1>3. ASSUME NEW t \in Thread, Execute(t) \/ LogLine(t) \/ Send(t) \/ InsertFails(t)
      PROVE  UNCHANGED <<sent, rest, got>>
  BY <1>3 DEF Execute, LogLine, Send, Lock, Insert, Unlock, LogTransmission, InsertFails, vars
<1>4. UNCHANGED streamVars => UNCHANGED <<sent, rest, got>>
  BY DEF streamVars, vars
<1> QED
  BY <1>1, <1>2, <1>3, <1>4 DEF StreamNext

(* ReadHttpMessage, over any stream of frames that begins with well framed *)
(* ones: up to the first wrong one the reading implements the channel of   *)
(* frames, a verdict for each, in order, from that frame alone.            *)
THEOREM StreamIsAFrameChannel == StreamSpec => ImplementsFrameChannel
<1>1. StreamInit => FrameInv /\ Channel!Init
  <2>1. ASSUME got = <<>> PROVE FirstFew(got, SoundLength) = <<>>
    BY <2>1 DEF FirstFew
  <2> QED
    BY FrameInvInit, <2>1 DEF StreamInit, Init, Channel!Init
<1>2. FrameInv /\ [StreamNext]_streamVars => FrameInv'
  BY FrameInvStep
<1>3. FrameInv /\ [StreamNext]_streamVars =>
        [Channel!Take]_<<FirstFew(sent, SoundLength), FirstFew(got, SoundLength)>>
  BY FrameInvStep
<1> QED
  BY <1>1, <1>2, <1>3, PTL DEF StreamSpec, ImplementsFrameChannel, Channel!Spec

(* The inductive invariant of reading.                                     *)
LEMMA ReadInvariance == StreamSpec => []ReadInv
<1>1. StreamInit => ReadInv
  BY ReadInvInit DEF StreamInit
<1>2. ReadInv /\ [StreamNext]_streamVars => ReadInv'
  <2> SUFFICES ASSUME ReadInv, [StreamNext]_streamVars PROVE ReadInv'
    OBVIOUS
  <2>1. CASE Read
    BY <2>1, ReadInvStep DEF Read
  <2>2. ASSUME UNCHANGED <<sent, rest, got>> PROVE ReadInv'
    BY <2>2 DEF ReadInv, PartsOfTheStream, Unread, Placed, Delivered
  <2>3. ASSUME NEW t \in Thread, Execute(t) \/ LogLine(t) \/ Send(t) \/ InsertFails(t)
        PROVE  UNCHANGED <<sent, rest, got>>
    BY <2>3 DEF Execute, LogLine, Send, Lock, Insert, Unlock, LogTransmission, InsertFails, vars
  <2>4. UNCHANGED streamVars => UNCHANGED <<sent, rest, got>>
    BY DEF streamVars, vars
  <2> QED
    BY <2>1, <2>2, <2>3, <2>4 DEF StreamNext
<1> QED
  BY <1>1, <1>2, PTL DEF StreamSpec

(* ReadHttpMessage, over any stream, however wrongly framed and whatever   *)
(* its bodies hold: the messages it returns are parts of the stream that   *)
(* pass QuickJsonRPCMessageCheck, each after the last one, and what is     *)
(* left to read begins after them.                                         *)
THEOREM MessagesArePartsOfTheStream == StreamSpec => []PartsOfTheStream
<1>1. ReadInv => PartsOfTheStream
  BY DEF ReadInv
<1> QED
  BY <1>1, ReadInvariance, PTL

(* If besides no client wraps a message in another text, they are bodies   *)
(* that were sent, each once at most and in their order.                   *)
THEOREM NothingIsMadeUp == StreamSpec => []NothingMadeUp
BY ReadInvariance, ReadInvProves, PTL
=============================================================================
