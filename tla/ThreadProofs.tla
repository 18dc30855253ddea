----------------------------- MODULE ThreadProofs -----------------------------
(***************************************************************************)
(* What threads share: the count of the library's handles, for every       *)
(* number of threads, handles and libraries, and the thread pool, for      *)
(* every number of threads and jobs.                                       *)
(*                                                                         *)
(* CountsHandles is inductive once it is known that one thread at most is  *)
(* opening the library for the first time.  The balance then follows from  *)
(* what it is at every moment: up if the count is not zero, less the       *)
(* initialisation under way, plus the deinitialisations under way.         *)
(*                                                                         *)
(* JobsAccounted is not inductive by itself: it needs to know that a       *)
(* thread holds a job exactly while it runs it, that only started jobs are *)
(* held or finished, and what Stop has established at each of its steps.   *)
(***************************************************************************)
EXTENDS LibraryRC, PoolUse, FiniteSetTheorems, TLAPS

(* Library initialisation                                                  *)

Opening == In("init") \cup In("failed")

OneOpens == Opening = {} \/ \E t \in Caller : Opening = {t}

Balance ==
    /\ IsFiniteSet(In("deinit"))
    /\ ~forgotten =>
         libs[Libraries] = (IF counter > 0 THEN 1 ELSE 0)
                             - Cardinality(Opening) + Cardinality(In("deinit"))

RCInv == RCTypeOK /\ CountsHandles /\ OneOpens /\ Balance
-----------------------------------------------------------------------------
(* Arithmetic of size_t, as far as the count goes.                         *)
LEMMA ModSmall == ASSUME NEW n \in Nat, NEW w \in Nat, n < w PROVE n % w = n
  OBVIOUS
LEMMA ModSelf == ASSUME NEW w \in Nat, w > 0 PROVE w % w = 0
  OBVIOUS

LEMMA RCConstants ==
  /\ Word \in Nat /\ Word > 1 /\ MaxLost \in Nat /\ Libraries \in 1..Libraries
  /\ Cardinality(Handle) \in Nat
  /\ Word > MaxLost + 2 * Cardinality(Handle) + 1
<1>1. Cardinality(Handle) \in Nat
  BY FS_CardinalityType, RCAssumption
<1> QED
  BY <1>1, RCAssumption

(* The live handles are finitely many, and so is the one opening thread.   *)
LEMMA Counted ==
  ASSUME RCTypeOK, OneOpens
  PROVE  /\ IsFiniteSet(Active) /\ Cardinality(Active) \in Nat
         /\ Cardinality(Active) <= Cardinality(Handle)
         /\ IsFiniteSet(Opening) /\ Cardinality(Opening) \in {0, 1}
         /\ Cardinality(Opening) = 0 <=> Opening = {}
         /\ Cardinality(Active) = 0 <=> Active = {}
<1>1. IsFiniteSet(Active) /\ Cardinality(Active) <= Cardinality(Handle)
  BY FS_Subset, RCAssumption DEF Active
<1>2. Cardinality(Active) \in Nat /\ Cardinality(Handle) \in Nat
  BY <1>1, FS_CardinalityType, RCAssumption
<1>3. IsFiniteSet(Opening) /\ Cardinality(Opening) \in {0, 1}
  BY FS_EmptySet, FS_Singleton DEF OneOpens
<1>4. Cardinality(Opening) = 0 <=> Opening = {}
  BY <1>3, FS_EmptySet
<1>5. Cardinality(Active) = 0 <=> Active = {}
  BY <1>1, FS_EmptySet
<1> QED
  BY <1>1, <1>2, <1>3, <1>4, <1>5

(* A handle more, and a handle less, among the live ones.                  *)
LEMMA Gained ==
  ASSUME RCTypeOK, NEW h \in Handle, handle[h] # "active", Active' = Active \cup {h}
  PROVE  Cardinality(Active') = Cardinality(Active) + 1
<1>1. IsFiniteSet(Active)
  BY FS_Subset, RCAssumption DEF Active
<1> QED
  BY <1>1, FS_AddElement DEF Active

LEMMA Dropped ==
  ASSUME RCTypeOK, NEW h \in Handle, handle[h] = "active", Active' = Active \ {h}
  PROVE  Cardinality(Active') = Cardinality(Active) - 1
<1>1. IsFiniteSet(Active)
  BY FS_Subset, RCAssumption DEF Active
<1> QED
  BY <1>1, FS_RemoveElement DEF Active

(* While handles are left to fill, the count does not wrap.                *)
LEMMA NoWrap ==
  ASSUME RCInv, ~forgotten, NEW h \in Handle
  PROVE  counter + 1 < Word /\ (counter + 1) % Word = counter + 1
<1>1. Cardinality(Handle) >= 1
  <2>1. Handle # {} /\ Cardinality(Handle) \in Nat
    BY FS_CardinalityType, RCAssumption
  <2> QED
    BY <2>1, FS_EmptySet, RCAssumption
<1>2. counter = Cardinality(Active) + Cardinality(Opening) + leaked
  BY DEF RCInv, CountsHandles, Opening
<1>3. counter + 1 < Word
  <2>1. leaked \in 0..MaxLost
    BY DEF RCInv, RCTypeOK
  <2> QED
    BY <1>1, <1>2, <2>1, Counted, RCConstants DEF RCInv
<1> QED
  BY <1>3, ModSmall, RCAssumption DEF RCInv, RCTypeOK
-----------------------------------------------------------------------------
LEMMA RCInitInv == RCInit => RCInv
<1> SUFFICES ASSUME RCInit PROVE RCInv
  OBVIOUS
<1>1. RCTypeOK
  <2>1. 0 \in 0..(Word - 1) /\ 0 \in 0..MaxLost
    BY RCConstants
  <2>2. handle \in [Handle -> {"none", "active", "inactive"}] /\ libs \in [1..Libraries -> Int]
    BY DEF RCInit
  <2>3. pc \in [Caller -> {"idle", "init", "failed", "deinit"}]
    BY DEF RCInit
  <2>4. counter \in 0..(Word - 1) /\ leaked \in 0..MaxLost
    BY <2>1 DEF RCInit
  <2>5. forgotten \in BOOLEAN
    BY DEF RCInit
  <2> QED
    BY <2>2, <2>3, <2>4, <2>5 DEF RCTypeOK
<1>2. Active = {} /\ In("init") \cup In("failed") = {} /\ In("deinit") = {}
  BY DEF RCInit, Active, In
<1>3. CountsHandles /\ OneOpens
  <2>1. Cardinality(Active) = 0 /\ Cardinality(In("init") \cup In("failed")) = 0
    BY <1>2, FS_EmptySet
  <2>2. counter = 0 /\ leaked = 0
    BY DEF RCInit
  <2>3. CountsHandles
    BY <2>1, <2>2 DEF CountsHandles
  <2> QED
    BY <1>2, <2>3 DEF OneOpens, Opening
<1>4. Balance
  <2>1. libs[Libraries] = 0 /\ counter = 0
    BY RCConstants DEF RCInit
  <2>2. Cardinality(Opening) = 0 /\ Cardinality(In("deinit")) = 0 /\ IsFiniteSet(In("deinit"))
    BY <1>2, FS_EmptySet DEF Opening
  <2> QED
    BY <2>1, <2>2 DEF Balance
<1> QED
  BY <1>1, <1>3, <1>4 DEF RCInv

(* A step that leaves every thread where it is need only count its handles *)
(* and not reach or leave 0.                                               *)
LEMMA HandleStep ==
  ASSUME RCInv, ~forgotten, UNCHANGED <<pc, libs, forgotten>>, RCTypeOK',
         counter' = Cardinality(Active') + Cardinality(Opening) + leaked',
         counter > 0 <=> counter' > 0
  PROVE  RCInv'
<1>1. Opening' = Opening /\ In("deinit")' = In("deinit")
  BY DEF Opening, In
<1>2. CountsHandles' /\ OneOpens'
  BY <1>1 DEF RCInv, CountsHandles, OneOpens, Opening
<1>3. Balance'
  BY <1>1 DEF RCInv, Balance
<1> QED
  BY <1>2, <1>3 DEF RCInv

(* OpenLibrary, up to the handle.                                          *)
LEMMA OpenIInv ==
  ASSUME RCInv, ~forgotten, NEW t \in Caller, OpenFirst(t) \/ OpenAgain(t)
  PROVE  RCInv'
<1> USE DEF RCInv
<1>0. counter = Cardinality(Active) + Cardinality(Opening) + leaked
  BY DEF CountsHandles, Opening
<1>1. CASE OpenFirst(t)
  <2>1. counter = 0 /\ counter' = 1
    <3>1. counter \in Nat /\ (counter + 1 < Word \/ counter + 1 = Word)
      BY RCConstants DEF RCTypeOK
    <3>2. (counter + 1) % Word = 1 /\ counter' = 1
      BY <1>1 DEF OpenFirst, Increment
    <3>3. CASE counter + 1 = Word
      BY <3>2, <3>3, ModSelf, RCConstants
    <3>4. CASE counter + 1 < Word
      <4>1. (counter + 1) % Word = counter + 1
        BY <3>1, <3>4, ModSmall, RCConstants
      <4> QED
        BY <3>1, <3>2, <4>1
    <3> QED
      BY <3>1, <3>3, <3>4
  <2>2. Opening = {} /\ Active = {} /\ leaked = 0
    <3>1. leaked \in Nat
      BY DEF RCTypeOK
    <3> QED
      BY <1>0, <2>1, <3>1, Counted
  <2>3. RCTypeOK'
    BY <1>1, <2>1, RCConstants
    DEF OpenFirst, RCTypeOK, Go, NothingLost
  <2>4. Opening' = {t} /\ In("deinit")' = In("deinit") /\ Active' = Active
    BY <1>1, <2>2 DEF OpenFirst, Go, Opening, In, RCTypeOK, Active
  <2>5. Cardinality(Opening') = 1
    BY <2>4, FS_Singleton
  <2>6. CountsHandles' /\ OneOpens'
    BY <1>1, <2>1, <2>2, <2>4, <2>5, FS_EmptySet
    DEF CountsHandles, OneOpens, Opening, OpenFirst, NothingLost
  <2>7. Balance'
    BY <1>1, <2>1, <2>2, <2>4, <2>5, FS_EmptySet, FS_CardinalityType, RCConstants
    DEF Balance, OpenFirst, NothingLost, RCTypeOK
  <2> QED
    BY <2>3, <2>6, <2>7
<1>2. CASE OpenAgain(t)
  <2>1. PICK h \in Handle : NewHandle(h, "active")
    BY <1>2 DEF OpenAgain
  <2>2. counter' = counter + 1 /\ counter + 1 < Word
    BY <1>2, NoWrap DEF OpenAgain, Increment
  <2>3. counter > 0
    <3>1. 1 % Word = 1
      BY ModSmall, RCConstants
    <3> QED
      BY <1>2, <3>1 DEF OpenAgain, RCTypeOK
  <2>4. RCTypeOK'
    <3>1. counter' \in 0..(Word - 1)
      BY <2>2, RCConstants DEF RCTypeOK
    <3>2. handle' \in [Handle -> {"none", "active", "inactive"}]
      BY <2>1 DEF NewHandle, RCTypeOK
    <3> QED
      BY <1>2, <3>1, <3>2 DEF OpenAgain, RCTypeOK, NothingLost
  <2>5. Active' = Active \cup {h} /\ handle[h] # "active"
    BY <2>1 DEF NewHandle, Active, RCTypeOK
  <2>6. Cardinality(Active') = Cardinality(Active) + 1
    BY <2>1, <2>5, Gained
  <2>7. leaked' = leaked /\ UNCHANGED <<pc, libs, forgotten>>
    BY <1>2 DEF OpenAgain, NothingLost
  <2>8. counter' = Cardinality(Active') + Cardinality(Opening) + leaked'
    BY <1>0, <2>2, <2>6, <2>7, Counted DEF RCTypeOK
  <2> QED
    BY <2>2, <2>3, <2>4, <2>7, <2>8, HandleStep DEF RCTypeOK
<1> QED
  BY <1>1, <1>2

(* What the opening thread goes on to do.                                  *)
LEMMA InitializeIInv ==
  ASSUME RCInv, ~forgotten, NEW t \in Caller,
         PerformInitialize(t) \/ FailInitialize(t) \/ ReturnNull(t)
  PROVE  RCInv'
<1> USE DEF RCInv
<1>0. counter = Cardinality(Active) + Cardinality(Opening) + leaked
  BY DEF CountsHandles, Opening
<1>1. Opening = {t} /\ Cardinality(Opening) = 1
  <2>1. t \in Opening
    BY DEF PerformInitialize, FailInitialize, ReturnNull, Go, Opening, In
  <2>2. Opening = {t}
    BY <2>1 DEF OneOpens
  <2> QED
    BY <2>2, FS_Singleton
<1>2. CASE PerformInitialize(t)
  <2>1. PICK h \in Handle : NewHandle(h, "active")
    BY <1>2 DEF PerformInitialize
  <2>2. RCTypeOK'
    BY <1>2, <2>1 DEF PerformInitialize, Go, NewHandle, RCTypeOK, NothingLost
  <2>3. Active' = Active \cup {h} /\ handle[h] # "active"
    BY <2>1 DEF NewHandle, Active, RCTypeOK
  <2>4. Cardinality(Active') = Cardinality(Active) + 1
    BY <2>1, <2>3, Gained
  <2>5. Opening' = {} /\ In("deinit")' = In("deinit")
    BY <1>1, <1>2 DEF PerformInitialize, Go, Opening, In, RCTypeOK
  <2>6. Cardinality(Opening') = 0
    BY <2>5, FS_EmptySet
  <2>7. counter' = counter /\ leaked' = leaked /\ forgotten' = forgotten
    BY <1>2 DEF PerformInitialize, NothingLost
  <2>8. CountsHandles' /\ OneOpens'
    <3>1. counter' = Cardinality(Active') + Cardinality(Opening') + leaked'
      BY <1>0, <1>1, <2>4, <2>6, <2>7, Counted
    <3> QED
      BY <2>5, <3>1 DEF CountsHandles, OneOpens, Opening
  <2>9. Balance'
    <3>1. libs'[Libraries] = libs[Libraries] + 1
      BY <1>2, RCConstants DEF PerformInitialize, RCTypeOK
    <3> QED
      BY <1>1, <2>5, <2>6, <2>7, <3>1, FS_CardinalityType, RCConstants
      DEF Balance, RCTypeOK
  <2> QED
    BY <2>2, <2>8, <2>9
<1>3. CASE FailInitialize(t)
  <2>1. RCTypeOK'
    BY <1>3 DEF FailInitialize, Go, RCTypeOK, NothingLost
  <2>2. Opening' = Opening /\ In("deinit")' = In("deinit") /\ Active' = Active
    BY <1>1, <1>3 DEF FailInitialize, Go, Opening, In, RCTypeOK, Active
  <2>3. libs'[Libraries] = libs[Libraries]
    BY <1>3, RCConstants DEF FailInitialize, RCTypeOK
  <2>4. UNCHANGED <<counter, leaked, forgotten>>
    BY <1>3 DEF FailInitialize, NothingLost
  <2>5. CountsHandles' /\ OneOpens' /\ Balance'
    BY <2>2, <2>3, <2>4 DEF CountsHandles, OneOpens, Balance, Opening
  <2> QED
    BY <2>1, <2>5
<1>4. CASE ReturnNull(t)
  <2>1. RCTypeOK'
    BY <1>4, RCConstants, FS_CardinalityType DEF ReturnNull, Go, RCTypeOK
  <2>2. Opening' = {} /\ In("deinit")' = In("deinit") /\ Active' = Active
    BY <1>1, <1>4 DEF ReturnNull, Go, Opening, In, RCTypeOK, Active
  <2>3. Cardinality(Opening') = 0
    BY <2>2, FS_EmptySet
  <2>4. CASE counter # 1
    BY <1>4, <2>1, <2>2, <2>4 DEF ReturnNull, CountsHandles, OneOpens, Balance
  <2>5. CASE counter = 1
    <3>1. Cardinality(Active) = 0 /\ leaked = 0
      BY <1>0, <1>1, <2>5, Counted DEF RCTypeOK
    <3>2. counter' = 0 /\ leaked' = leaked /\ libs' = libs /\ ~forgotten'
      BY <1>4, <2>5 DEF ReturnNull
    <3>3. CountsHandles' /\ OneOpens'
      BY <2>2, <2>3, <3>1, <3>2 DEF CountsHandles, OneOpens, Opening
    <3>4. Balance'
      BY <1>1, <2>2, <2>3, <2>5, <3>2, FS_CardinalityType, RCConstants DEF Balance, RCTypeOK
    <3> QED
      BY <2>1, <3>3, <3>4
  <2> QED
    BY <2>4, <2>5
<1> QED
  BY <1>2, <1>3, <1>4

(* A copy counts once more if it is live.                                  *)
LEMMA CopyIInv ==
  ASSUME RCInv, ~forgotten, NEW from \in Handle, NEW to \in Handle,
         CopyConstruct(from, to) \/ CopyAssign(from, to)
  PROVE  RCInv'
<1> USE DEF RCInv
<1>0. counter = Cardinality(Active) + Cardinality(Opening) + leaked /\ leaked \in Nat
  BY DEF CountsHandles, Opening, RCTypeOK
<1>1. UNCHANGED <<pc, libs, forgotten>>
  BY DEF CopyConstruct, CopyAssign, AssignOver, NothingLost
<1>2. handle' = [handle EXCEPT ![to] = handle[from]] /\ from # to
  BY DEF CopyConstruct, CopyAssign, AssignOver, NewHandle
<1>3. counter' = IF handle[from] = "active" THEN counter + 1 ELSE counter
  BY NoWrap DEF CopyConstruct, CopyAssign, Adopt, Increment
<1>4. leaked' = IF handle[to] = "active" THEN leaked + 1 ELSE leaked
  BY DEF CopyConstruct, CopyAssign, AssignOver, NothingLost, NewHandle
<1>5. leaked' \in 0..MaxLost
  BY <1>4, RCConstants DEF CopyConstruct, CopyAssign, AssignOver, NothingLost, RCTypeOK
<1>6. RCTypeOK'
  <2>1. counter' \in 0..(Word - 1)
    <3>1. counter + 1 < Word /\ counter \in 0..(Word - 1) /\ Word \in Nat
      BY NoWrap, RCConstants DEF RCTypeOK
    <3> QED
      BY <1>3, <3>1
  <2> QED
    BY <1>1, <1>2, <1>5, <2>1 DEF RCTypeOK
<1>7. from \in Active \/ to \in Active => counter > 0
  BY <1>0, Counted
<1>8. counter' = Cardinality(Active') + Cardinality(Opening) + leaked'
  <2>1. CASE handle[from] = "active" /\ handle[to] = "active"
    <3>1. Active' = Active
      BY <1>2, <2>1 DEF Active, RCTypeOK
    <3> QED
      BY <1>0, <1>3, <1>4, <2>1, <3>1, Counted
  <2>2. CASE handle[from] = "active" /\ handle[to] # "active"
    <3>1. Active' = Active \cup {to}
      BY <1>2, <2>2 DEF Active, RCTypeOK
    <3> QED
      <4>1. Cardinality(Active') = Cardinality(Active) + 1
        BY <2>2, <3>1, Gained
      <4> QED
        BY <1>0, <1>3, <1>4, <2>2, <4>1, Counted
  <2>3. CASE handle[from] # "active" /\ handle[to] = "active"
    <3>1. Active' = Active \ {to}
      BY <1>2, <2>3 DEF Active, RCTypeOK
    <3> QED
      <4>1. Cardinality(Active') = Cardinality(Active) - 1
        BY <2>3, <3>1, Dropped
      <4> QED
        BY <1>0, <1>3, <1>4, <2>3, <4>1, Counted
  <2>4. CASE handle[from] # "active" /\ handle[to] # "active"
    <3>1. Active' = Active
      BY <1>2, <2>4 DEF Active, RCTypeOK
    <3> QED
      BY <1>0, <1>3, <1>4, <2>4, <3>1
  <2> QED
    BY <2>1, <2>2, <2>3, <2>4
<1>9. counter > 0 <=> counter' > 0
  BY <1>0, <1>3, <1>7, Counted DEF Active
<1> QED
  BY <1>1, <1>6, <1>8, <1>9, HandleStep

(* A move keeps the count, whatever it moves over.                         *)
LEMMA MoveIInv ==
  ASSUME RCInv, ~forgotten, NEW from \in Handle, NEW to \in Handle,
         MoveConstruct(from, to) \/ MoveAssign(from, to)
  PROVE  RCInv'
<1> USE DEF RCInv
<1>0. counter = Cardinality(Active) + Cardinality(Opening) + leaked /\ leaked \in Nat
  BY DEF CountsHandles, Opening, RCTypeOK
<1>1. UNCHANGED <<pc, libs, forgotten, counter>>
  BY DEF MoveConstruct, MoveAssign, AssignOver, NothingLost
<1>2. /\ handle' = [handle EXCEPT ![to] = handle[from], ![from] = "inactive"]
      /\ from # to
  BY DEF MoveConstruct, MoveAssign, AssignOver
<1>4. leaked' = IF handle[to] = "active" THEN leaked + 1 ELSE leaked
  BY DEF MoveConstruct, MoveAssign, AssignOver, NothingLost
<1>5. leaked' \in 0..MaxLost
  BY <1>4, RCConstants DEF MoveConstruct, MoveAssign, AssignOver, NothingLost, RCTypeOK
<1>6. RCTypeOK'
  BY <1>1, <1>2, <1>5 DEF RCTypeOK
<1>8. counter = Cardinality(Active') + Cardinality(Opening) + leaked'
  <2>1. CASE handle[from] = "active" /\ handle[to] = "active"
    <3>1. Active' = Active \ {from}
      BY <1>2, <2>1 DEF Active, RCTypeOK
    <3> QED
      <4>1. Cardinality(Active') = Cardinality(Active) - 1
        BY <2>1, <3>1, Dropped
      <4> QED
        BY <1>0, <1>4, <2>1, <4>1, Counted
  <2>2. CASE handle[from] = "active" /\ handle[to] # "active"
    <3>1. Active' = (Active \ {from}) \cup {to} /\ from \in Active /\ to \notin Active
      BY <1>2, <2>2 DEF Active, RCTypeOK
    <3>2. /\ IsFiniteSet(Active \ {from})
          /\ Cardinality(Active \ {from}) = Cardinality(Active) - 1
      BY <3>1, Counted, FS_RemoveElement
    <3>3. Cardinality(Active') = Cardinality(Active \ {from}) + 1
      BY <3>1, <3>2, FS_AddElement
    <3> QED
      BY <1>0, <1>4, <2>2, <3>2, <3>3, Counted
  <2>3. CASE handle[from] # "active" /\ handle[to] = "active"
    <3>1. Active' = Active \ {to}
      BY <1>2, <2>3 DEF Active, RCTypeOK
    <3> QED
      <4>1. Cardinality(Active') = Cardinality(Active) - 1
        BY <2>3, <3>1, Dropped
      <4> QED
        BY <1>0, <1>4, <2>3, <4>1, Counted
  <2>4. CASE handle[from] # "active" /\ handle[to] # "active"
    <3>1. Active' = Active
      BY <1>2, <2>4 DEF Active, RCTypeOK
    <3> QED
      BY <1>0, <1>4, <2>4, <3>1
  <2> QED
    BY <2>1, <2>2, <2>3, <2>4
<1> QED
  BY <1>1, <1>6, <1>8, HandleStep

(* The destructor, and the thread that takes the count to 0.               *)
LEMMA DestroyIInv ==
  ASSUME RCInv, ~forgotten, NEW t \in Caller, NEW h \in Handle, Destroy(t, h)
  PROVE  RCInv'
<1> USE DEF RCInv, Destroy
<1>0. counter = Cardinality(Active) + Cardinality(Opening) + leaked /\ leaked \in Nat
  BY DEF CountsHandles, Opening, RCTypeOK
<1>1. CASE handle[h] # "active"
  <2>1. Active' = Active
    BY <1>1 DEF Active, RCTypeOK
  <2>2. RCTypeOK' /\ UNCHANGED <<pc, counter, leaked, libs, forgotten>>
    BY <1>1 DEF RCTypeOK, NothingLost
  <2> QED
    BY <1>0, <2>1, <2>2, HandleStep
<1>2. CASE handle[h] = "active"
  <2>1. Active' = Active \ {h}
    BY <1>2 DEF Active, RCTypeOK
  <2>2. Cardinality(Active') = Cardinality(Active) - 1
    BY <1>2, <2>1, Dropped
  <2>3. counter > 0
    BY <1>0, <1>2, Counted DEF Active
  <2>4. counter' = counter - 1
    <3>1. counter - 1 \in Nat /\ counter - 1 < Word
      BY <2>3, RCConstants DEF RCTypeOK
    <3> QED
      BY <1>2, <3>1, ModSmall, RCConstants
  <2>5. RCTypeOK'
    <3>1. counter' \in 0..(Word - 1)
      BY <2>3, <2>4, RCConstants DEF RCTypeOK
    <3> QED
      BY <1>2, <3>1 DEF RCTypeOK, NothingLost
  <2>6. Opening' = Opening
    BY <1>2 DEF Opening, In, RCTypeOK
  <2>7. counter' = Cardinality(Active') + Cardinality(Opening) + leaked'
    BY <1>0, <2>2, <2>4, Counted DEF NothingLost
  <2>8. CountsHandles' /\ OneOpens'
    BY <2>6, <2>7 DEF CountsHandles, OneOpens, Opening
  <2>9. CASE counter' # 0
    <3>1. UNCHANGED <<pc, libs, forgotten>> /\ counter' > 0
      BY <1>2, <2>5, <2>9, RCConstants DEF NothingLost, RCTypeOK
    <3> QED
      BY <2>3, <2>5, <2>7, <3>1, HandleStep
  <2>10. CASE counter' = 0
    <3>1. In("deinit")' = In("deinit") \cup {t} /\ t \notin In("deinit")
      BY <1>2, <2>10 DEF In, RCTypeOK
    <3>2. /\ IsFiniteSet(In("deinit")')
          /\ Cardinality(In("deinit")') = Cardinality(In("deinit")) + 1
      BY <3>1, FS_AddElement DEF Balance
    <3>3. /\ Cardinality(Opening) \in Nat /\ Cardinality(In("deinit")) \in Nat
          /\ libs' = libs /\ forgotten' = forgotten
      BY Counted, FS_CardinalityType DEF Balance, NothingLost
    <3>4. Balance'
      BY <2>3, <2>6, <2>10, <3>2, <3>3 DEF Balance
    <3> QED
      BY <2>5, <2>8, <3>4
  <2> QED
    BY <2>9, <2>10
<1> QED
  BY <1>1, <1>2

LEMMA DeinitializeIInv ==
  ASSUME RCInv, ~forgotten, NEW t \in Caller, PerformDeinitialize(t)
  PROVE  RCInv'
<1> USE DEF RCInv, PerformDeinitialize
<1>1. RCTypeOK'
  BY DEF RCTypeOK, Go, NothingLost
<1>2. Opening' = Opening /\ Active' = Active
  BY DEF Opening, In, RCTypeOK, Go, Active
<1>3. CountsHandles' /\ OneOpens'
  BY <1>2 DEF CountsHandles, OneOpens, NothingLost, Opening
<1>4. In("deinit")' = In("deinit") \ {t} /\ t \in In("deinit")
  BY DEF In, RCTypeOK, Go
<1>5. /\ IsFiniteSet(In("deinit")')
      /\ Cardinality(In("deinit")') = Cardinality(In("deinit")) - 1
      /\ Cardinality(In("deinit")) \in Nat
  BY <1>4, FS_RemoveElement, FS_CardinalityType DEF Balance
<1>6. libs'[Libraries] = libs[Libraries] - 1 /\ libs[Libraries] \in Int
  BY RCConstants DEF RCTypeOK
<1>7. Balance'
  BY <1>2, <1>5, <1>6, Counted DEF Balance, NothingLost
<1> QED
  BY <1>1, <1>3, <1>7
-----------------------------------------------------------------------------
LEMMA RCStepInv == RCInv /\ [RCNext]_rcVars => RCInv'
<1> SUFFICES ASSUME RCInv, [RCNext]_rcVars PROVE RCInv'
  OBVIOUS
<1>1. CASE UNCHANGED rcVars
  BY <1>1 DEF rcVars, RCInv, RCTypeOK, CountsHandles, OneOpens, Balance, Opening, In, Active
<1>2. CASE RCNext
  <2>1. ~forgotten /\ Call
    BY <1>2 DEF RCNext
  <2> QED
    BY <2>1, OpenIInv, InitializeIInv, CopyIInv, MoveIInv, DestroyIInv, DeinitializeIInv
    DEF Call
<1> QED
  BY <1>1, <1>2

LEMMA RCInvariance == RCSpec => []RCInv
  BY RCInitInv, RCStepInv, PTL DEF RCSpec

(* Types.  Start.cc never lets the count wrap below 0 or beyond a size_t,  *)
(* whatever is copied, moved, assigned over and dropped.                   *)
THEOREM CounterNeverWraps == RCSpec => []RCTypeOK
<1>1. RCInv => RCTypeOK
  BY DEF RCInv
<1> QED
  BY <1>1, RCInvariance, PTL

(* RCInitializationContextCounter counts the live handles, the opening     *)
(* under way and the references assigned over, and nothing else.           *)
THEOREM CounterCountsHandles == RCSpec => []CountsHandles
<1>1. RCInv => CountsHandles
  BY DEF RCInv
<1> QED
  BY <1>1, RCInvariance, PTL

(* However openings and drops of many threads fall between each other,     *)
(* when all are through the libraries are up exactly if one is counted.    *)
THEOREM QuietIsBalanced == RCSpec => []QuietMeansBalanced
<1>1. ASSUME RCInv PROVE QuietMeansBalanced
  <2> SUFFICES ASSUME Quiet, ~forgotten
               PROVE  libs[Libraries] = IF Active # {} \/ leaked > 0 THEN 1 ELSE 0
    BY DEF QuietMeansBalanced
  <2>1. Opening = {} /\ In("deinit") = {}
    BY DEF Quiet, Opening, In
  <2>2. Cardinality(Opening) = 0 /\ Cardinality(In("deinit")) = 0
    BY <2>1, FS_EmptySet
  <2>3. libs[Libraries] = IF counter > 0 THEN 1 ELSE 0
    BY <1>1, <2>2 DEF RCInv, Balance
  <2>4. counter = Cardinality(Active) + leaked /\ leaked \in Nat
    BY <1>1, <2>2, Counted DEF RCInv, CountsHandles, Opening, RCTypeOK
  <2>5. counter > 0 <=> Active # {} \/ leaked > 0
    BY <1>1, <2>4, Counted DEF RCInv
  <2> QED
    BY <2>3, <2>5
<1> QED
  BY <1>1, RCInvariance, PTL

-----------------------------------------------------------------------------
(* Thread pool                                                             *)

Coupling ==
  /\ \A w \in Worker : wpc[w] = "run" <=> held[w] # NoJob
  /\ \A w \in Worker : held[w] <= Started
  /\ finished \subseteq 1..Started
  /\ opc \in {"joining", "gone"} => PoolEmpty
  /\ opc = "gone" => \A w \in Worker : wpc[w] # "run"
  /\ opc = "draining" => stopReq

IInv == TypeOK /\ JobsAccounted /\ Coupling

USE MaxJobsAssumption DEF NoJob, WorkerPc, OwnerPc

(* The invariant holds of the pool before Start.                           *)
LEMMA InitIInv == Init => IInv
<1> SUFFICES ASSUME Init PROVE IInv
  OBVIOUS
<1>1. TypeOK
  <2>1. jobs \in Seq(Nat \ {NoJob})
    BY DEF Init, PoolInit
  <2>4. stopReq \in BOOLEAN
    BY DEF Init, PoolInit
  <2>2. wpc \in [Worker -> WorkerPc] /\ held \in [Worker -> Nat]
    BY DEF Init, PoolInit
  <2>3. opc \in OwnerPc /\ submitted \in 0..MaxJobs /\ finished \subseteq 1..submitted
    BY DEF Init
  <2> QED
    BY <2>1, <2>2, <2>3, <2>4 DEF TypeOK, PoolTypeOK
<1>2. JobsAccounted
  BY DEF Init, PoolInit, JobsAccounted, QueueIsTheRest, HeldOrFinished, Started
<1>3. Coupling
  BY DEF Init, PoolInit, Started, Coupling, PoolEmpty
<1> QED
  BY <1>1, <1>2, <1>3 DEF IInv

(* A step that moves no job keeps the account of the jobs.                 *)
LEMMA NoJobMoves ==
  ASSUME JobsAccounted, UNCHANGED <<jobs, held, submitted, finished>>
  PROVE  JobsAccounted'
  BY DEF JobsAccounted, QueueIsTheRest, HeldOrFinished, Started

(* A step of the owner keeps the invariant.                                *)
LEMMA OwnerIInv == ASSUME IInv, Owner PROVE IInv'
<1> USE DEF IInv
<1>1. CASE Start
  <2>1. TypeOK'
    BY <1>1 DEF Start, PoolStart, TypeOK, PoolTypeOK
  <2>2. JobsAccounted'
    BY <1>1, NoJobMoves DEF Start, PoolStart
  <2>3. Coupling'
    BY <1>1 DEF Start, PoolStart, PoolStarted, Coupling, Started, PoolEmpty,
                TypeOK, PoolTypeOK
  <2> QED
    BY <2>1, <2>2, <2>3
<1>2. CASE Schedule
  <2>1. /\ submitted' = submitted + 1
        /\ submitted' \in 0..MaxJobs
        /\ jobs' = Append(jobs, submitted + 1)
        /\ UNCHANGED <<wpc, held, stopReq, opc, finished>>
        /\ opc = "open"
    BY <1>2 DEF Schedule, PoolPush, TypeOK
  <2>2. /\ jobs' \in Seq(Nat \ {NoJob})
        /\ Len(jobs) \in Nat
        /\ Len(jobs') = Len(jobs) + 1
        /\ \A k \in 1..Len(jobs) : jobs'[k] = jobs[k]
        /\ jobs'[Len(jobs')] = submitted + 1
    BY <2>1 DEF TypeOK, PoolTypeOK
  <2>3. Started' = Started
    BY <2>1, <2>2 DEF Started, TypeOK
  <2>4. TypeOK'
    BY <2>1, <2>2 DEF TypeOK, PoolTypeOK
  <2>5. QueueIsTheRest'
    BY <2>1, <2>2, <2>3 DEF JobsAccounted, QueueIsTheRest, Started, TypeOK
  <2>6. HeldOrFinished'
    BY <2>1, <2>3 DEF JobsAccounted, HeldOrFinished
  <2>7. Coupling'
    BY <2>1, <2>3 DEF Coupling
  <2> QED
    BY <2>4, <2>5, <2>6, <2>7 DEF JobsAccounted
<1>3. CASE WaitForAll \/ WaitForAllReturns \/ Drain
  <2>1. /\ UNCHANGED <<poolVars, submitted, finished>>
        /\ opc' \in OwnerPc
        /\ opc' \notin {"gone", "draining"}
        /\ opc' = "joining" => PoolEmpty
    BY <1>3 DEF WaitForAll, WaitForAllReturns, Drain
  <2>2. TypeOK'
    BY <2>1 DEF poolVars, TypeOK, PoolTypeOK
  <2>3. JobsAccounted'
    BY <2>1, NoJobMoves DEF poolVars
  <2>4. Coupling'
    BY <2>1 DEF poolVars, Coupling, Started, PoolEmpty
  <2> QED
    BY <2>2, <2>3, <2>4
<1>4. CASE RequestStop
  <2>1. TypeOK'
    BY <1>4 DEF RequestStop, PoolRequestStop, TypeOK, PoolTypeOK
  <2>2. JobsAccounted'
    BY <1>4, NoJobMoves DEF RequestStop, PoolRequestStop
  <2>3. Coupling'
    BY <1>4 DEF RequestStop, PoolRequestStop, Coupling, Started, PoolEmpty
  <2> QED
    BY <2>1, <2>2, <2>3
<1>5. CASE Join
  <2>1. TypeOK'
    BY <1>5 DEF Join, poolVars, TypeOK, PoolTypeOK
  <2>2. JobsAccounted'
    BY <1>5, NoJobMoves DEF Join, poolVars
  <2>3. Coupling'
    BY <1>5 DEF Join, PoolJoined, poolVars, Coupling, Started, PoolEmpty
  <2> QED
    BY <2>1, <2>2, <2>3
<1> QED
  BY <1>1, <1>2, <1>3, <1>4, <1>5 DEF Owner

(* A step of a thread keeps the invariant.                                 *)
LEMMA ThreadIInv == ASSUME NEW w \in Worker, IInv, Thread(w) PROVE IInv'
<1> USE DEF IInv
<1>1. CASE (WorkerCheck(w) \/ WorkerIdle(w)) /\ UNCHANGED <<opc, submitted, finished>>
  <2>1. /\ UNCHANGED <<jobs, held, stopReq, opc, submitted, finished>>
        /\ wpc[w] # "run"
        /\ \E place \in WorkerPc \ {"run"} : wpc' = [wpc EXCEPT ![w] = place]
    BY <1>1 DEF WorkerCheck, WorkerIdle
  <2>2. TypeOK'
    BY <2>1 DEF TypeOK, PoolTypeOK
  <2>3. JobsAccounted'
    BY <2>1, NoJobMoves
  <2>4. Coupling'
    BY <2>1 DEF Coupling, Started, PoolEmpty, TypeOK, PoolTypeOK
  <2> QED
    BY <2>2, <2>3, <2>4
<1>2. CASE WorkerTake(w) /\ UNCHANGED <<opc, submitted, finished>>
  <2>1. /\ jobs # <<>>
        /\ held[w] = NoJob
        /\ opc \notin {"joining", "gone"}
        /\ held' = [held EXCEPT ![w] = Head(jobs)]
        /\ jobs' = Tail(jobs)
        /\ wpc' = [wpc EXCEPT ![w] = "run"]
        /\ UNCHANGED <<stopReq, opc, submitted, finished>>
    BY <1>2 DEF WorkerTake, Coupling, PoolEmpty
  <2>2. /\ Len(jobs) \in Nat \ {0}
        /\ Head(jobs) = jobs[1]
        /\ jobs' \in Seq(Nat \ {NoJob})
        /\ Len(jobs') = Len(jobs) - 1
        /\ \A k \in 1..Len(jobs') : jobs'[k] = jobs[k + 1]
    BY <2>1 DEF TypeOK, PoolTypeOK
  <2>3. Started' = Started + 1 /\ Started \in Nat /\ Head(jobs) = Started + 1
    BY <2>1, <2>2 DEF Started, TypeOK, JobsAccounted, QueueIsTheRest
  <2>4. TypeOK'
    BY <2>1, <2>2, <2>3 DEF TypeOK, PoolTypeOK
  <2>5. QueueIsTheRest'
    BY <2>1, <2>2, <2>3 DEF JobsAccounted, QueueIsTheRest, TypeOK
  <2>6. HeldOrFinished'
    <3>1. held'[w] = Started + 1 /\ \A v \in Worker \ {w} : held'[v] = held[v]
      BY <2>1, <2>3 DEF TypeOK, PoolTypeOK
    <3>2. \A v \in Worker : held[v] \in Nat /\ held[v] <= Started
      BY DEF Coupling, TypeOK, PoolTypeOK
    <3>3. \A j \in 1..Started' : j \in finished \/ \E v \in Worker : held'[v] = j
      BY <3>1, <2>1, <2>3 DEF JobsAccounted, HeldOrFinished
    <3>4. \A v \in Worker : held'[v] \notin finished
      BY <3>1, <2>3 DEF JobsAccounted, HeldOrFinished, Coupling
    <3>5. \A u, v \in Worker : held'[u] = held'[v] /\ held'[u] # NoJob => u = v
      BY <3>1, <3>2, <2>3 DEF JobsAccounted, HeldOrFinished
    <3> QED
      BY <3>3, <3>4, <3>5, <2>1 DEF HeldOrFinished
  <2>7. Coupling'
    BY <2>1, <2>3 DEF Coupling, TypeOK, PoolTypeOK
  <2> QED
    BY <2>4, <2>5, <2>6, <2>7 DEF JobsAccounted
<1>3. CASE Finish(w)
  <2>1. /\ held[w] \in 1..Started
        /\ held[w] \in 1..submitted
        /\ opc # "gone"
        /\ held' = [held EXCEPT ![w] = NoJob]
        /\ wpc' = [wpc EXCEPT ![w] = "check"]
        /\ finished' = finished \cup {held[w]}
        /\ UNCHANGED <<jobs, stopReq, opc, submitted>>
        /\ Started' = Started /\ Started \in Nat
    BY <1>3 DEF Finish, WorkerFinish, Coupling, TypeOK, PoolTypeOK, Started,
                JobsAccounted, QueueIsTheRest
  <2>2. TypeOK'
    BY <2>1 DEF TypeOK, PoolTypeOK
  <2>3. QueueIsTheRest'
    BY <2>1 DEF JobsAccounted, QueueIsTheRest
  <2>4. HeldOrFinished'
    <3>1. held'[w] = NoJob /\ \A v \in Worker \ {w} : held'[v] = held[v]
      BY <2>1 DEF TypeOK, PoolTypeOK
    <3>2. NoJob \notin finished'
      BY <2>1 DEF Coupling
    <3> QED
      BY <2>1, <3>1, <3>2 DEF JobsAccounted, HeldOrFinished
  <2>5. Coupling'
    <3>1. \A v \in Worker : wpc'[v] = "run" <=> held'[v] # NoJob
      BY <2>1 DEF Coupling, TypeOK, PoolTypeOK
    <3>2. \A v \in Worker : held'[v] <= Started
      BY <2>1 DEF Coupling, TypeOK, PoolTypeOK
    <3>3. finished' \subseteq 1..Started
      BY <2>1 DEF Coupling
    <3> QED
      BY <2>1, <3>1, <3>2, <3>3 DEF Coupling, PoolEmpty
  <2> QED
    BY <2>2, <2>3, <2>4, <2>5 DEF JobsAccounted
<1> QED
  BY <1>1, <1>2, <1>3 DEF Thread, Loop

(* So does a stuttering step: the invariant is inductive.                  *)
LEMMA StepIInv == IInv /\ [Next]_vars => IInv'
<1>1. ASSUME IInv, UNCHANGED vars PROVE IInv'
  <2>1. TypeOK'
    BY <1>1 DEF IInv, vars, poolVars, TypeOK, PoolTypeOK
  <2>2. JobsAccounted'
    BY <1>1, NoJobMoves DEF IInv, vars, poolVars
  <2>3. Coupling'
    BY <1>1 DEF IInv, vars, poolVars, Coupling, Started, PoolEmpty
  <2> QED
    BY <2>1, <2>2, <2>3 DEF IInv
<1> QED
  BY <1>1, OwnerIInv, ThreadIInv DEF Next

(* The invariant holds of every state of the pool.                         *)
THEOREM Invariance == Spec => []IInv
  BY InitIInv, StepIInv, PTL DEF Spec

(* The variables of the pool and of its owner keep their types.            *)
THEOREM TypeCorrect == Spec => []TypeOK
  BY Invariance, PTL DEF IInv

(* With any number of threads, in any interleaving, no scheduled job is    *)
(* lost and none is run twice.                                             *)
THEOREM EveryJobAccounted == Spec => []JobsAccounted
  BY Invariance, PTL DEF IInv

(* When ~ThreadPool has returned, every scheduled job has run to its end.  *)
THEOREM DestroyedMeansFinished == Spec => []GoneMeansAllFinished
<1>1. ASSUME IInv, opc = "gone" PROVE finished = 1..submitted
  <2>1. Started = submitted
    BY <1>1 DEF IInv, Coupling, PoolEmpty, Started, TypeOK
  <2>2. \A w \in Worker : held[w] = NoJob
    BY <1>1 DEF IInv, Coupling
  <2>3. \A j \in 1..submitted : j \in finished
    BY <1>1, <2>1, <2>2 DEF IInv, JobsAccounted, HeldOrFinished
  <2> QED
    BY <1>1, <2>1, <2>3 DEF IInv, Coupling
<1> QED
  BY <1>1, Invariance, PTL DEF GoneMeansAllFinished

-------------------------------------------------------------------------------
(* Stop can hang: a queue longer than the number of threads past their     *)
(* stop check is never emptied, so the drain loop never ends.              *)
LEMMA StuckStep == ASSUME IInv, [Next]_vars, Stuck PROVE Stuck'
<1> USE DEF IInv, TypeOK, PoolTypeOK
<1>1. /\ opc = "draining" /\ stopReq
      /\ Len(jobs) \in Nat
      /\ PastTheCheck \subseteq Worker
      /\ IsFiniteSet(PastTheCheck)
      /\ Cardinality(PastTheCheck) \in Nat
      /\ Len(jobs) > Cardinality(PastTheCheck)
  <2>1. PastTheCheck \subseteq Worker
    BY DEF PastTheCheck
  <2>2. IsFiniteSet(PastTheCheck) /\ Cardinality(PastTheCheck) \in Nat
    BY <2>1, WorkerAssumption, FS_Subset, FS_CardinalityType
  <2> QED
    BY <2>1, <2>2 DEF Stuck, Coupling
<1>2. ASSUME opc' = opc, jobs' = jobs, PastTheCheck' \subseteq PastTheCheck
      PROVE  Stuck'
  <2>1. Cardinality(PastTheCheck') <= Cardinality(PastTheCheck)
    BY <1>1, <1>2, FS_Subset
  <2>2. Cardinality(PastTheCheck') \in Nat
    BY <1>1, <1>2, FS_Subset, FS_CardinalityType
  <2> QED
    BY <1>1, <1>2, <2>1, <2>2 DEF Stuck
<1>3. CASE Owner
  <2>1. FALSE
    BY <1>1, <1>3 DEF Owner, Start, Schedule, WaitForAll, WaitForAllReturns,
                      RequestStop, Drain, Join, PoolEmpty
  <2> QED
    BY <2>1
<1>4. ASSUME NEW w \in Worker, Thread(w) PROVE Stuck'
  <2>1. CASE WorkerCheck(w) /\ UNCHANGED <<opc, submitted, finished>>
    BY <1>1, <1>2, <2>1 DEF WorkerCheck, PastTheCheck
  <2>2. CASE WorkerIdle(w) /\ UNCHANGED <<opc, submitted, finished>>
    BY <1>1, <1>2, <2>2 DEF WorkerIdle, PastTheCheck
  <2>3. CASE WorkerTake(w) /\ UNCHANGED <<opc, submitted, finished>>
    <3>1. w \in PastTheCheck /\ PastTheCheck' = PastTheCheck \ {w}
      BY <2>3 DEF WorkerTake, PastTheCheck
    <3>2. Cardinality(PastTheCheck') = Cardinality(PastTheCheck) - 1
      BY <1>1, <3>1, FS_RemoveElement
    <3>3. Len(jobs') = Len(jobs) - 1
      BY <2>3 DEF WorkerTake, PoolEmpty
    <3> QED
      BY <1>1, <2>3, <3>2, <3>3 DEF Stuck
  <2>4. CASE Finish(w)
    BY <1>1, <1>2, <2>4 DEF Finish, WorkerFinish, PastTheCheck
  <2> QED
    BY <1>4, <2>1, <2>2, <2>3, <2>4 DEF Thread, Loop
<1>5. CASE UNCHANGED vars
  BY <1>1, <1>2, <1>5 DEF vars, poolVars, PastTheCheck
<1> QED
  BY <1>3, <1>4, <1>5 DEF Next

(* For any number of threads: a Stop called on too long a queue is stuck   *)
(* for ever.                                                               *)
THEOREM StopNeverReturns == Spec => StuckForever
<1>1. IInv /\ [Next]_vars => [Stuck => Stuck']_vars
  BY StuckStep
<1> QED
  BY <1>1, Invariance, PTL DEF Spec, StuckForever

-------------------------------------------------------------------------------
(* The refinement: a Schedule submits, taking a job begins it, Finish ends *)
(* it, Join destroys; every other step changes nothing of the promise.     *)
LEMMA PromiseInit == Init => Promise!Init
<1> SUFFICES ASSUME Init PROVE Promise!Init
  OBVIOUS
<1>1. HeldJobs = {}
  BY DEF Init, PoolInit, HeldJobs
<1> QED
  BY <1>1 DEF Init, PoolInit, Promise!Init

(* Every step of the pool is a step of the job queue, or stutters there.   *)
LEMMA PromiseStep == ASSUME IInv, IInv', [Next]_vars
                     PROVE  [Promise!Next]_(Promise!vars)
<1> USE DEF IInv, TypeOK, PoolTypeOK
<1>1. ASSUME UNCHANGED <<jobs, held, finished>>, (opc' = "gone") = (opc = "gone")
      PROVE  UNCHANGED Promise!vars
  BY <1>1 DEF Promise!vars, HeldJobs
<1>2. CASE Start
  BY <1>1, <1>2 DEF Start, PoolStart
<1>3. CASE WaitForAll \/ WaitForAllReturns \/ Drain
  BY <1>1, <1>3 DEF WaitForAll, WaitForAllReturns, Drain, poolVars
<1>4. CASE RequestStop
  BY <1>1, <1>4 DEF RequestStop, PoolRequestStop
<1>5. CASE Schedule
  <2> DEFINE j == submitted + 1
  <2>1. j \in 1..MaxJobs
    BY <1>5 DEF Schedule
  <2>2. ~ Promise!IsWaiting(j)
    BY DEF Promise!IsWaiting, JobsAccounted, QueueIsTheRest, Started
  <2>3. j \notin HeldJobs
    BY DEF HeldJobs, Coupling, JobsAccounted, QueueIsTheRest, Started
  <2>4. j \notin finished
    OBVIOUS
  <2>5. HeldJobs' = HeldJobs
    BY <1>5 DEF Schedule, PoolPush, HeldJobs
  <2>6. Promise!Submit(j)
    BY <1>5, <2>2, <2>3, <2>4, <2>5 DEF Promise!Submit, Schedule, PoolPush
  <2> QED
    BY <2>1, <2>6 DEF Promise!Next
<1>6. CASE Join
  <2>1. jobs = <<>> /\ HeldJobs = {}
    BY <1>6 DEF Join, PoolJoined, Coupling, PoolEmpty, HeldJobs
  <2>2. HeldJobs' = HeldJobs
    BY <1>6 DEF Join, poolVars, HeldJobs
  <2>3. Promise!Destroy
    BY <1>6, <2>1, <2>2 DEF Join, poolVars, Promise!Destroy
  <2> QED
    BY <2>3 DEF Promise!Next
<1>7. ASSUME NEW w \in Worker, Thread(w) PROVE [Promise!Next]_(Promise!vars)
  <2>1. CASE (WorkerCheck(w) \/ WorkerIdle(w)) /\ UNCHANGED <<opc, submitted, finished>>
    BY <1>1, <2>1 DEF WorkerCheck, WorkerIdle
  <2>2. CASE WorkerTake(w) /\ UNCHANGED <<opc, submitted, finished>>
    <3>1. /\ jobs # <<>> /\ opc # "gone"
          /\ held[w] = NoJob
          /\ held' = [held EXCEPT ![w] = Head(jobs)]
          /\ jobs' = Tail(jobs)
          /\ Head(jobs) # NoJob
      BY <2>2 DEF WorkerTake, PoolEmpty, Coupling
    <3>2. HeldJobs' = HeldJobs \cup {Head(jobs)}
      BY <3>1 DEF HeldJobs
    <3>3. Promise!Begin
      BY <2>2, <3>1, <3>2 DEF Promise!Begin
    <3> QED
      BY <3>3 DEF Promise!Next
  <2>3. CASE Finish(w)
    <3>1. /\ held[w] # NoJob /\ held[w] \in 1..MaxJobs
          /\ held' = [held EXCEPT ![w] = NoJob]
          /\ finished' = finished \cup {held[w]}
          /\ UNCHANGED <<jobs, opc>>
      BY <2>3 DEF Finish, WorkerFinish, Coupling, JobsAccounted, QueueIsTheRest, Started
    <3>2. \A v \in Worker \ {w} : held[v] # held[w]
      BY <3>1 DEF JobsAccounted, HeldOrFinished
    <3>3. HeldJobs' = HeldJobs \ {held[w]}
      BY <3>1, <3>2 DEF HeldJobs
    <3>4. held[w] \in HeldJobs
      BY <3>1 DEF HeldJobs
    <3>5. Promise!End(held[w])
      BY <3>1, <3>3, <3>4 DEF Promise!End
    <3> QED
      BY <3>1, <3>5 DEF Promise!Next
  <2> QED
    BY <1>7, <2>1, <2>2, <2>3 DEF Thread, Loop
<1>8. CASE UNCHANGED vars
  BY <1>1, <1>8 DEF vars, poolVars
<1> QED
  BY <1>2, <1>3, <1>4, <1>5, <1>6, <1>7, <1>8 DEF Next, Owner

(* A thread pool, whatever its size, is a JobQueue.                        *)
THEOREM PoolIsJobQueue == Spec => ImplementsJobQueue
<1>1. IInv /\ IInv' /\ [Next]_vars => [Promise!Next]_(Promise!vars)
  BY PromiseStep
<1> QED
  BY <1>1, PromiseInit, Invariance, PTL DEF Spec, ImplementsJobQueue, Promise!Spec
===============================================================================
