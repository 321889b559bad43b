-------------------------- MODULE OwnershipProofs --------------------------
(***************************************************************************)
(* Nothing is leaked, deleted twice or used after its deletion, for any    *)
(* number of handles and of guards.                                        *)
(***************************************************************************)
EXTENDS Ownership, TLAPS

(* The four properties are inductive together: each step of one owner      *)
(* relies on what the others do not have.                                  *)
IInv == TypeOK /\ NothingLost /\ OneOwner /\ NothingDangles /\ DeletedOnce

(* Each step keeps the types.                                              *)
LEMMA TypeStep == IInv /\ [Next]_vars => TypeOK'
  <1> SUFFICES ASSUME IInv, [Next]_vars  PROVE TypeOK'
    OBVIOUS
  <1> USE OwnershipAssumption
      DEF IInv, TypeOK, Handles, Containers, Guards, Settable, Delete, Given, InScope
  <1>1. ASSUME NEW h \in Handles, Create(h)  PROVE TypeOK'
    BY <1>1 DEF Create
  <1>2. ASSUME NEW h \in Handles, DeleteByHand(h)  PROVE TypeOK'
    BY <1>2 DEF DeleteByHand
  <1>3. ASSUME NEW c \in Containers, NEW o \in Objects, Append(c, o)  PROVE TypeOK'
    BY <1>3 DEF Append
  <1>4. ASSUME NEW r \in Requests, NEW o \in Objects, ResultCreate(r, o)  PROVE TypeOK'
    BY <1>4 DEF ResultCreate
  <1>5. ASSUME NEW g \in Guards \ Wrappers, NEW h \in Handles \cup {NULL}, Guard(g, h)
        PROVE  TypeOK'
    BY <1>5 DEF Guard
  <1>6. ASSUME NEW g \in Settable, Release(g)  PROVE TypeOK'
    BY <1>6 DEF Release
  <1>7. ASSUME NEW g \in Settable, Free(g)  PROVE TypeOK'
    BY <1>7 DEF Free
  <1>8. ASSUME NEW g \in Settable, NEW h \in Handles \cup {NULL}, SetTo(g, h)
        PROVE  TypeOK'
    BY <1>8 DEF SetTo
  <1>9. ASSUME NEW w \in Wrappers, NEW o \in Objects \cup {NULL}, Construct(w, o)
        PROVE  TypeOK'
    BY <1>9 DEF Construct
  <1>10. ASSUME NEW g \in Guards, LeaveScope(g)  PROVE TypeOK'
    BY <1>10 DEF LeaveScope
  <1>11. CASE UNCHANGED vars
    BY <1>11 DEF vars
  <1> QED  BY <1>1, <1>2, <1>3, <1>4, <1>5, <1>6, <1>7, <1>8, <1>9, <1>10, <1>11
           DEF Next

(* A deletion by the one owner spares everything else that somebody has.   *)
LEMMA OthersSpared ==
    ASSUME IInv, NEW h \in Handles \cup {NULL}, Delete(h),
           h \in mine \/ (\E g \in Guards : holds[g] = h)
    PROVE  /\ \A k \in mine \ {h} : k \in live'
           /\ \A g \in Guards :
                 holds[g] \in Handles /\ holds[g] # h => holds[g] \in live'
           /\ \A c \in Containers :
                 inside'[c] # {} => c \in live' /\ inside'[c] \subseteq live'
  <1> USE OwnershipAssumption
      DEF IInv, TypeOK, NothingDangles, OneOwner, Handles, Containers
  <1>1. CASE h = NULL
    BY <1>1 DEF Delete
  <1>2. CASE h \in Objects
    <2>1. live' = live \ {h} /\ inside' = inside
      BY <1>2 DEF Delete
    <2>2. \A c \in Containers : h \notin inside[c]
      BY <1>2
    <2> QED  BY <1>2, <2>1, <2>2
  <1>3. CASE h \in Containers
    <2>1. /\ live' = live \ ({h} \cup inside[h])
          /\ inside' = [c \in Containers |-> IF c = h THEN {} ELSE inside[c]]
      BY <1>3 DEF Delete
    <2>2. \A k \in mine \ {h} : k \in live'
      BY <1>3, <2>1
    <2>3. \A g \in Guards : holds[g] \in Handles /\ holds[g] # h => holds[g] \in live'
      BY <1>3, <2>1
    <2>4. ASSUME NEW c \in Containers, inside'[c] # {}
          PROVE  c \in live' /\ inside'[c] \subseteq live'
      <3>1. c # h /\ inside'[c] = inside[c] /\ c \in live /\ inside[c] \subseteq live
        BY <2>1, <2>4
      <3>2. inside[c] \cap inside[h] = {} /\ c \notin inside[h] /\ h \notin inside[c]
        BY <1>3, <3>1
      <3> QED  BY <2>1, <3>1, <3>2
    <2> QED  BY <2>2, <2>3, <2>4
  <1> QED  BY <1>1, <1>2, <1>3

(* So do the deletions of a guard.                                         *)
LEMMA GuardDeletes ==
    ASSUME IInv, NEW g \in Guards, InScope(g), Delete(holds[g])
    PROVE  /\ mine \subseteq live'
           /\ \A f \in Guards \ {g} : holds[f] \in Handles => holds[f] \in live'
           /\ \A c \in Containers :
                 inside'[c] # {} => c \in live' /\ inside'[c] \subseteq live'
  <1>1. holds[g] \in Handles \cup {NULL}
    BY DEF IInv, TypeOK, InScope
  <1>2. /\ \A k \in mine \ {holds[g]} : k \in live'
        /\ \A f \in Guards :
              holds[f] \in Handles /\ holds[f] # holds[g] => holds[f] \in live'
        /\ \A c \in Containers :
              inside'[c] # {} => c \in live' /\ inside'[c] \subseteq live'
    BY <1>1, OthersSpared
  <1>3. holds[g] \notin mine
    BY <1>1, OwnershipAssumption DEF IInv, TypeOK, OneOwner
  <1>4. \A f \in Guards \ {g} : holds[f] \in Handles => holds[f] # holds[g]
    BY <1>1 DEF IInv, OneOwner
  <1> QED  BY <1>2, <1>3, <1>4

(* Each step keeps every handle with one owner.                            *)
LEMMA OwnersStep ==
    IInv /\ [Next]_vars =>
        NothingLost' /\ OneOwner' /\ NothingDangles' /\ DeletedOnce'
  <1> DEFINE Owned == NothingLost /\ OneOwner /\ NothingDangles /\ DeletedOnce
  <1> SUFFICES ASSUME IInv, [Next]_vars  PROVE Owned'
    OBVIOUS
  <1> USE OwnershipAssumption
      DEF IInv, TypeOK, Handles, Containers, Guards, Settable, Delete, Given, InScope
  <1>1. ASSUME NEW h \in Handles, Create(h)
        PROVE  Owned'
    <2>1. NothingLost'
      BY <1>1 DEF Create, NothingLost, OneOwner, NothingDangles, DeletedOnce
    <2>2. OneOwner'
      BY <1>1 DEF Create, NothingLost, OneOwner, NothingDangles, DeletedOnce
    <2>3. NothingDangles'
      BY <1>1 DEF Create, NothingLost, OneOwner, NothingDangles, DeletedOnce
    <2>4. DeletedOnce'
      BY <1>1 DEF Create, NothingLost, OneOwner, NothingDangles, DeletedOnce
    <2> QED  BY <2>1, <2>2, <2>3, <2>4
  <1>2. ASSUME NEW h \in Handles, DeleteByHand(h)
        PROVE  Owned'
    <2>1. NothingLost'
      BY <1>2 DEF DeleteByHand, NothingLost, OneOwner, NothingDangles, DeletedOnce
    <2>2. OneOwner'
      BY <1>2 DEF DeleteByHand, NothingLost, OneOwner, NothingDangles, DeletedOnce
    <2>3. NothingDangles'
      <3>1. Delete(h) /\ h \in mine /\ mine' = mine \ {h} /\ holds' = holds
        BY <1>2 DEF DeleteByHand
      <3>2. \A g \in Guards : holds[g] # h
        BY <3>1 DEF OneOwner
      <3> QED  BY <3>1, <3>2, OthersSpared DEF NothingDangles
    <2>4. DeletedOnce'
      BY <1>2 DEF DeleteByHand, NothingLost, OneOwner, NothingDangles, DeletedOnce
    <2> QED  BY <2>1, <2>2, <2>3, <2>4
  <1>3. ASSUME NEW c \in Containers, NEW o \in Objects, Append(c, o)
        PROVE  Owned'
    <2>1. NothingLost'
      BY <1>3 DEF Append, NothingLost, OneOwner, NothingDangles, DeletedOnce
    <2>2. OneOwner'
      BY <1>3 DEF Append, NothingLost, OneOwner, NothingDangles, DeletedOnce
    <2>3. NothingDangles'
      BY <1>3 DEF Append, NothingLost, OneOwner, NothingDangles, DeletedOnce
    <2>4. DeletedOnce'
      BY <1>3 DEF Append, NothingLost, OneOwner, NothingDangles, DeletedOnce
    <2> QED  BY <2>1, <2>2, <2>3, <2>4
  <1>4. ASSUME NEW r \in Requests, NEW o \in Objects, ResultCreate(r, o)
        PROVE  Owned'
    <2>1. NothingLost'
      BY <1>4 DEF ResultCreate, NothingLost, OneOwner, NothingDangles, DeletedOnce
    <2>2. OneOwner'
      BY <1>4 DEF ResultCreate, NothingLost, OneOwner, NothingDangles, DeletedOnce
    <2>3. NothingDangles'
      BY <1>4 DEF ResultCreate, NothingLost, OneOwner, NothingDangles, DeletedOnce
    <2>4. DeletedOnce'
      BY <1>4 DEF ResultCreate, NothingLost, OneOwner, NothingDangles, DeletedOnce
    <2> QED  BY <2>1, <2>2, <2>3, <2>4
  <1>5. ASSUME NEW g \in Guards \ Wrappers, NEW h \in Handles \cup {NULL}, Guard(g, h)
        PROVE  Owned'
    <2>1. NothingLost'
      BY <1>5 DEF Guard, NothingLost, OneOwner, NothingDangles, DeletedOnce
    <2>2. OneOwner'
      BY <1>5 DEF Guard, NothingLost, OneOwner, NothingDangles, DeletedOnce
    <2>3. NothingDangles'
      BY <1>5 DEF Guard, NothingLost, OneOwner, NothingDangles, DeletedOnce
    <2>4. DeletedOnce'
      BY <1>5 DEF Guard, NothingLost, OneOwner, NothingDangles, DeletedOnce
    <2> QED  BY <2>1, <2>2, <2>3, <2>4
  <1>6. ASSUME NEW g \in Settable, Release(g)
        PROVE  Owned'
    <2>1. NothingLost'
      BY <1>6 DEF Release, NothingLost, OneOwner, NothingDangles, DeletedOnce
    <2>2. OneOwner'
      BY <1>6 DEF Release, NothingLost, OneOwner, NothingDangles, DeletedOnce
    <2>3. NothingDangles'
      BY <1>6 DEF Release, NothingLost, OneOwner, NothingDangles, DeletedOnce
    <2>4. DeletedOnce'
      BY <1>6 DEF Release, NothingLost, OneOwner, NothingDangles, DeletedOnce
    <2> QED  BY <2>1, <2>2, <2>3, <2>4
  <1>7. ASSUME NEW g \in Settable, Free(g)
        PROVE  Owned'
    <2>1. NothingLost'
      BY <1>7 DEF Free, NothingLost, OneOwner, NothingDangles, DeletedOnce
    <2>2. OneOwner'
      BY <1>7 DEF Free, NothingLost, OneOwner, NothingDangles, DeletedOnce
    <2>3. NothingDangles'
      <3>1. /\ Delete(holds[g]) /\ holds[g] \in Handles \cup {NULL}
            /\ mine' = mine /\ holds' = [holds EXCEPT ![g] = NULL]
        BY <1>7 DEF Free
      <3>2. /\ mine \subseteq live'
            /\ \A f \in Guards \ {g} : holds[f] \in Handles => holds[f] \in live'
            /\ \A c \in Containers :
                  inside'[c] # {} => c \in live' /\ inside'[c] \subseteq live'
        BY <1>7, GuardDeletes DEF Free
      <3> QED  BY <3>1, <3>2 DEF NothingDangles
    <2>4. DeletedOnce'
      BY <1>7 DEF Free, NothingLost, OneOwner, NothingDangles, DeletedOnce
    <2> QED  BY <2>1, <2>2, <2>3, <2>4
  <1>8. ASSUME NEW g \in Settable, NEW h \in Handles \cup {NULL}, SetTo(g, h)
        PROVE  Owned'
    <2>1. NothingLost'
      BY <1>8 DEF SetTo, NothingLost, OneOwner, NothingDangles, DeletedOnce
    <2>2. OneOwner'
      BY <1>8 DEF SetTo, NothingLost, OneOwner, NothingDangles, DeletedOnce
    <2>3. NothingDangles'
      <3>1. /\ Delete(holds[g]) /\ holds[g] \in Handles \cup {NULL}
            /\ mine' = mine \ {h} /\ holds' = [holds EXCEPT ![g] = h]
        BY <1>8 DEF SetTo
      <3>2. /\ mine \subseteq live'
            /\ \A f \in Guards \ {g} : holds[f] \in Handles => holds[f] \in live'
            /\ \A c \in Containers :
                  inside'[c] # {} => c \in live' /\ inside'[c] \subseteq live'
        BY <1>8, GuardDeletes DEF SetTo
      <3>3. h \in Handles => h \in live'
        BY <1>8, <3>2 DEF SetTo
      <3> QED  BY <3>1, <3>2, <3>3 DEF NothingDangles
    <2>4. DeletedOnce'
      BY <1>8 DEF SetTo, NothingLost, OneOwner, NothingDangles, DeletedOnce
    <2> QED  BY <2>1, <2>2, <2>3, <2>4
  <1>9. ASSUME NEW w \in Wrappers, NEW o \in Objects \cup {NULL}, Construct(w, o)
        PROVE  Owned'
    <2>1. NothingLost'
      BY <1>9 DEF Construct, NothingLost, OneOwner, NothingDangles, DeletedOnce
    <2>2. OneOwner'
      BY <1>9 DEF Construct, NothingLost, OneOwner, NothingDangles, DeletedOnce
    <2>3. NothingDangles'
      BY <1>9 DEF Construct, NothingLost, OneOwner, NothingDangles, DeletedOnce
    <2>4. DeletedOnce'
      BY <1>9 DEF Construct, NothingLost, OneOwner, NothingDangles, DeletedOnce
    <2> QED  BY <2>1, <2>2, <2>3, <2>4
  <1>10. ASSUME NEW g \in Guards, LeaveScope(g)
        PROVE  Owned'
    <2>1. NothingLost'
      BY <1>10 DEF LeaveScope, NothingLost, OneOwner, NothingDangles, DeletedOnce
    <2>2. OneOwner'
      BY <1>10 DEF LeaveScope, NothingLost, OneOwner, NothingDangles, DeletedOnce
    <2>3. NothingDangles'
      <3>1. /\ Delete(holds[g]) /\ holds[g] \in Handles \cup {NULL}
            /\ mine' = mine /\ holds' = [holds EXCEPT ![g] = Out]
        BY <1>10 DEF LeaveScope
      <3>2. /\ mine \subseteq live'
            /\ \A f \in Guards \ {g} : holds[f] \in Handles => holds[f] \in live'
            /\ \A c \in Containers :
                  inside'[c] # {} => c \in live' /\ inside'[c] \subseteq live'
        BY <1>10, GuardDeletes DEF LeaveScope
      <3> QED  BY <3>1, <3>2 DEF NothingDangles
    <2>4. DeletedOnce'
      BY <1>10 DEF LeaveScope, NothingLost, OneOwner, NothingDangles, DeletedOnce
    <2> QED  BY <2>1, <2>2, <2>3, <2>4
  <1>11. CASE UNCHANGED vars
    BY <1>11 DEF vars, NothingLost, OneOwner, NothingDangles, DeletedOnce
  <1> QED  BY <1>1, <1>2, <1>3, <1>4, <1>5, <1>6, <1>7, <1>8, <1>9, <1>10, <1>11
           DEF Next

LEMMA AlwaysIInv == Spec => []IInv
  <1>1. Init => IInv
    BY OwnershipAssumption
       DEF Init, IInv, TypeOK, NothingLost, OneOwner, NothingDangles, DeletedOnce,
           Handles, Containers
  <1>2. IInv /\ [Next]_vars => IInv'
    BY TypeStep, OwnersStep DEF IInv
  <1> QED  BY <1>1, <1>2, PTL DEF Spec

-----------------------------------------------------------------------------
(* Every reachable state is well typed.                                    *)
THEOREM TypeCorrect == Spec => []TypeOK
  BY AlwaysIInv, PTL DEF IInv

(* Nothing leaks: what is allocated is always the program's, a guard's or  *)
(* a container's.                                                          *)
THEOREM NeverLost == Spec => []NothingLost
  BY AlwaysIInv, PTL DEF IInv

(* No handle ever has two that would delete it.                            *)
THEOREM AlwaysOneOwner == Spec => []OneOwner
  BY AlwaysIInv, PTL DEF IInv

(* Nobody ever has a handle that was deleted.                              *)
THEOREM NeverDangles == Spec => []NothingDangles
  BY AlwaysIInv, PTL DEF IInv

(* No handle is deleted twice.                                             *)
THEOREM NeverDeletedTwice == Spec => []DeletedOnce
  BY AlwaysIInv, PTL DEF IInv
=============================================================================
