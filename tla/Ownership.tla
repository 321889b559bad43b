----------------------------- MODULE Ownership -----------------------------
(***************************************************************************)
(* Who deletes what.  The CPS library hands out objects, lists of objects, *)
(* get requests and transactions as handles that somebody must give back   *)
(* once.  C++ code leaves that to the destructors of guards                *)
(* (cps_api_object.h, cps_api_operation.h), which can release what they    *)
(* hold, free it early, or be set to something else; and of cps::Object    *)
(* (cps.h), which holds the object it has created.  A list, a request or a *)
(* transaction owns the objects in it, and takes them along when it goes.  *)
(*                                                                         *)
(* The program that uses them passes on, or deletes by hand, only what it  *)
(* owns; the library may return the address of a handle that was deleted   *)
(* for a new one.                                                          *)
(***************************************************************************)
EXTENDS FiniteSets

CONSTANTS
    Objects, Lists, Requests, Transactions,     \* the addresses of handles
    ObjectGuards, ListGuards, RequestGuards, TransactionGuards,
    Wrappers,                                   \* instances of cps::Object
    NULL, Out                                   \* no handle; no such guard now

Containers == Lists \cup Requests \cup Transactions
Handles    == Objects \cup Containers
Settable   == ObjectGuards \cup ListGuards \cup RequestGuards
Guards     == Settable \cup TransactionGuards \cup Wrappers

ASSUME OwnershipAssumption ==
    /\ NULL \notin Handles /\ Out \notin Handles /\ NULL # Out
    /\ Objects \cap Containers = {}

VARIABLES
    live,       \* the handles that are allocated
    mine,       \* the handles the program itself must give back or pass on
    holds,      \* what each guard holds
    inside,     \* the objects in each list, request or transaction
    misdeleted  \* history: handles deleted while they were not allocated

vars == <<live, mine, holds, inside, misdeleted>>

(* The handles a guard is made for.                                        *)
Managed(g) ==
    CASE g \in ObjectGuards \cup Wrappers -> Objects
      [] g \in ListGuards                 -> Lists
      [] g \in RequestGuards              -> Requests
      [] g \in TransactionGuards          -> Transactions

(* Every variable has its type in every state.                             *)
TypeOK ==
    /\ live \subseteq Handles
    /\ mine \subseteq Handles
    /\ holds \in [Guards -> Handles \cup {NULL, Out}]
    /\ inside \in [Containers -> SUBSET Objects]
    /\ misdeleted \subseteq Handles

Init ==
    /\ live = {} /\ mine = {}
    /\ holds = [g \in Guards |-> Out]
    /\ inside = [c \in Containers |-> {}]
    /\ misdeleted = {}

-----------------------------------------------------------------------------
(* The library.                                                            *)

(* cps_api_object_delete(), cps_api_object_list_destroy(l, true) and the   *)
(* two that close, for a handle or NULL.                                   *)
Delete(h) ==
    LET gone == IF h = NULL THEN {}
                ELSE IF h \in Containers THEN {h} \cup inside[h] ELSE {h}
    IN  /\ live' = live \ gone
        /\ misdeleted' = misdeleted \cup (gone \ live)
        /\ inside' = [c \in Containers |-> IF c = h THEN {} ELSE inside[c]]

-----------------------------------------------------------------------------
(* The program.                                                            *)

Create(h) ==
    /\ h \notin live
    /\ live' = live \cup {h}
    /\ mine' = mine \cup {h}
    /\ UNCHANGED <<holds, inside, misdeleted>>

DeleteByHand(h) ==
    /\ h \in mine
    /\ mine' = mine \ {h}
    /\ Delete(h)
    /\ UNCHANGED holds

(* cps_api_object_list_append(), cps_api_set() and the like, when they     *)
(* succeed; when they fail the object stays with the program.              *)
Append(c, o) ==
    /\ c \in live /\ o \in mine
    /\ mine' = mine \ {o}
    /\ inside' = [inside EXCEPT ![c] = @ \cup {o}]
    /\ UNCHANGED <<live, holds, misdeleted>>

(* cps_api_get_result_create(): an object that belongs to the request from *)
(* the start.                                                              *)
ResultCreate(r, o) ==
    /\ r \in live /\ o \notin live
    /\ live' = live \cup {o}
    /\ inside' = [inside EXCEPT ![r] = @ \cup {o}]
    /\ UNCHANGED <<mine, holds, misdeleted>>

-----------------------------------------------------------------------------
(* The guards.                                                             *)

InScope(g) == holds[g] # Out

(* What a guard may be given: something of the program's, or NULL.         *)
Given(g) == (mine \cap Managed(g)) \cup {NULL}

(* The constructor of a guard.  That of a transaction is never without.    *)
Guard(g, h) ==
    /\ ~InScope(g)
    /\ h \in Given(g) /\ (g \in TransactionGuards => h # NULL)
    /\ holds' = [holds EXCEPT ![g] = h]
    /\ mine' = mine \ {h}
    /\ UNCHANGED <<live, inside, misdeleted>>

(* Wrong: the guard keeps what it has released.                            *)
ReleaseKeeps(g) ==
    /\ InScope(g) /\ g \in Settable
    /\ mine' = mine \cup ({holds[g]} \ {NULL})
    /\ UNCHANGED <<live, holds, inside, misdeleted>>

(* release(): the program has it back.                                     *)
Release(g) ==
    /\ InScope(g) /\ g \in Settable
    /\ mine' = mine \cup ({holds[g]} \ {NULL})
    /\ holds' = [holds EXCEPT ![g] = NULL]
    /\ UNCHANGED <<live, inside, misdeleted>>

(* Wrong: the guard still has what it has freed.                           *)
FreeKeeps(g) ==
    /\ InScope(g) /\ g \in Settable
    /\ Delete(holds[g])
    /\ UNCHANGED <<mine, holds>>

(* free(), of a request close().                                           *)
Free(g) ==
    /\ InScope(g) /\ g \in Settable
    /\ Delete(holds[g])
    /\ holds' = [holds EXCEPT ![g] = NULL]
    /\ UNCHANGED mine

(* Wrong: what the guard had is not freed.                                 *)
SetForgets(g, h) ==
    /\ InScope(g) /\ g \in Settable /\ h \in Given(g)
    /\ holds' = [holds EXCEPT ![g] = h]
    /\ mine' = mine \ {h}
    /\ UNCHANGED <<live, inside, misdeleted>>

(* set(): what the guard had is freed first.                               *)
SetTo(g, h) ==
    /\ InScope(g) /\ g \in Settable /\ h \in Given(g)
    /\ Delete(holds[g])
    /\ holds' = [holds EXCEPT ![g] = h]
    /\ mine' = mine \ {h}

(* The constructors of cps::Object create an object, if there is memory;   *)
(* the one that takes an object, of whomever, copies that into it.         *)
Construct(w, o) ==
    /\ ~InScope(w) /\ o \notin live
    /\ live' = live \cup ({o} \ {NULL})
    /\ holds' = [holds EXCEPT ![w] = o]
    /\ UNCHANGED <<mine, inside, misdeleted>>

(* The destructor of any of them, at the end of its scope.                 *)
LeaveScope(g) ==
    /\ InScope(g)
    /\ Delete(holds[g])
    /\ holds' = [holds EXCEPT ![g] = Out]
    /\ UNCHANGED mine

Next ==
    \/ \E h \in Handles : Create(h) \/ DeleteByHand(h)
    \/ \E c \in Containers, o \in Objects : Append(c, o)
    \/ \E r \in Requests, o \in Objects : ResultCreate(r, o)
    \/ \E g \in Guards \ Wrappers, h \in Handles \cup {NULL} : Guard(g, h)
    \/ \E g \in Settable : Release(g) \/ Free(g)
    \/ \E g \in Settable, h \in Handles \cup {NULL} : SetTo(g, h)
    \/ \E w \in Wrappers, o \in Objects \cup {NULL} : Construct(w, o)
    \/ \E g \in Guards : LeaveScope(g)

Spec == Init /\ [][Next]_vars

-----------------------------------------------------------------------------
(* Whatever is allocated has somebody who will delete it: after any        *)
(* sequence of releases, sets and scope exits nothing is lost.             *)
NothingLost ==
    \A h \in live :
        \/ h \in mine
        \/ \E g \in Guards : holds[g] = h
        \/ \E c \in Containers \cap live : h \in inside[c]

(* It has only one, so that nothing is deleted twice, nor used by one      *)
(* after another has deleted it.                                           *)
OneOwner ==
    /\ \A g \in Guards :
          holds[g] \in Handles =>
             /\ holds[g] \notin mine
             /\ \A c \in Containers : holds[g] \notin inside[c]
             /\ \A f \in Guards \ {g} : holds[f] # holds[g]
    /\ \A c \in Containers :
          /\ inside[c] \cap mine = {}
          /\ \A d \in Containers \ {c} : inside[c] \cap inside[d] = {}

(* Whoever owns a handle can rely on it: it has not been deleted.          *)
NothingDangles ==
    /\ mine \subseteq live
    /\ \A g \in Guards : holds[g] \in Handles => holds[g] \in live
    /\ \A c \in Containers : inside[c] # {} => c \in live /\ inside[c] \subseteq live

(* Nothing is ever deleted that is not allocated.                          *)
DeletedOnce == misdeleted = {}
=============================================================================
