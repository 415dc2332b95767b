----------------------------- MODULE SharedPtr -----------------------------
(***************************************************************************)
(* shared_ptr, and objects that are members of other objects               *)
(* (object_wrapper with set_responsible_object(), object.h).  An owner is  *)
(* counted by its shared_ptrs and by its members; a member is counted by   *)
(* itself until destroy() and by its requests, and lives in the memory of  *)
(* the owner, to which it passes its last release() on.                    *)
(*                                                                         *)
(* Listeners of destroy_event, which may do all this again, are modelled   *)
(* in Handle.  shared_from_this() adopts a pointer without retain() and is *)
(* not called: any other shared_ptr would then dangle.                     *)
(***************************************************************************)
EXTENDS Naturals, FiniteSets

CONSTANTS
    Owners,      \* objects made by make_shared()
    Members,     \* the object_wrapper members each of them has
    Pointers,    \* shared_ptr variables
    Null,        \* nullptr
    MaxRequests, \* bound: requests of a member
    MaxLost      \* bound: overwritten pointers to an owner

MembersOf(o) == {o} \X Members
Objects == Owners \union (Owners \X Members)

VARIABLES
    ptr,      \* _ptr of each shared_ptr
    memory,   \* of each owner: none (not made), live or deleted
    uses,     \* _use_count
    ended,    \* _is_destroyed
    requests, \* requests of a member that hold a use
    lost      \* history: pointers to an owner that were overwritten

pointerVars == <<ptr, memory, uses, ended, requests, lost>>

Init ==
    /\ ptr = [p \in Pointers |-> Null]
    /\ memory = [o \in Owners |-> "none"]
    /\ uses = [x \in Objects |-> 0]
    /\ ended = [x \in Objects |-> FALSE]
    /\ requests = [x \in Owners \X Members |-> 0]
    /\ lost = [o \in Owners |-> 0]

-----------------------------------------------------------------------------
Retained(x) == [uses EXCEPT ![x] = @ + 1]

\* The objects whose count release() of x changes: the last release() of a
\* member is one of its owner.
Releasing(x) ==
    IF x \in Owners \/ uses[x] > 1 THEN {x} ELSE {x, x[1]}

\* Those that nobody uses any more
Unused(x) == {y \in Releasing(x) : uses[y] = 1}

\* release(): an owner without uses is deleted with its members.
Release(x) ==
    /\ uses' = [y \in Objects |-> IF y \in Releasing(x) THEN uses[y] - 1 ELSE uses[y]]
    /\ memory' = [o \in Owners |-> IF o \in Unused(x) THEN "deleted" ELSE memory[o]]

Ended(these) == ended' = [y \in Objects |-> ended[y] \/ y \in these]

-----------------------------------------------------------------------------
(* shared_ptr *)

\* make_shared(); every member retains its owner.
Make(p, o) ==
    /\ ptr[p] = Null
    /\ memory[o] = "none"
    /\ ptr' = [ptr EXCEPT ![p] = o]
    /\ memory' = [memory EXCEPT ![o] = "live"]
    /\ uses' = [x \in Objects |-> IF x = o THEN 1 + Cardinality(Members)
                                  ELSE IF x \in MembersOf(o) THEN 1 ELSE uses[x]]
    /\ UNCHANGED <<ended, requests, lost>>

\* The pointer p held is overwritten without release().
Overwritten(p) ==
    /\ ptr[p] # Null => lost[ptr[p]] < MaxLost
    /\ lost' = [o \in Owners |-> IF o = ptr[p] THEN lost[o] + 1 ELSE lost[o]]

\* Copy construction (p is null) and copy assignment, to itself included
Copy(p, q) ==
    /\ Overwritten(p)
    /\ ptr' = [ptr EXCEPT ![p] = ptr[q]]
    /\ uses' = IF ptr[q] = Null THEN uses ELSE Retained(ptr[q])
    /\ UNCHANGED <<memory, ended, requests>>

\* Move construction and move assignment, to itself included
Move(p, q) ==
    /\ Overwritten(p)
    /\ ptr' = [r \in Pointers |-> IF r = q THEN Null
                                  ELSE IF r = p THEN ptr[q] ELSE ptr[r]]
    /\ UNCHANGED <<memory, uses, ended, requests>>

\* reset(), the assignment of nullptr and the destructor
Reset(p) ==
    /\ ptr[p] # Null
    /\ Release(ptr[p])
    /\ Ended(Unused(ptr[p]))
    /\ ptr' = [ptr EXCEPT ![p] = Null]
    /\ UNCHANGED <<requests, lost>>

-----------------------------------------------------------------------------
(* object *)

\* The program reaches an owner and its members through a shared_ptr; a request
\* of a member has a pointer to the member.
Reachable(o) == \E p \in Pointers : ptr[p] = o

\* destroy() of an owner marks it: its shared_ptrs will release it.
DestroyOwner(o) ==
    /\ Reachable(o)
    /\ ~ended[o]
    /\ Ended({o})
    /\ UNCHANGED <<ptr, memory, uses, requests, lost>>

\* Mutant: release() although destroy() was called before
DestroyMemberAgain(o, m) ==
    /\ Reachable(o) \/ requests[<<o, m>>] > 0
    /\ uses[<<o, m>>] > 0
    /\ Release(<<o, m>>)
    /\ Ended({<<o, m>>} \union Unused(<<o, m>>))
    /\ UNCHANGED <<ptr, requests, lost>>

\* destroy() of a member releases it; uses' > 0 as long as requests are pending.
DestroyMember(o, m) ==
    /\ Reachable(o) \/ requests[<<o, m>>] > 0
    /\ ~ended[<<o, m>>]
    /\ Release(<<o, m>>)
    /\ Ended({<<o, m>>} \union Unused(<<o, m>>))
    /\ UNCHANGED <<ptr, requests, lost>>

\* A member that is not destroyed starts a request, which retains it.
Request(o, m) ==
    /\ Reachable(o)
    /\ ~ended[<<o, m>>]
    /\ requests[<<o, m>>] < MaxRequests
    /\ uses' = Retained(<<o, m>>)
    /\ requests' = [requests EXCEPT ![<<o, m>>] = @ + 1]
    /\ UNCHANGED <<ptr, memory, ended, lost>>

\* The callback of the request releases the member.
Complete(o, m) ==
    /\ requests[<<o, m>>] > 0
    /\ requests' = [requests EXCEPT ![<<o, m>>] = @ - 1]
    /\ Release(<<o, m>>)
    /\ Ended(Unused(<<o, m>>))
    /\ UNCHANGED <<ptr, lost>>

Next ==
    \/ \E p \in Pointers, o \in Owners : Make(p, o)
    \/ \E p, q \in Pointers : Copy(p, q) \/ Move(p, q)
    \/ \E p \in Pointers : Reset(p)
    \/ \E o \in Owners : DestroyOwner(o)
    \/ \E o \in Owners, m \in Members :
          DestroyMember(o, m) \/ Request(o, m) \/ Complete(o, m)

Spec == Init /\ [][Next]_pointerVars

-----------------------------------------------------------------------------
TypeOK ==
    /\ ptr \in [Pointers -> Owners \union {Null}]
    /\ memory \in [Owners -> {"none", "live", "deleted"}]
    /\ uses \in [Objects -> Nat]
    /\ ended \in [Objects -> BOOLEAN]
    /\ requests \in [Owners \X Members -> Nat]
    /\ lost \in [Owners -> Nat]

MembersInUse(o) == {x \in MembersOf(o) : uses[x] > 0}

\* Copies, moves and resets of shared_ptrs in any order leave the count of an
\* owner at its pointers and its members in use; what is counted too much is
\* exactly the pointers that assignments overwrote (object.h:152-166), and an
\* owner exists as long as its count is not zero.
OwnerCountExact ==
    \A o \in Owners :
        /\ uses[o] = Cardinality({p \in Pointers : ptr[p] = o}) + lost[o]
                         + Cardinality(MembersInUse(o))
        /\ memory[o] = "live" <=> uses[o] > 0

\* No shared_ptr dangles, and no callback of a request finds the memory of its
\* member deleted with the owner (object.h:93-97).
NoDangling ==
    \A o \in Owners :
        (Reachable(o) \/ \E x \in MembersOf(o) : requests[x] > 0)
            => memory[o] = "live"

\* An owner whose shared_ptrs are gone and whose members are destroyed does not
\* outlive the last request, unless an assignment lost a pointer.
UnusedOwnerIsDeleted ==
    \A o \in Owners :
        /\ memory[o] # "none" /\ lost[o] = 0 /\ ~Reachable(o)
        /\ \A x \in MembersOf(o) : ended[x] /\ requests[x] = 0
        => memory[o] = "deleted"

\* Any mixture of copies, moves and resets of pointers with the ends of members
\* and their requests deletes an owner exactly after its last use
\* (object.h:79-205).
PointersSafe == TypeOK /\ OwnerCountExact /\ NoDangling /\ UnusedOwnerIsDeleted

=============================================================================
