------------------------------- MODULE Handle -------------------------------
(***************************************************************************)
(* The life of one reference counted object: node::object and              *)
(* node::shared_ptr (object.h), usually under node::uv::handle             *)
(* (uv/handle.h), which wraps a libuv handle.                              *)
(*                                                                         *)
(* Everything runs on the thread of the loop, but nearly every step can    *)
(* call back into user code, which can call everything again: destroy()    *)
(* emits destroy_event, removeAllListeners() runs the destructors of the   *)
(* listeners, these release() the object they captured, and so on.  The    *)
(* model executes this code in small steps; calls is the C++ call stack.   *)
(*                                                                         *)
(* Subclasses (streams, servers, async handles...) add requests, each of   *)
(* which retains the object until its completion callback, and callbacks;  *)
(* what they do with them is open here ("body") and closed in Stream.      *)
(***************************************************************************)
EXTENDS Integers, FiniteSets, Sequences

CONSTANTS
    Kinds,        \* what is inside the object: an "open" handle for a
                  \* uv::handle, "none" for a class that derives from object
                  \* itself, like the HTTP messages
    MaxRefs,      \* bound: shared_ptrs user code keeps outside of listeners
    MaxCaptures,  \* bound: listeners that captured a shared_ptr
    MaxPending,   \* bound: requests under way
    MaxCalls      \* bound: depth of the call stack when user code calls

ASSUME KindsAssumption == Kinds \subseteq {"open", "none"}
ASSUME BoundsAssumption ==
    /\ MaxRefs \in Nat /\ MaxCaptures \in Nat
    /\ MaxPending \in Nat /\ MaxCalls \in Nat

VARIABLES
    useCount,   \* object::_use_count
    destroyed,  \* object::_is_destroyed
    deleted,    \* "delete this" was executed
    handle,     \* the uv_handle_t inside the object, if there is one
    refs,       \* shared_ptrs user code keeps outside of listeners
    captures,   \* shared_ptrs in listeners that are registered and not running
    lost,       \* shared_ptrs in listeners that were removed while they ran:
                \* emit() never deletes those (see Emitter!RemovedIsDeleted)
    pending,    \* requests given to libuv whose callback has not run
    calls       \* the call stack, the running function last

refsVars == <<refs, captures, lost>>
lifeVars == <<useCount, destroyed, deleted, handle>>
vars == <<lifeVars, refsVars, pending, calls>>

(***************************************************************************)
(* The functions that can be on the call stack:                            *)
(*   user         an emit(), running a listener without a shared_ptr       *)
(*   userCap      an emit(), running a listener that captured a shared_ptr *)
(*   userLost     the same, after the listener was removed                 *)
(*   body         a libuv callback of a subclass                           *)
(*   destroy      destroy(), about to check _is_destroyed                  *)
(*   rmAll        removeAllListeners() in object::_destroy()               *)
(*   destroyTail  destroy() after _destroy()                               *)
(*   release      release(), about to decrement                            *)
(*   releaseTail  release() after _destroy()                               *)
(*   reset        shared_ptr::reset(), whose pointer is not null before    *)
(*                release() has returned to it, or ~shared_ptr()           *)
(*   cleared      the same, once a listener has set its pointer to null    *)
(***************************************************************************)
Running == {"user", "userCap", "userLost"}
Functions == Running \cup {"body", "destroy", "rmAll", "destroyTail",
                           "release", "releaseTail", "reset", "cleared"}

TypeOK ==
    /\ useCount \in Nat
    /\ destroyed \in BOOLEAN
    /\ deleted \in BOOLEAN
    /\ handle \in {"none", "open", "closing", "closed"}
    /\ refs \in Nat /\ captures \in Nat /\ lost \in Nat /\ pending \in Nat
    /\ calls \in Seq(Functions)

\* make_shared() of an object whose constructor initialized its uv handle
Init ==
    /\ useCount = 1 /\ refs = 1
    /\ destroyed = FALSE /\ deleted = FALSE
    /\ handle \in Kinds
    /\ captures = 0 /\ lost = 0 /\ pending = 0
    /\ calls = <<>>

-----------------------------------------------------------------------------
(* The call stack *)

Idle == calls = <<>>
Top == calls[Len(calls)]
Callers == SubSeq(calls, 1, Len(calls) - 1)
In(f) == calls # <<>> /\ Top = f

\* The stack s, with emit() called on top of it: it finds no listener, one
\* without or one with a captured shared_ptr.
Emitting(s) ==
    \/ calls' = s /\ UNCHANGED captures
    \/ calls' = Append(s, "user") /\ UNCHANGED captures
    \/ /\ captures > 0
       /\ captures' = captures - 1
       /\ calls' = Append(s, "userCap")

\* removeAllListeners() and off() do not delete a listener that is running.
Removed(s) == [i \in DOMAIN s |-> IF s[i] = "userCap" THEN "userLost" ELSE s[i]]

-----------------------------------------------------------------------------
(* object and handle *)

\* Mutant: uv_close() without retain()
DestroyingUnretained(count, tail) ==
    /\ destroyed' = TRUE
    /\ handle' = IF handle = "open" THEN "closing" ELSE handle
    /\ useCount' = count
    /\ Emitting(Append(Append(Callers, tail), "rmAll"))
    /\ UNCHANGED <<deleted, refs, lost, pending>>

\* object::_destroy(), called by the function that continues as tail, and
\* handle::_destroy(): uv_close() keeps the object until its callback.
Destroying(count, tail) ==
    /\ destroyed' = TRUE
    /\ handle' = IF handle = "open" THEN "closing" ELSE handle
    /\ useCount' = IF handle = "open" THEN count + 1 ELSE count
    /\ Emitting(Append(Append(Callers, tail), "rmAll"))
    /\ UNCHANGED <<deleted, refs, lost, pending>>

Destroy ==
    /\ In("destroy")
    /\ \/ destroyed /\ calls' = Callers /\ UNCHANGED <<lifeVars, captures>>
          /\ UNCHANGED <<refs, lost, pending>>
       \/ ~destroyed /\ Destroying(useCount, "destroyTail")

\* Mutant: destroy() releases shared objects, too.
DestroyTailReleases ==
    /\ In("destroyTail")
    /\ calls' = Append(Callers, "release")
    /\ UNCHANGED <<lifeVars, refsVars, pending>>

\* destroy() looks at _responsible_object, which shared objects do not have.
DestroyTail ==
    /\ In("destroyTail")
    /\ calls' = Callers
    /\ UNCHANGED <<lifeVars, refsVars, pending>>

\* removeAllListeners() deletes one listener after the other.
RemoveAll ==
    /\ In("rmAll")
    /\ \/ /\ captures > 0
          /\ captures' = captures - 1
          /\ calls' = Append(Removed(calls), "release")
       \/ /\ captures = 0
          /\ calls' = Removed(Callers)
          /\ UNCHANGED captures
    /\ UNCHANGED <<lifeVars, refs, lost, pending>>

Delete ==
    /\ deleted' = TRUE
    /\ calls' = Callers
    /\ UNCHANGED <<destroyed, handle, refsVars, pending>>

\* Mutant: the last release() does not destroy the object.
ReleaseWithoutDestroy ==
    /\ In("release")
    /\ \/ /\ useCount # 1 \/ ~destroyed
          /\ useCount' = useCount - 1
          /\ calls' = Callers
          /\ UNCHANGED <<destroyed, deleted, handle, refsVars, pending>>
       \/ /\ useCount = 1 /\ destroyed
          /\ useCount' = 0
          /\ Delete

Release ==
    /\ In("release")
    /\ \/ /\ useCount # 1
          /\ useCount' = useCount - 1
          /\ calls' = Callers
          /\ UNCHANGED <<destroyed, deleted, handle, refsVars, pending>>
       \/ /\ useCount = 1 /\ ~destroyed
          /\ Destroying(0, "releaseTail")
       \/ /\ useCount = 1 /\ destroyed
          /\ useCount' = 0
          /\ Delete

\* The pointer is set to null.
ResetTail ==
    /\ In("reset") \/ In("cleared")
    /\ calls' = Callers
    /\ UNCHANGED <<lifeVars, refsVars, pending>>

\* "sth. async happened in _destroy() --> wait until release() is called again"
ReleaseTail ==
    /\ In("releaseTail")
    /\ \/ useCount > 0 /\ calls' = Callers
          /\ UNCHANGED <<lifeVars, refsVars, pending>>
       \/ useCount = 0 /\ Delete /\ UNCHANGED useCount

-----------------------------------------------------------------------------
(* User code: outside of the loop's callbacks or in a listener *)

UserRuns == Idle \/ \E f \in Running : In(f)

\* The running listeners that captured a shared_ptr
Capturing == {i \in DOMAIN calls : calls[i] \in {"userCap", "userLost"}}

\* The shared_ptrs that are being reset and still point to the object
Resetting == {i \in DOMAIN calls : calls[i] = "reset"}

\* User code reaches the object through a shared_ptr.
HasRef == refs > 0 \/ Capturing # {} \/ Resetting # {}

User == UserRuns /\ HasRef /\ Len(calls) < MaxCalls

\* shared_ptr copy constructor
CopyRef ==
    /\ User /\ refs < MaxRefs
    /\ refs' = refs + 1
    /\ useCount' = useCount + 1
    /\ UNCHANGED <<destroyed, deleted, handle, captures, lost, pending, calls>>

\* ~shared_ptr() and reset(): release() gets the use of the pointer, which stays
\* as it is until ResetTail.
DropRef ==
    /\ User /\ refs > 0
    /\ refs' = refs - 1
    /\ calls' = Append(Append(calls, "reset"), "release")
    /\ UNCHANGED <<lifeVars, captures, lost, pending>>

\* A listener of destroy_event resets the very pointer whose reset() runs it:
\* it is not null, and release() gives up a use that is gone.
ResetAgain ==
    /\ User
    /\ \E i \in Resetting :
          calls' = [calls EXCEPT ![i] = "cleared"] \o <<"reset", "release">>
    /\ UNCHANGED <<lifeVars, refsVars, pending>>

\* on() with a listener that captures a shared_ptr to the object
Listen ==
    /\ User
    /\ captures + lost + Cardinality(Capturing) < MaxCaptures
    /\ captures' = captures + 1
    /\ useCount' = useCount + 1
    /\ UNCHANGED <<destroyed, deleted, handle, refs, lost, pending, calls>>

\* off() of such a listener: it is deleted now unless it is running
Unlisten ==
    /\ User
    /\ \/ /\ captures > 0
          /\ captures' = captures - 1
          /\ calls' = Append(calls, "release")
       \/ /\ \E i \in DOMAIN calls :
                /\ calls[i] = "userCap"
                /\ calls' = [calls EXCEPT ![i] = "userLost"]
          /\ UNCHANGED captures
    /\ UNCHANGED <<lifeVars, refs, lost, pending>>

CallDestroy ==
    /\ User
    /\ calls' = Append(calls, "destroy")
    /\ UNCHANGED <<lifeVars, refsVars, pending>>

\* emitter::emit() is public.  handle::emit(error_event) goes on to destroy the
\* object through this: user code does not call it for a closed handle, where
\* a listener could drop the last shared_ptr.
CallEmit ==
    /\ User
    /\ Emitting(calls)
    /\ UNCHANGED <<lifeVars, refs, lost, pending>>

CallEmitError ==
    /\ User /\ handle # "closed"
    /\ Emitting(Append(calls, "destroy"))
    /\ UNCHANGED <<lifeVars, refs, lost, pending>>

\* The listener returns to emit().
ReturnToEmit ==
    /\ calls # <<>> /\ Top \in Running
    /\ calls' = Callers
    /\ captures' = IF Top = "userCap" THEN captures + 1 ELSE captures
    /\ lost' = IF Top = "userLost" THEN lost + 1 ELSE lost
    /\ UNCHANGED <<lifeVars, refs, pending>>

-----------------------------------------------------------------------------
(* Subclasses and libuv *)

\* Mutant: the request does not retain the object.
StartRequestsUnretained(n) ==
    /\ User \/ In("body")
    /\ handle = "open"
    /\ pending + n <= MaxPending
    /\ pending' = pending + n
    /\ UNCHANGED <<lifeVars, refsVars, calls>>

\* A subclass passes n requests to libuv and retains the object for each.
\* A handle that is closing accepts none.
StartRequests(n) ==
    /\ User \/ In("body")
    /\ handle = "open"
    /\ pending + n <= MaxPending
    /\ pending' = pending + n
    /\ useCount' = useCount + n
    /\ UNCHANGED <<destroyed, deleted, handle, refsVars, calls>>

\* The code of a callback: emits events, destroys the object, returns.
BodyEmits ==
    /\ In("body")
    /\ Emitting(calls)
    /\ UNCHANGED <<lifeVars, refs, lost, pending>>

BodyDestroys ==
    /\ In("body")
    /\ calls' = Append(calls, "destroy")
    /\ UNCHANGED <<lifeVars, refsVars, pending>>

BodyReturns ==
    /\ In("body")
    /\ calls' = Callers
    /\ UNCHANGED <<lifeVars, refsVars, pending>>

\* libuv calls the read, timer, async... callback of a handle that is not
\* closing.
Callback ==
    /\ Idle /\ handle = "open"
    /\ calls' = <<"body">>
    /\ UNCHANGED <<lifeVars, refsVars, pending>>

\* libuv completes, or cancels, a request: the last thing its callback does
\* is to release the object.
Complete ==
    /\ Idle /\ pending > 0
    /\ pending' = pending - 1
    /\ calls' = <<"release", "body">>
    /\ UNCHANGED <<lifeVars, refsVars>>

\* Mutant: the close callback does not release().
ClosedUnreleased ==
    /\ Idle /\ handle = "closing" /\ pending = 0
    /\ handle' = "closed"
    /\ UNCHANGED <<useCount, destroyed, deleted, refsVars, pending, calls>>

\* libuv calls the close callback after those of all requests.
Closed ==
    /\ Idle /\ handle = "closing" /\ pending = 0
    /\ handle' = "closed"
    /\ calls' = <<"release">>
    /\ UNCHANGED <<useCount, destroyed, deleted, refsVars, pending>>

UserNext ==
    \/ CopyRef \/ DropRef \/ Listen \/ Unlisten
    \/ CallDestroy \/ CallEmit \/ CallEmitError \/ ReturnToEmit

ObjectNext ==
    Destroy \/ DestroyTail \/ RemoveAll \/ Release \/ ReleaseTail \/ ResetTail

Next ==
    \/ UserNext \/ ObjectNext
    \/ \E n \in 1 .. 2 : StartRequests(n)
    \/ BodyEmits \/ BodyDestroys \/ BodyReturns
    \/ Callback \/ Complete \/ Closed

\* A rule for programs: nobody resets a shared_ptr whose reset() or destructor
\* is running (or moves from it, which leaves the same use behind twice).
Spec == Init /\ [][Next]_vars

\* The programs that do not keep it
CarelessSpec == Init /\ [][Next \/ ResetAgain]_vars

-----------------------------------------------------------------------------
(* Fairness: listeners and callbacks return after finitely many calls (for *)
(* every depth of the stack: a listener cannot hide behind those it calls),*)
(* the code of the object runs on, and libuv delivers the callbacks of     *)
(* a handle that is closing (the loop is running).  Nothing else is fair:  *)
(* user code need not do anything, a request may stay pending forever.     *)

Fairness ==
    /\ WF_vars(ObjectNext)
    /\ \A d \in 1 .. MaxCalls + 3 : SF_vars(Len(calls) = d /\ ReturnToEmit)
    /\ SF_vars(BodyReturns)
    /\ SF_vars(handle = "closing" /\ Complete)
    /\ SF_vars(Closed)

FairSpec == Spec /\ Fairness

-----------------------------------------------------------------------------
(* Safety *)

\* The functions on the stack s that own a use of the object: release() will
\* give it back.
Owners == {"release", "userCap", "userLost"}
Owning(s) == {i \in DOMAIN s : s[i] \in Owners}
Closing == IF handle = "closing" THEN 1 ELSE 0

\* The uses nobody on the stack owns: shared_ptrs, requests, uv_close().
Held == refs + captures + lost + pending + Closing

\* _use_count is the number of shared_ptrs, requests and pending closes that
\* will release() the object, at every point of every callback.
RefCountExact == useCount = Held + Cardinality(Owning(calls))

\* "an object will only get deleted if it's currently not running an
\* asynchronous callback": when it is gone no function that will touch it is
\* on the call stack, libuv has let go of the handle and nobody keeps a pointer
\* to it.  (An emit() touches the handler it runs, which survives the emitter,
\* and nothing else; the reset() that deleted the object clears its pointer
\* before other code runs.)
UnusedWhenDeleted ==
    deleted =>
        /\ \A i \in DOMAIN calls :
              calls[i] = "user" \/ (calls[i] = "reset" /\ i = Len(calls))
        /\ handle \in {"none", "closed"} /\ pending = 0
        /\ refs = 0 /\ captures = 0 /\ lost = 0

\* The same where the code keeps that promise: for objects with a handle.
NoUseAfterFree == handle # "none" => UnusedWhenDeleted

\* release() asserts that there is a use to give up (object.h:80).  It follows
\* from RefCountExact; CarelessSpec breaks it.
ReleaseHasUse == In("release") => useCount > 0

(* Liveness *)

Abandoned == refs = 0 /\ captures = 0 /\ lost = 0

\* A destroyed object that nobody references is deleted, or somebody who was
\* still running took a new reference.
DestroyedIsDeleted == destroyed /\ Abandoned ~> deleted \/ ~Abandoned

\* Nobody keeps an object alive by doing nothing: without references and
\* requests it is destroyed and deleted.
UnusedIsDeleted ==
    Abandoned /\ pending = 0 ~> deleted \/ ~Abandoned \/ pending > 0

=============================================================================
