--------------------------- MODULE Handle_proofs ---------------------------
(***************************************************************************)
(* Theorems about Handle, for an object that wraps a libuv handle and any  *)
(* number of references, listeners and requests and any depth of the call  *)
(* stack.  The program resets no shared_ptr again whose reset() is running *)
(* (Spec): CarelessSpec is about those that do.                            *)
(***************************************************************************)
EXTENDS Handle, FiniteSetTheorems, SequenceTheorems, TLAPS

-----------------------------------------------------------------------------
(* What pushing to and popping from the call stack does to Owning *)

LEMMA OwningFinite ==
  ASSUME NEW s \in Seq(Functions)
  PROVE  IsFiniteSet(Owning(s)) /\ Cardinality(Owning(s)) \in Nat
<1>1. IsFiniteSet(1 .. Len(s))
  BY FS_Interval
<1>2. Owning(s) \in SUBSET (1 .. Len(s))
  BY DEF Owning
<1>3. IsFiniteSet(Owning(s))
  BY <1>1, <1>2, FS_Subset
<1> QED
  BY <1>3, FS_CardinalityType

LEMMA OwningEmpty == Owning(<<>>) = {} /\ Cardinality(Owning(<<>>)) = 0
BY FS_EmptySet DEF Owning

LEMMA OwningAppend ==
  ASSUME NEW s \in Seq(Functions), NEW f \in Functions
  PROVE  Cardinality(Owning(Append(s, f)))
           = Cardinality(Owning(s)) + (IF f \in Owners THEN 1 ELSE 0)
<1>1. Owning(Append(s, f))
        = IF f \in Owners THEN Owning(s) \cup {Len(s) + 1} ELSE Owning(s)
  BY DEF Owning
<1>2. Len(s) + 1 \notin Owning(s)
  BY DEF Owning
<1>3. IsFiniteSet(Owning(s)) /\ Cardinality(Owning(s)) \in Nat
  BY OwningFinite
<1>4. Cardinality(Owning(s) \cup {Len(s) + 1}) = Cardinality(Owning(s)) + 1
  BY <1>2, <1>3, FS_AddElement
<1> QED
  BY <1>1, <1>3, <1>4

LEMMA OwningPop ==
  ASSUME NEW s \in Seq(Functions), s # <<>>
  PROVE  LET r == SubSeq(s, 1, Len(s) - 1)
         IN  /\ r \in Seq(Functions)
             /\ Len(r) = Len(s) - 1
             /\ \A i \in DOMAIN r : r[i] = s[i]
             /\ Cardinality(Owning(s)) = Cardinality(Owning(r))
                  + (IF s[Len(s)] \in Owners THEN 1 ELSE 0)
<1> DEFINE r == SubSeq(s, 1, Len(s) - 1)
<1>1. /\ r \in Seq(Functions)
      /\ Len(r) = Len(s) - 1
      /\ \A i \in DOMAIN r : r[i] = s[i]
  <2>1. Len(s) \in Nat /\ Len(s) > 0 /\ \A i \in 1 .. Len(s) : s[i] \in Functions
    BY LenProperties, ElementOfSeq
  <2>2. /\ r \in Seq(Functions)
        /\ Len(r) = IF 1 <= Len(s) - 1 THEN Len(s) - 1 - 1 + 1 ELSE 0
        /\ \A i \in 1 .. Len(s) - 1 - 1 + 1 : r[i] = s[1 + i - 1]
    BY <2>1, SubSeqProperties
  <2> HIDE DEF r
  <2>3. Len(r) = Len(s) - 1
    <3>1. \A n \in Nat : n > 0 => (IF 1 <= n - 1 THEN n - 1 - 1 + 1 ELSE 0) = n - 1
      OBVIOUS
    <3> QED
      BY <2>1, <2>2, <3>1
  <2>4. DOMAIN r = 1 .. Len(s) - 1
    BY <2>2, <2>3, LenProperties
  <2> QED
    BY <2>1, <2>2, <2>3, <2>4
<1>2. s = Append(r, s[Len(s)]) /\ s[Len(s)] \in Functions
  OBVIOUS
<1>3. Cardinality(Owning(s))
        = Cardinality(Owning(r)) + (IF s[Len(s)] \in Owners THEN 1 ELSE 0)
  <2> HIDE DEF r
  <2> QED
    BY <1>1, <1>2, OwningAppend
<1> QED
  BY <1>1, <1>3

LEMMA OwningRemoved ==
  ASSUME NEW s \in Seq(Functions)
  PROVE  /\ Removed(s) \in Seq(Functions)
         /\ Len(Removed(s)) = Len(s)
         /\ Owning(Removed(s)) = Owning(s)
         /\ \A i \in DOMAIN s :
               Removed(s)[i] = IF s[i] = "userCap" THEN "userLost" ELSE s[i]
BY DEF Removed, Owning, Owners, Functions, Running

\* emit() on top of the stack s moves at most one captured reference from the
\* registered listeners to the stack.
LEMMA EmittingEffect ==
  ASSUME TypeOK, NEW s \in Seq(Functions), Emitting(s)
  PROVE  /\ calls' \in Seq(Functions)
         /\ captures' \in Nat
         /\ Cardinality(Owning(calls'))
              = Cardinality(Owning(s)) - (captures' - captures)
         /\ \A i \in DOMAIN calls' :
               \/ i \in DOMAIN s /\ calls'[i] = s[i]
               \/ calls'[i] \in Running
         /\ Len(calls') # Len(s) => calls'[Len(calls')] \in Running
         /\ captures' <= captures
<1>1. CASE calls' = s /\ UNCHANGED captures
  BY <1>1, OwningFinite DEF TypeOK
<1>2. CASE calls' = Append(s, "user") /\ UNCHANGED captures
  <2>1. Cardinality(Owning(calls')) = Cardinality(Owning(s))
    BY <1>2, OwningAppend, OwningFinite DEF Functions, Running, Owners
  <2> QED
    BY <1>2, <2>1, OwningFinite DEF TypeOK, Functions, Running
<1>3. CASE captures > 0 /\ captures' = captures - 1 /\ calls' = Append(s, "userCap")
  <2>1. Cardinality(Owning(calls')) = Cardinality(Owning(s)) + 1
    BY <1>3, OwningAppend, OwningFinite DEF Functions, Running, Owners
  <2> QED
    BY <1>3, <2>1, OwningFinite DEF TypeOK, Functions, Running
<1> QED
  BY <1>1, <1>2, <1>3 DEF Emitting

LEMMA PushEffect ==
  ASSUME TypeOK, NEW f \in Functions
  PROVE  /\ Append(calls, f) \in Seq(Functions)
         /\ Len(Append(calls, f)) = Len(calls) + 1
         /\ Append(calls, f)[Len(calls) + 1] = f
         /\ \A i \in DOMAIN calls : Append(calls, f)[i] = calls[i]
         /\ Cardinality(Owning(calls)) \in Nat
         /\ Cardinality(Owning(Append(calls, f)))
              = Cardinality(Owning(calls)) + (IF f \in Owners THEN 1 ELSE 0)
BY OwningAppend, OwningFinite DEF TypeOK

LEMMA PopEffect ==
  ASSUME TypeOK, calls # <<>>
  PROVE  /\ Callers \in Seq(Functions)
         /\ Len(Callers) = Len(calls) - 1
         /\ DOMAIN Callers = 1 .. Len(calls) - 1
         /\ \A i \in DOMAIN Callers : Callers[i] = calls[i]
         /\ Top \in Functions
         /\ Cardinality(Owning(Callers)) \in Nat
         /\ Cardinality(Owning(calls)) = Cardinality(Owning(Callers))
              + (IF Top \in Owners THEN 1 ELSE 0)
<1>1. calls \in Seq(Functions)
  BY DEF TypeOK
<1>2. /\ Callers \in Seq(Functions)
      /\ Len(Callers) = Len(calls) - 1
      /\ \A i \in DOMAIN Callers : Callers[i] = calls[i]
      /\ Cardinality(Owning(calls)) = Cardinality(Owning(Callers))
           + (IF Top \in Owners THEN 1 ELSE 0)
  BY <1>1, OwningPop DEF Callers, Top
<1>3. DOMAIN Callers = 1 .. Len(calls) - 1
  BY <1>2, LenProperties
<1>4. Top \in Functions
  BY <1>1, ElementOfSeq, LenProperties DEF Top
<1>5. Cardinality(Owning(Callers)) \in Nat
  BY <1>2, OwningFinite
<1> QED
  BY <1>2, <1>3, <1>4, <1>5

-----------------------------------------------------------------------------
(* The inductive invariant *)

\* The theorems are about objects with a handle.
HasHandle == Kinds = {"open"}

\* Where the functions can be when the handle closes: why a release() that
\* deletes the object never returns into code that uses it.
CallsFitHandle ==
    /\ handle # "none"
    /\ destroyed <=> handle # "open"
    /\ handle = "closed" => pending = 0
    /\ \A i \in DOMAIN calls :
          /\ calls[i] \in {"rmAll", "destroyTail", "releaseTail"}
                => handle = "closing"
          /\ calls[i] = "body" => handle # "closed"
          /\ handle = "closed" /\ calls[i] \in {"release", "destroy"}
                => i = Len(calls)
          /\ handle = "closed" /\ calls[i] = "reset" =>
                \/ i = Len(calls)
                \/ i + 1 = Len(calls) /\ calls[Len(calls)] = "release"
          /\ calls[i] # "cleared"

Inv == TypeOK /\ RefCountExact /\ CallsFitHandle /\ UnusedWhenDeleted

LEMMA InitInv ==
  ASSUME HasHandle, Init
  PROVE  Inv
<1>1. TypeOK
  <2>1. <<>> \in Seq(Functions)
    OBVIOUS
  <2> QED
    BY <2>1 DEF HasHandle, Init, TypeOK
<1>2. RefCountExact
  <2>1. Held = 1
    BY DEF HasHandle, Init, Held, Closing
  <2> QED
    BY <2>1, OwningEmpty DEF Init, RefCountExact
<1>3. CallsFitHandle /\ UnusedWhenDeleted
  BY DEF HasHandle, Init, CallsFitHandle, UnusedWhenDeleted
<1> QED
  BY <1>1, <1>2, <1>3 DEF Inv

\* A function returns that owns nothing and changes nothing else.
LEMMA PopKeepsInv ==
  ASSUME Inv, calls # <<>>, Top \notin Owners, calls' = Callers,
         UNCHANGED <<lifeVars, refsVars, pending>>
  PROVE  Inv'
<1>1. /\ calls' \in Seq(Functions)
      /\ Len(calls') = Len(calls) - 1
      /\ DOMAIN calls' = 1 .. Len(calls) - 1
      /\ \A i \in DOMAIN calls' : calls'[i] = calls[i]
      /\ Cardinality(Owning(calls')) = Cardinality(Owning(calls))
  BY PopEffect DEF Inv
<1>2. TypeOK'
  BY <1>1 DEF Inv, TypeOK, lifeVars, refsVars
<1>3. RefCountExact'
  <2>1. Held' = Held
    BY DEF Held, Closing, lifeVars, refsVars
  <2> QED
    BY <1>1, <2>1 DEF Inv, RefCountExact, lifeVars
<1>4. CallsFitHandle'
  <2>1. DOMAIN calls = 1 .. Len(calls) /\ Len(calls) \in Nat
    BY LenProperties DEF Inv, TypeOK
  <2>2. calls[Len(calls)] # "release"
    BY DEF Top, Owners
  <2> QED
    BY <1>1, <2>1, <2>2 DEF Inv, CallsFitHandle, lifeVars
<1>5. UnusedWhenDeleted'
  <2>1. DOMAIN calls = 1 .. Len(calls) /\ Len(calls) \in Nat
    BY LenProperties DEF Inv, TypeOK
  <2> QED
    BY <1>1, <2>1 DEF Inv, UnusedWhenDeleted, lifeVars, refsVars
<1> QED
  BY <1>2, <1>3, <1>4, <1>5 DEF Inv

\* A function of the object is called on top of user code or a callback.
LEMMA PushKeepsInv ==
  ASSUME Inv, NEW f \in {"release", "destroy"}, calls' = Append(calls, f),
         ~deleted,
         handle = "closed" =>
            \A i \in DOMAIN calls : calls[i] \notin {"release", "destroy", "reset"},
         UNCHANGED <<lifeVars, pending>>,
         refs' \in Nat, captures' \in Nat, lost' \in Nat,
         Held \in Nat, Held' \in Nat,
         Held = Held' + (IF f = "release" THEN 1 ELSE 0)
  PROVE  Inv'
<1>1. f \in Functions /\ (f \in Owners <=> f = "release")
  BY DEF Functions, Owners
<1>2. /\ calls' \in Seq(Functions)
      /\ Len(calls') = Len(calls) + 1
      /\ calls'[Len(calls) + 1] = f
      /\ \A i \in DOMAIN calls : calls'[i] = calls[i]
      /\ Cardinality(Owning(calls)) \in Nat
      /\ Cardinality(Owning(calls'))
           = Cardinality(Owning(calls)) + (IF f = "release" THEN 1 ELSE 0)
  BY <1>1, PushEffect DEF Inv
<1>3. TypeOK'
  BY <1>2 DEF Inv, TypeOK, lifeVars
<1>4. RefCountExact'
  <2>1. CASE f = "release"
    BY <2>1, <1>2 DEF Inv, RefCountExact, lifeVars
  <2>2. CASE f = "destroy"
    BY <2>2, <1>2 DEF Inv, RefCountExact, lifeVars
  <2> QED
    BY <2>1, <2>2
<1>5. CallsFitHandle'
  BY <1>2 DEF Inv, TypeOK, CallsFitHandle, lifeVars
<1>6. UnusedWhenDeleted'
  BY DEF UnusedWhenDeleted, lifeVars
<1> QED
  BY <1>3, <1>4, <1>5, <1>6 DEF Inv

LEMMA HeldNat == TypeOK => Held \in Nat /\ Closing \in Nat
BY DEF TypeOK, Held, Closing

LEMMA HeldNatNext == TypeOK' => Held' \in Nat /\ Closing' \in Nat
<1> SUFFICES ASSUME TypeOK' PROVE Held' \in Nat /\ Closing' \in Nat
  OBVIOUS
<1>1. refs' \in Nat /\ captures' \in Nat /\ lost' \in Nat /\ pending' \in Nat
  BY DEF TypeOK
<1>2. Closing' \in Nat
  BY DEF Closing
<1>3. \A a, b, c, d, e \in Nat : a + b + c + d + e \in Nat
  OBVIOUS
<1> QED
  BY <1>1, <1>2, <1>3 DEF Held

\* Listeners start or stop running, the handle may begin to close.
LEMMA HeldChange ==
  ASSUME TypeOK, TypeOK', UNCHANGED <<refs, lost, pending>>,
         NEW k \in Nat, Closing' = Closing + k
  PROVE  Held' = Held + (captures' - captures) + k
<1>1. /\ refs \in Nat /\ captures \in Nat /\ captures' \in Nat
      /\ lost \in Nat /\ pending \in Nat /\ Closing \in Nat
  BY HeldNat DEF TypeOK
<1>2. Held' = refs + captures' + lost + pending + (Closing + k)
  BY DEF Held
<1>3. \A r, c, d, l, p, q \in Nat :
        r + d + l + p + (q + k) = (r + c + l + p + q) + (d - c) + k
  OBVIOUS
<1>4. refs + captures' + lost + pending + (Closing + k)
        = (refs + captures + lost + pending + Closing) + (captures' - captures) + k
  BY <1>1, <1>3
<1> QED
  BY <1>2, <1>4 DEF Held

\* What the invariant says about the stack while user code runs.
LEMMA UserAlive ==
  ASSUME Inv, User
  PROVE  /\ ~deleted
         /\ handle = "closed" =>
              \A i \in DOMAIN calls : calls[i] \notin {"release", "destroy", "reset"}
<1>1. ~deleted
  <2> SUFFICES ASSUME deleted PROVE FALSE
    OBVIOUS
  <2>1. /\ refs = 0
        /\ \A i \in DOMAIN calls :
              calls[i] = "user" \/ (calls[i] = "reset" /\ i = Len(calls))
    BY DEF Inv, UnusedWhenDeleted
  <2>2. \A i \in DOMAIN calls : calls[i] = "reset" => i # Len(calls)
    BY DEF User, UserRuns, In, Top, Running, Idle
  <2> QED
    BY <2>1, <2>2 DEF User, HasRef, Capturing, Resetting
<1>2. ASSUME handle = "closed", NEW i \in DOMAIN calls,
             calls[i] \in {"release", "destroy", "reset"}
      PROVE  FALSE
  <2>1. i = Len(calls) \/ calls[Len(calls)] = "release"
    BY <1>2 DEF Inv, CallsFitHandle
  <2>2. calls # <<>>
    BY <1>2
  <2>3. Top \in Running
    BY <2>2 DEF User, UserRuns, In, Idle
  <2> QED
    BY <1>2, <2>1, <2>3 DEF Top, Running
<1> QED
  BY <1>1, <1>2

\* An event is emitted on top of the stack s, which owns as much as calls.
LEMMA EmitKeepsInv ==
  ASSUME Inv, NEW s \in Seq(Functions), Emitting(s), ~deleted,
         UNCHANGED <<lifeVars, refs, lost, pending>>,
         Cardinality(Owning(s)) = Cardinality(Owning(calls)),
         \A i \in DOMAIN s :
            /\ s[i] \in {"rmAll", "destroyTail", "releaseTail"}
                  => handle = "closing"
            /\ s[i] = "body" => handle # "closed"
            /\ handle = "closed" => s[i] \notin {"release", "destroy", "reset"}
            /\ s[i] # "cleared"
  PROVE  Inv'
<1>0. TypeOK /\ RefCountExact /\ CallsFitHandle
  BY DEF Inv
<1>1. /\ calls' \in Seq(Functions)
      /\ captures' \in Nat
      /\ Cardinality(Owning(calls'))
           = Cardinality(Owning(calls)) - (captures' - captures)
      /\ \A i \in DOMAIN calls' :
            \/ i \in DOMAIN s /\ calls'[i] = s[i]
            \/ calls'[i] \in Running
  BY <1>0, EmittingEffect
<1>2. TypeOK'
  BY <1>0, <1>1 DEF TypeOK, lifeVars
<1>3. RefCountExact'
  <2>0. Closing \in Nat /\ Held \in Nat /\ Held' \in Nat
    BY <1>0, <1>2, HeldNat, HeldNatNext
  <2> DEFINE moved == captures' - captures
  <2>1. Held' = Held + moved + 0
    <3>1. Closing' = Closing + 0
      BY <2>0 DEF Closing, lifeVars
    <3> QED
      BY <1>0, <1>2, <3>1, HeldChange
  <2>2. Cardinality(Owning(calls)) \in Nat
    BY <1>0, OwningFinite DEF TypeOK
  <2>3. Cardinality(Owning(calls')) = Cardinality(Owning(calls)) - moved
    BY <1>1
  <2>4. moved \in Int
    BY <1>0, <1>1 DEF TypeOK
  <2> HIDE DEF moved
  <2>5. Held + Cardinality(Owning(calls)) = Held' + Cardinality(Owning(calls'))
    BY <2>0, <2>1, <2>2, <2>3, <2>4
  <2> QED
    BY <1>0, <2>5 DEF RefCountExact, lifeVars
<1>4. CallsFitHandle'
  BY <1>0, <1>1 DEF CallsFitHandle, lifeVars, Running
<1>5. UnusedWhenDeleted'
  BY DEF UnusedWhenDeleted, lifeVars
<1> QED
  BY <1>2, <1>3, <1>4, <1>5 DEF Inv

\* _destroy(), on the way to the tail of destroy() or release().
LEMMA DestroyingKeepsInv ==
  ASSUME Inv, calls # <<>>, ~destroyed,
         NEW tail \in {"destroyTail", "releaseTail"}, NEW count \in Nat,
         count = Held + Cardinality(Owning(Callers)),
         Destroying(count, tail)
  PROVE  Inv'
<1> DEFINE s == Append(Append(Callers, tail), "rmAll")
<1>0. TypeOK /\ CallsFitHandle /\ handle = "open"
  BY DEF Inv, CallsFitHandle, TypeOK
<1>1. /\ Callers \in Seq(Functions)
      /\ \A i \in DOMAIN Callers : i \in DOMAIN calls /\ Callers[i] = calls[i]
  <2>1. DOMAIN calls = 1 .. Len(calls) /\ Len(calls) \in Nat
    BY <1>0, LenProperties DEF TypeOK
  <2> QED
    BY <1>0, <2>1, PopEffect
<1>2. /\ s \in Seq(Functions)
      /\ Cardinality(Owning(s)) = Cardinality(Owning(Callers))
      /\ \A i \in DOMAIN s :
            \/ i \in DOMAIN Callers /\ s[i] = Callers[i]
            \/ s[i] \in {tail, "rmAll"}
  <2>1. tail \in Functions /\ "rmAll" \in Functions
    BY DEF Functions
  <2>2. tail \notin Owners /\ "rmAll" \notin Owners
    BY DEF Owners
  <2>3. /\ Append(Callers, tail) \in Seq(Functions)
        /\ Cardinality(Owning(Append(Callers, tail)))
             = Cardinality(Owning(Callers))
    BY <1>1, <2>1, <2>2, OwningAppend, OwningFinite
  <2>4. /\ s \in Seq(Functions)
        /\ Cardinality(Owning(s)) = Cardinality(Owning(Callers))
    <3> DEFINE t == Append(Callers, tail)
    <3>1. t \in Seq(Functions) /\ Cardinality(Owning(t)) \in Nat
      BY <2>3, OwningFinite
    <3> HIDE DEF t
    <3>2. /\ Append(t, "rmAll") \in Seq(Functions)
          /\ Cardinality(Owning(Append(t, "rmAll"))) = Cardinality(Owning(t)) + 0
      BY <2>1, <2>2, <3>1, OwningAppend
    <3> QED
      BY <2>3, <3>1, <3>2 DEF t
  <2>5. \A i \in DOMAIN Append(Callers, tail) :
           \/ i \in DOMAIN Callers /\ Append(Callers, tail)[i] = Callers[i]
           \/ Append(Callers, tail)[i] = tail
    BY <1>1
  <2> DEFINE t == Append(Callers, tail)
  <2> HIDE DEF t
  <2>6. \A i \in DOMAIN Append(t, "rmAll") :
           \/ i \in DOMAIN t /\ Append(t, "rmAll")[i] = t[i]
           \/ Append(t, "rmAll")[i] = "rmAll"
    BY <2>3 DEF t
  <2> QED
    BY <2>4, <2>5, <2>6 DEF t
<1>3. Emitting(s)
  BY DEF Destroying
<1> HIDE DEF s
<1>4. /\ calls' \in Seq(Functions)
      /\ captures' \in Nat
      /\ Cardinality(Owning(calls'))
           = Cardinality(Owning(Callers)) - (captures' - captures)
      /\ \A i \in DOMAIN calls' :
            \/ i \in DOMAIN s /\ calls'[i] = s[i]
            \/ calls'[i] \in Running
  BY <1>0, <1>2, <1>3, EmittingEffect
<1>5. /\ destroyed' /\ handle' = "closing" /\ useCount' = count + 1
      /\ UNCHANGED <<deleted, refs, lost, pending>>
  BY <1>0 DEF Destroying
<1>6. TypeOK'
  BY <1>0, <1>4, <1>5 DEF TypeOK
<1>7. RefCountExact'
  <2> DEFINE moved == captures' - captures
  <2>1. Held' = Held + moved + 1
    <3>1. Closing' = Closing + 1
      BY <1>0, <1>5 DEF Closing
    <3> QED
      BY <1>0, <1>5, <1>6, <3>1, HeldChange
  <2>2. Held \in Nat /\ Cardinality(Owning(Callers)) \in Nat
    BY <1>0, <1>1, HeldNat, OwningFinite
  <2>3. Cardinality(Owning(calls')) = Cardinality(Owning(Callers)) - moved
    BY <1>4
  <2>4. moved \in Int
    BY <1>0, <1>4 DEF TypeOK
  <2> HIDE DEF moved
  <2>5. count + 1 = Held' + Cardinality(Owning(calls'))
    BY <2>1, <2>2, <2>3, <2>4
  <2> QED
    BY <1>5, <2>5 DEF RefCountExact
<1>8. CallsFitHandle'
  <2>1. handle' # "closed"
    BY <1>5
  <2>2. \A i \in DOMAIN calls' : calls'[i] # "cleared"
    <3>1. \A i \in DOMAIN s : s[i] # "cleared"
      BY <1>0, <1>1, <1>2 DEF CallsFitHandle
    <3> QED
      BY <1>4, <3>1 DEF Running
  <2> QED
    BY <1>5, <2>1, <2>2 DEF CallsFitHandle
<1>9. UnusedWhenDeleted'
  BY <1>0, <1>5 DEF Inv, UnusedWhenDeleted
<1> QED
  BY <1>6, <1>7, <1>8, <1>9 DEF Inv

-----------------------------------------------------------------------------
(* User code *)

\* New uses are taken: shared_ptrs, of listeners or of requests.
LEMMA TakeKeepsInv ==
  ASSUME Inv, ~deleted, NEW k \in Nat, useCount' = useCount + k,
         UNCHANGED <<destroyed, deleted, handle, lost, calls>>,
         \/ refs' = refs + k /\ UNCHANGED <<captures, pending>>
         \/ captures' = captures + k /\ UNCHANGED <<refs, pending>>
         \/ /\ pending' = pending + k /\ UNCHANGED <<refs, captures>>
            /\ handle # "closed"
  PROVE  Inv'
<1>0. TypeOK /\ RefCountExact /\ CallsFitHandle
  BY DEF Inv
<1>1. TypeOK'
  BY <1>0 DEF TypeOK
<1>2. RefCountExact'
  <2>1. Closing' = Closing /\ Closing \in Nat /\ Held \in Nat
    BY <1>0, HeldNat DEF Closing
  <2>2. /\ refs \in Nat /\ captures \in Nat /\ lost \in Nat /\ pending \in Nat
        /\ Held' = refs' + captures' + lost + pending' + Closing
    BY <1>0, <2>1 DEF TypeOK, Held
  <2>3. Held' = Held + k
    <3>1. \A r, c, l, p, q \in Nat :
             /\ (r + k) + c + l + p + q = (r + c + l + p + q) + k
             /\ r + (c + k) + l + p + q = (r + c + l + p + q) + k
             /\ r + c + l + (p + k) + q = (r + c + l + p + q) + k
      OBVIOUS
    <3>2. CASE refs' = refs + k /\ UNCHANGED <<captures, pending>>
      BY <2>1, <2>2, <3>1, <3>2 DEF Held
    <3>3. CASE captures' = captures + k /\ UNCHANGED <<refs, pending>>
      BY <2>1, <2>2, <3>1, <3>3 DEF Held
    <3>4. CASE pending' = pending + k /\ UNCHANGED <<refs, captures>>
      BY <2>1, <2>2, <3>1, <3>4 DEF Held
    <3> QED
      BY <3>2, <3>3, <3>4
  <2>4. Cardinality(Owning(calls)) \in Nat
    BY <1>0, OwningFinite DEF TypeOK
  <2>5. useCount' = Held' + Cardinality(Owning(calls))
    BY <1>0, <2>1, <2>3, <2>4 DEF RefCountExact
  <2> QED
    BY <2>5 DEF RefCountExact
<1>3. CallsFitHandle'
  BY <1>0 DEF CallsFitHandle
<1>4. UnusedWhenDeleted'
  BY DEF UnusedWhenDeleted
<1> QED
  BY <1>1, <1>2, <1>3, <1>4 DEF Inv

LEMMA CopyRefKeepsInv == Inv /\ CopyRef => Inv'
<1>1. 1 \in Nat
  OBVIOUS
<1> QED
  BY <1>1, UserAlive, TakeKeepsInv DEF CopyRef

LEMMA ListenKeepsInv == Inv /\ Listen => Inv'
<1>1. 1 \in Nat
  OBVIOUS
<1> QED
  BY <1>1, UserAlive, TakeKeepsInv DEF Listen

LEMMA BodyAlive == Inv /\ In("body") => ~deleted /\ handle # "closed"
<1> SUFFICES ASSUME Inv, In("body") PROVE ~deleted /\ handle # "closed"
  OBVIOUS
<1>1. Len(calls) \in DOMAIN calls /\ calls[Len(calls)] = "body"
  BY LenProperties, EmptySeq DEF Inv, TypeOK, In, Top
<1> QED
  BY <1>1 DEF Inv, UnusedWhenDeleted, CallsFitHandle

LEMMA StartRequestsKeepsInv ==
  ASSUME Inv, NEW n \in 1 .. 2, StartRequests(n)
  PROVE  Inv'
<1>1. ~deleted
  BY UserAlive, BodyAlive DEF StartRequests
<1>2. n \in Nat
  OBVIOUS
<1> QED
  BY <1>1, <1>2, TakeKeepsInv DEF StartRequests, refsVars

LEMMA DropRefKeepsInv == Inv /\ DropRef => Inv'
<1> SUFFICES ASSUME Inv, DropRef PROVE Inv'
  OBVIOUS
<1>1. TypeOK /\ Held \in Nat /\ Closing \in Nat
  BY HeldNat DEF Inv
<1>2. Closing' = Closing
  BY DEF DropRef, Closing, lifeVars
<1>3. refs' = refs - 1 /\ refs > 0 /\ UNCHANGED <<captures, lost, pending>>
  BY DEF DropRef
<1>4. Held' = Held - 1 /\ Held' \in Nat
  <2>1. \A r, c, l, p, q \in Nat : r > 0 =>
           /\ (r - 1) + c + l + p + q = (r + c + l + p + q) - 1
           /\ (r - 1) + c + l + p + q \in Nat
    OBVIOUS
  <2>2. /\ refs \in Nat /\ captures \in Nat /\ lost \in Nat /\ pending \in Nat
        /\ Held' = (refs - 1) + captures + lost + pending + Closing
    BY <1>1, <1>2, <1>3 DEF TypeOK, Held
  <2> QED
    BY <1>1, <1>3, <2>1, <2>2 DEF Held
<1>5. Held = Held' + 1
  BY <1>1, <1>4
<1>6. refs' \in Nat /\ captures' \in Nat /\ lost' \in Nat
  BY <1>1, <1>3 DEF TypeOK
<1>7. /\ UNCHANGED lifeVars /\ ~deleted
      /\ handle = "closed" =>
            \A i \in DOMAIN calls : calls[i] \notin {"release", "destroy", "reset"}
  BY UserAlive DEF DropRef
<1>8. /\ calls' \in Seq(Functions)
      /\ Len(calls') = Len(calls) + 2
      /\ DOMAIN calls' = 1 .. Len(calls) + 2
      /\ calls'[Len(calls) + 1] = "reset"
      /\ calls'[Len(calls) + 2] = "release"
      /\ \A i \in DOMAIN calls : calls'[i] = calls[i]
      /\ Cardinality(Owning(calls)) \in Nat
      /\ Cardinality(Owning(calls')) = Cardinality(Owning(calls)) + 1
  <2> DEFINE s == Append(calls, "reset")
  <2>0. /\ "reset" \in Functions /\ "release" \in Functions
        /\ "reset" \notin Owners /\ "release" \in Owners
    BY DEF Functions, Owners
  <2>1. /\ s \in Seq(Functions) /\ Len(s) = Len(calls) + 1
        /\ s[Len(calls) + 1] = "reset"
        /\ \A i \in DOMAIN calls : s[i] = calls[i]
        /\ Cardinality(Owning(calls)) \in Nat
        /\ Cardinality(Owning(s)) = Cardinality(Owning(calls)) + 0
    BY <1>1, <2>0, PushEffect
  <2>2. calls' = Append(s, "release")
    BY DEF DropRef
  <2> HIDE DEF s
  <2>3. Cardinality(Owning(Append(s, "release"))) = Cardinality(Owning(s)) + 1
    BY <2>0, <2>1, OwningAppend
  <2>4. Len(calls) \in Nat /\ DOMAIN calls = 1 .. Len(calls)
    BY <1>1, LenProperties DEF TypeOK
  <2>5. /\ calls' \in Seq(Functions) /\ Len(calls') = Len(s) + 1
        /\ calls'[Len(s) + 1] = "release"
        /\ \A i \in 1 .. Len(s) : calls'[i] = s[i]
    BY <2>0, <2>1, <2>2
  <2>6. DOMAIN calls' = 1 .. Len(calls')
    BY <2>5, LenProperties
  <2> QED
    BY <2>1, <2>2, <2>3, <2>4, <2>5, <2>6
<1>9. TypeOK'
  BY <1>1, <1>3, <1>6, <1>7, <1>8 DEF TypeOK, lifeVars
<1>10. RefCountExact'
  BY <1>1, <1>5, <1>4, <1>7, <1>8 DEF Inv, RefCountExact, lifeVars
<1>11. CallsFitHandle'
  <2>1. Len(calls) \in Nat /\ DOMAIN calls = 1 .. Len(calls)
    BY <1>1, LenProperties DEF TypeOK
  <2>2. \A i \in DOMAIN calls' :
           \/ i \in DOMAIN calls /\ calls'[i] = calls[i]
           \/ i + 1 = Len(calls') /\ calls'[i] = "reset"
           \/ i = Len(calls') /\ calls'[i] = "release"
    BY <1>8, <2>1
  <2>3. CallsFitHandle
    BY DEF Inv
  <2>4. handle' = handle /\ destroyed' = destroyed
    BY <1>7 DEF lifeVars
  <2>5. calls'[Len(calls')] = "release"
    BY <1>8
  <2> QED
    BY <1>3, <1>7, <2>2, <2>3, <2>4, <2>5 DEF CallsFitHandle
<1>12. UnusedWhenDeleted'
  BY <1>7 DEF UnusedWhenDeleted, lifeVars
<1> QED
  BY <1>9, <1>10, <1>11, <1>12 DEF Inv

\* A registered listener is deleted: its shared_ptr calls release().
LEMMA CapturedReleased ==
  ASSUME TypeOK, captures > 0, captures' = captures - 1,
         UNCHANGED <<handle, refs, lost, pending>>
  PROVE  captures' \in Nat /\ Held' \in Nat /\ Held = Held' + 1
<1>1. Closing \in Nat /\ Closing' = Closing /\ Held \in Nat
  BY HeldNat DEF Closing
<1>2. \A r, c, l, p, q \in Nat : c > 0 =>
         /\ r + (c - 1) + l + p + q = (r + c + l + p + q) - 1
         /\ r + (c - 1) + l + p + q \in Nat
  OBVIOUS
<1>3. /\ refs \in Nat /\ captures \in Nat /\ lost \in Nat /\ pending \in Nat
      /\ Held' = refs + (captures - 1) + lost + pending + Closing
  BY <1>1 DEF TypeOK, Held
<1>4. Held' = Held - 1 /\ Held' \in Nat
  BY <1>1, <1>2, <1>3 DEF Held
<1> QED
  BY <1>1, <1>3, <1>4

LEMMA UnlistenKeepsInv == Inv /\ Unlisten => Inv'
<1> SUFFICES ASSUME Inv, Unlisten PROVE Inv'
  OBVIOUS
<1>0. TypeOK /\ RefCountExact /\ CallsFitHandle /\ ~deleted
  BY UserAlive DEF Inv, Unlisten
<1>1. CASE /\ captures > 0 /\ captures' = captures - 1
           /\ calls' = Append(calls, "release")
  <2>1. captures' \in Nat /\ Held' \in Nat /\ Held = Held' + 1
    BY <1>0, <1>1, CapturedReleased DEF Unlisten, lifeVars
  <2>2. refs' \in Nat /\ lost' \in Nat /\ Held \in Nat
    BY <1>0, HeldNat DEF Unlisten, TypeOK
  <2> QED
    BY <1>0, <1>1, <2>1, <2>2, UserAlive, PushKeepsInv DEF Unlisten
<1>2. ASSUME NEW i \in DOMAIN calls, calls[i] = "userCap",
             calls' = [calls EXCEPT ![i] = "userLost"], UNCHANGED captures
      PROVE  Inv'
  <2>1. /\ calls' \in Seq(Functions)
        /\ DOMAIN calls' = DOMAIN calls
        /\ Len(calls') = Len(calls)
        /\ \A j \in DOMAIN calls :
             calls'[j] = IF j = i THEN "userLost" ELSE calls[j]
    BY <1>0, <1>2 DEF TypeOK, Functions, Running
  <2>2. Owning(calls') = Owning(calls)
    BY <1>2, <2>1 DEF Owning, Owners
  <2>3. UNCHANGED <<lifeVars, refs, lost, pending, captures>>
    BY <1>2 DEF Unlisten
  <2>4. TypeOK'
    BY <1>0, <2>1, <2>3 DEF TypeOK, lifeVars
  <2>5. RefCountExact'
    <3>1. Held' = Held
      BY <2>3 DEF Held, Closing, lifeVars
    <3> QED
      BY <1>0, <2>2, <2>3, <3>1 DEF RefCountExact, lifeVars
  <2>6. CallsFitHandle'
    <3>1. handle' = handle /\ destroyed' = destroyed /\ pending' = pending
      BY <2>3 DEF lifeVars
    <3>2. \A j \in DOMAIN calls : \/ calls'[j] = calls[j]
                                  \/ calls'[j] = "userLost"
      BY <2>1
    <3>3. Len(calls) \in DOMAIN calls /\ calls[Len(calls)] = "release"
            => calls'[Len(calls')] = "release"
      BY <1>2, <2>1
    <3>4. Len(calls) \in DOMAIN calls
      BY <1>0, <1>2, LenProperties, EmptySeq DEF TypeOK
    <3> QED
      BY <1>0, <2>1, <3>1, <3>2, <3>3, <3>4 DEF CallsFitHandle
  <2>7. UnusedWhenDeleted'
    BY <1>0, <2>3 DEF UnusedWhenDeleted, lifeVars
  <2> QED
    BY <2>4, <2>5, <2>6, <2>7 DEF Inv
<1> QED
  BY <1>1, <1>2 DEF Unlisten

\* destroy() is called by user code or by a callback.
LEMMA CallDestroyKeepsInv ==
  ASSUME Inv, User \/ In("body"), calls' = Append(calls, "destroy"),
         UNCHANGED <<lifeVars, refsVars, pending>>
  PROVE  Inv'
<1>1. /\ ~deleted
      /\ handle = "closed" =>
            \A i \in DOMAIN calls : calls[i] \notin {"release", "destroy", "reset"}
  BY UserAlive, BodyAlive
<1>2. Held \in Nat /\ Held' = Held
  BY HeldNat DEF Inv, Held, Closing, lifeVars, refsVars
<1>3. refs' \in Nat /\ captures' \in Nat /\ lost' \in Nat
  BY DEF Inv, TypeOK, refsVars
<1>4. Held = Held' + (IF "destroy" = "release" THEN 1 ELSE 0)
  BY <1>2
<1> QED
  BY <1>1, <1>2, <1>3, <1>4, PushKeepsInv

\* emit() is called by user code or by a callback.
LEMMA CallEmitKeepsInv ==
  ASSUME Inv, User \/ In("body"), Emitting(calls),
         UNCHANGED <<lifeVars, refs, lost, pending>>
  PROVE  Inv'
<1>1. /\ ~deleted
      /\ handle = "closed" =>
            \A i \in DOMAIN calls : calls[i] \notin {"release", "destroy", "reset"}
  BY UserAlive, BodyAlive
<1>2. calls \in Seq(Functions) /\ CallsFitHandle
  BY DEF Inv, TypeOK
<1>3. \A i \in DOMAIN calls :
         /\ calls[i] \in {"rmAll", "destroyTail", "releaseTail"}
               => handle = "closing"
         /\ calls[i] = "body" => handle # "closed"
         /\ handle = "closed" => calls[i] \notin {"release", "destroy", "reset"}
         /\ calls[i] # "cleared"
  BY <1>1, <1>2 DEF CallsFitHandle
<1> QED
  BY <1>1, <1>2, <1>3, EmitKeepsInv

LEMMA CallEmitErrorKeepsInv == Inv /\ CallEmitError => Inv'
<1> SUFFICES ASSUME Inv, CallEmitError PROVE Inv'
  OBVIOUS
<1> DEFINE s == Append(calls, "destroy")
<1>1. ~deleted /\ handle # "closed"
  BY UserAlive DEF CallEmitError
<1>2. TypeOK /\ CallsFitHandle
  BY DEF Inv
<1>3. "destroy" \in Functions /\ "destroy" \notin Owners
  BY DEF Functions, Owners
<1>4. /\ s \in Seq(Functions)
      /\ Cardinality(Owning(s)) = Cardinality(Owning(calls))
      /\ Len(s) = Len(calls) + 1 /\ s[Len(calls) + 1] = "destroy"
      /\ \A i \in DOMAIN calls : s[i] = calls[i]
  BY <1>2, <1>3, PushEffect
<1>5. \A i \in DOMAIN s :
         /\ s[i] \in {"rmAll", "destroyTail", "releaseTail"}
               => handle = "closing"
         /\ s[i] = "body" => handle # "closed"
         /\ handle = "closed" => s[i] \notin {"release", "destroy", "reset"}
         /\ s[i] # "cleared"
  <2>1. \A i \in DOMAIN s : i \in DOMAIN calls \/ i = Len(calls) + 1
    BY <1>2 DEF TypeOK
  <2> HIDE DEF s
  <2> QED
    BY <1>1, <1>2, <1>4, <2>1 DEF CallsFitHandle
<1>6. Emitting(s) /\ UNCHANGED <<lifeVars, refs, lost, pending>>
  BY DEF CallEmitError
<1> HIDE DEF s
<1> QED
  BY <1>1, <1>4, <1>5, <1>6, EmitKeepsInv

LEMMA ReturnKeepsInv == Inv /\ ReturnToEmit => Inv'
<1> SUFFICES ASSUME Inv, ReturnToEmit PROVE Inv'
  OBVIOUS
<1>0. TypeOK /\ RefCountExact /\ CallsFitHandle /\ calls # <<>>
  BY DEF Inv, ReturnToEmit
<1>1. CASE Top = "user"
  <2>1. Top \notin Owners /\ UNCHANGED <<lifeVars, refsVars, pending>>
    BY <1>1 DEF Owners, ReturnToEmit, refsVars
  <2> QED
    BY <1>0, <2>1, PopKeepsInv DEF ReturnToEmit
<1>2. CASE Top \in {"userCap", "userLost"}
  <2>1. /\ calls' \in Seq(Functions)
        /\ Len(calls') = Len(calls) - 1
        /\ DOMAIN calls' = 1 .. Len(calls) - 1
        /\ \A i \in DOMAIN calls' : calls'[i] = calls[i]
        /\ Cardinality(Owning(calls')) \in Nat
        /\ Cardinality(Owning(calls)) = Cardinality(Owning(calls')) + 1
    BY <1>0, <1>2, PopEffect DEF ReturnToEmit, Owners
  <2>2. DOMAIN calls = 1 .. Len(calls) /\ Len(calls) \in Nat /\ Len(calls) > 0
    BY <1>0, LenProperties, EmptySeq DEF TypeOK
  <2>3. ~deleted
    BY <1>2, <2>2 DEF Inv, UnusedWhenDeleted, Top
  <2>4. UNCHANGED <<lifeVars, refs, pending>>
    BY DEF ReturnToEmit
  <2>5. /\ refs \in Nat /\ captures \in Nat /\ lost \in Nat /\ pending \in Nat
        /\ Closing \in Nat /\ Held \in Nat /\ Closing' = Closing
    BY <1>0, <2>4, HeldNat DEF TypeOK, Closing, lifeVars
  <2>6. \/ captures' = captures + 1 /\ lost' = lost
        \/ captures' = captures /\ lost' = lost + 1
    BY <1>2 DEF ReturnToEmit
  <2>7. Held' = Held + 1
    <3>1. \A r, c, l, p, q \in Nat :
             /\ r + (c + 1) + l + p + q = (r + c + l + p + q) + 1
             /\ r + c + (l + 1) + p + q = (r + c + l + p + q) + 1
      OBVIOUS
    <3>2. Held' = refs + captures' + lost' + pending + Closing
      BY <2>4, <2>5 DEF Held
    <3> QED
      BY <2>5, <2>6, <3>1, <3>2 DEF Held
  <2>8. TypeOK'
    BY <1>0, <2>1, <2>4, <2>5, <2>6 DEF TypeOK, lifeVars
  <2>9. RefCountExact'
    <3>1. useCount' = Held + (Cardinality(Owning(calls')) + 1)
      BY <1>0, <2>1, <2>4 DEF RefCountExact, lifeVars
    <3>2. useCount' = Held' + Cardinality(Owning(calls'))
      BY <2>1, <2>5, <2>7, <3>1
    <3> QED
      BY <3>2 DEF RefCountExact
  <2>10. CallsFitHandle'
    BY <1>0, <2>1, <2>2, <2>4 DEF CallsFitHandle, lifeVars
  <2>11. UnusedWhenDeleted'
    BY <2>3, <2>4 DEF UnusedWhenDeleted, lifeVars
  <2> QED
    BY <2>8, <2>9, <2>10, <2>11 DEF Inv
<1> QED
  BY <1>1, <1>2 DEF ReturnToEmit, Running

-----------------------------------------------------------------------------
(* The object and the callbacks *)

LEMMA TopAt ==
  ASSUME TypeOK, NEW f, In(f)
  PROVE  /\ calls # <<>> /\ Len(calls) \in DOMAIN calls
         /\ calls[Len(calls)] = f /\ Top = f
         /\ DOMAIN calls = 1 .. Len(calls)
BY LenProperties, EmptySeq DEF TypeOK, In, Top

LEMMA DestroyKeepsInv == Inv /\ Destroy => Inv'
<1> SUFFICES ASSUME Inv, Destroy PROVE Inv'
  OBVIOUS
<1>0. TypeOK /\ RefCountExact /\ calls # <<>> /\ Top = "destroy"
  BY TopAt DEF Inv, Destroy
<1>1. CASE destroyed
  <2>1. /\ Top \notin Owners /\ calls' = Callers
        /\ UNCHANGED <<lifeVars, refsVars, pending>>
    BY <1>0, <1>1 DEF Destroy, Owners, refsVars
  <2> QED
    BY <1>0, <2>1, PopKeepsInv
<1>2. CASE ~destroyed
  <2>1. Destroying(useCount, "destroyTail")
    BY <1>2 DEF Destroy
  <2>2. useCount = Held + Cardinality(Owning(Callers))
    BY <1>0, PopEffect DEF RefCountExact, Owners
  <2>3. useCount \in Nat
    BY <1>0 DEF TypeOK
  <2> QED
    BY <1>0, <1>2, <2>1, <2>2, <2>3, DestroyingKeepsInv
<1> QED
  BY <1>1, <1>2

LEMMA TailsKeepInv ==
  ASSUME Inv, NEW f \in {"destroyTail", "releaseTail", "body", "reset"}, In(f),
         calls' = Callers, UNCHANGED <<lifeVars, refsVars, pending>>
  PROVE  Inv'
<1>1. calls # <<>> /\ Top = f /\ f \notin Owners
  BY TopAt DEF Inv, Owners
<1> QED
  BY <1>1, PopKeepsInv

\* uv_close() still holds the object when release() returns from _destroy().
LEMMA ReleaseTailKeepsInv == Inv /\ ReleaseTail => Inv'
<1> SUFFICES ASSUME Inv, ReleaseTail PROVE Inv'
  OBVIOUS
<1>0. TypeOK /\ RefCountExact /\ CallsFitHandle
  BY DEF Inv
<1>1. handle = "closing"
  BY <1>0, TopAt DEF ReleaseTail, CallsFitHandle
<1>2. useCount > 0
  <2>1. Closing = 1
    BY <1>1 DEF Closing
  <2>2. /\ refs \in Nat /\ captures \in Nat /\ lost \in Nat /\ pending \in Nat
        /\ Cardinality(Owning(calls)) \in Nat
    BY <1>0, OwningFinite DEF TypeOK
  <2>3. \A r, c, l, p, m \in Nat : r + c + l + p + 1 + m > 0
    OBVIOUS
  <2>4. useCount = refs + captures + lost + pending + 1 + Cardinality(Owning(calls))
    BY <1>0, <2>1 DEF RefCountExact, Held
  <2> QED
    BY <2>2, <2>3, <2>4
<1>3. calls' = Callers /\ UNCHANGED <<lifeVars, refsVars, pending>>
  BY <1>2 DEF ReleaseTail
<1> QED
  BY <1>3, TailsKeepInv DEF ReleaseTail

\* Nobody holds the object, no caller will touch it: release() may delete it.
LEMMA LastRelease ==
  ASSUME Inv, In("release"), useCount = 1, destroyed
  PROVE  /\ refs = 0 /\ captures = 0 /\ lost = 0 /\ pending = 0
         /\ handle = "closed" /\ Closing = 0
         /\ Cardinality(Owning(Callers)) = 0
         /\ \A i \in DOMAIN Callers :
               Callers[i] = "user" \/ (Callers[i] = "reset" /\ i = Len(Callers))
<1>0. TypeOK /\ RefCountExact /\ CallsFitHandle
  BY DEF Inv
<1>1. /\ calls # <<>> /\ Top = "release"
      /\ DOMAIN calls = 1 .. Len(calls) /\ Len(calls) \in Nat
  BY <1>0, TopAt, LenProperties DEF TypeOK
<1>2. /\ Callers \in Seq(Functions)
      /\ DOMAIN Callers = 1 .. Len(calls) - 1
      /\ \A i \in DOMAIN Callers : Callers[i] = calls[i]
      /\ Cardinality(Owning(Callers)) \in Nat
      /\ Cardinality(Owning(calls)) = Cardinality(Owning(Callers)) + 1
  BY <1>0, <1>1, PopEffect DEF Owners
<1>3. /\ refs = 0 /\ captures = 0 /\ lost = 0 /\ pending = 0 /\ Closing = 0
      /\ Cardinality(Owning(Callers)) = 0
  <2>1. \A r, c, l, p, q, m \in Nat :
           1 = r + c + l + p + q + (m + 1) =>
             r = 0 /\ c = 0 /\ l = 0 /\ p = 0 /\ q = 0 /\ m = 0
    OBVIOUS
  <2>2. /\ refs \in Nat /\ captures \in Nat /\ lost \in Nat /\ pending \in Nat
        /\ Closing \in Nat
    BY <1>0, HeldNat DEF TypeOK
  <2>3. 1 = refs + captures + lost + pending + Closing
              + (Cardinality(Owning(Callers)) + 1)
    BY <1>0, <1>2 DEF RefCountExact, Held
  <2> QED
    BY <1>2, <2>1, <2>2, <2>3
<1>4. handle = "closed"
  BY <1>0, <1>3 DEF CallsFitHandle, Closing, TypeOK
<1>5. ASSUME NEW i \in DOMAIN Callers
      PROVE  Callers[i] = "user" \/ (Callers[i] = "reset" /\ i = Len(Callers))
  <2>1. /\ i \in DOMAIN calls /\ i # Len(calls) /\ Callers[i] = calls[i]
        /\ i + 1 = Len(calls) => i = Len(Callers)
    <3>1. Len(Callers) = Len(calls) - 1
      BY <1>0, <1>1, PopEffect
    <3> QED
      BY <1>1, <1>2, <3>1
  <2>2. Callers[i] \in Functions
    BY <1>2
  <2>3. Callers[i] \notin {"rmAll", "destroyTail", "releaseTail", "body",
                           "release", "destroy", "cleared"}
    BY <1>0, <1>4, <2>1 DEF CallsFitHandle
  <2>5. Callers[i] = "reset" => i = Len(Callers)
    BY <1>0, <1>4, <2>1 DEF CallsFitHandle
  <2>4. Callers[i] \notin Owners
    <3>1. Owning(Callers) = {}
      BY <1>2, <1>3, OwningFinite, FS_EmptySet
    <3> QED
      BY <3>1 DEF Owning
  <2> QED
    BY <2>2, <2>3, <2>4, <2>5 DEF Functions, Running, Owners
<1> QED
  BY <1>3, <1>4, <1>5

LEMMA ReleaseKeepsInv == Inv /\ Release => Inv'
<1> SUFFICES ASSUME Inv, Release PROVE Inv'
  OBVIOUS
<1>0. TypeOK /\ RefCountExact /\ CallsFitHandle
  BY DEF Inv
<1>1. /\ calls # <<>> /\ Top = "release" /\ Len(calls) \in DOMAIN calls
      /\ calls[Len(calls)] = "release"
      /\ DOMAIN calls = 1 .. Len(calls) /\ Len(calls) \in Nat
  BY <1>0, TopAt, LenProperties DEF Release, TypeOK
<1>2. /\ Callers \in Seq(Functions)
      /\ DOMAIN Callers = 1 .. Len(calls) - 1
      /\ Len(Callers) = Len(calls) - 1
      /\ \A i \in DOMAIN Callers : Callers[i] = calls[i]
      /\ Cardinality(Owning(Callers)) \in Nat
      /\ Cardinality(Owning(calls)) = Cardinality(Owning(Callers)) + 1
  BY <1>0, <1>1, PopEffect DEF Owners
<1>3. Held \in Nat /\ useCount \in Nat
  BY <1>0, HeldNat DEF TypeOK
<1>4. useCount - 1 = Held + Cardinality(Owning(Callers))
  BY <1>0, <1>2, <1>3 DEF RefCountExact
<1>5. CASE useCount > 1
  <2>1. /\ useCount' = useCount - 1 /\ calls' = Callers
        /\ UNCHANGED <<destroyed, deleted, handle, refsVars, pending>>
    BY <1>5 DEF Release
  <2>2. TypeOK'
    BY <1>0, <1>2, <1>3, <1>5, <2>1 DEF TypeOK, refsVars
  <2>3. RefCountExact'
    <3>1. Held' = Held
      BY <2>1 DEF Held, Closing, refsVars
    <3> QED
      BY <1>4, <2>1, <3>1 DEF RefCountExact
  <2>4. CallsFitHandle'
    <3>1. \A i \in DOMAIN calls' : calls'[i] = calls[i] /\ i \in DOMAIN calls
                                  /\ i # Len(calls)
      BY <1>1, <1>2, <2>1
    <3> QED
      BY <1>0, <2>1, <3>1 DEF CallsFitHandle
  <2>5. UnusedWhenDeleted'
    BY <1>1, <2>1 DEF Inv, UnusedWhenDeleted
  <2> QED
    BY <2>2, <2>3, <2>4, <2>5 DEF Inv
<1>6. CASE useCount = 1 /\ ~destroyed
  <2>1. Destroying(0, "releaseTail")
    BY <1>6 DEF Release
  <2>2. 0 = Held + Cardinality(Owning(Callers))
    BY <1>4, <1>6
  <2> QED
    BY <1>1, <1>6, <2>1, <2>2, DestroyingKeepsInv
<1>7. CASE useCount = 1 /\ destroyed
  <2>1. /\ useCount' = 0 /\ deleted' = TRUE /\ calls' = Callers
        /\ UNCHANGED <<destroyed, handle, refsVars, pending>>
    BY <1>7 DEF Release, Delete
  <2>2. /\ refs = 0 /\ captures = 0 /\ lost = 0 /\ pending = 0
        /\ handle = "closed" /\ Closing = 0
        /\ Cardinality(Owning(Callers)) = 0
        /\ \A i \in DOMAIN Callers :
              Callers[i] = "user" \/ (Callers[i] = "reset" /\ i = Len(Callers))
    BY <1>7, LastRelease DEF Release
  <2>3. TypeOK'
    BY <1>0, <1>2, <2>1 DEF TypeOK, refsVars
  <2>4. RefCountExact'
    <3>1. Held' = Held
      BY <2>1 DEF Held, Closing, refsVars
    <3> QED
      BY <1>4, <1>7, <2>1, <3>1 DEF RefCountExact
  <2>5. CallsFitHandle'
    BY <1>0, <2>1, <2>2 DEF CallsFitHandle
  <2>6. UnusedWhenDeleted'
    BY <2>1, <2>2 DEF UnusedWhenDeleted, refsVars
  <2> QED
    BY <2>3, <2>4, <2>5, <2>6 DEF Inv
<1>8. useCount # 0
  BY <1>2, <1>3, <1>4
<1> QED
  BY <1>3, <1>5, <1>6, <1>7, <1>8 DEF Release

LEMMA RemoveAllKeepsInv == Inv /\ RemoveAll => Inv'
<1> SUFFICES ASSUME Inv, RemoveAll PROVE Inv'
  OBVIOUS
<1>0. /\ TypeOK /\ RefCountExact /\ CallsFitHandle
      /\ UNCHANGED <<lifeVars, refs, lost, pending>>
  BY DEF Inv, RemoveAll
<1>1. /\ calls # <<>> /\ Top = "rmAll" /\ Len(calls) \in DOMAIN calls
      /\ calls[Len(calls)] = "rmAll"
      /\ DOMAIN calls = 1 .. Len(calls) /\ Len(calls) \in Nat
  BY <1>0, TopAt, LenProperties DEF RemoveAll, TypeOK
<1>2. handle = "closing" /\ ~deleted
  BY <1>0, <1>1 DEF CallsFitHandle, Inv, UnusedWhenDeleted
<1>3. UnusedWhenDeleted'
  BY <1>0, <1>2 DEF UnusedWhenDeleted, lifeVars
<1>4. CallsFitHandle'
  <2>1. /\ handle' = handle /\ destroyed' = destroyed /\ handle # "closed"
        /\ pending' = pending
    BY <1>0, <1>2 DEF lifeVars
  <2>2. \A i \in DOMAIN calls' : calls'[i] # "cleared"
    <3>1. \A i \in DOMAIN calls : calls[i] # "cleared"
      BY <1>0 DEF CallsFitHandle
    <3>2. CASE calls' = Append(Removed(calls), "release")
      <4>1. /\ Removed(calls) \in Seq(Functions)
            /\ \A i \in DOMAIN Removed(calls) : Removed(calls)[i] # "cleared"
        BY <1>0, <3>1, OwningRemoved DEF TypeOK, Removed
      <4> DEFINE s == Removed(calls)
      <4> HIDE DEF s
      <4>2. \A i \in DOMAIN Append(s, "release") :
               Append(s, "release")[i] # "cleared"
        BY <4>1 DEF s
      <4> QED
        BY <3>2, <4>2 DEF s
    <3>3. CASE calls' = Removed(Callers)
      <4>1. \A i \in DOMAIN Callers : i \in DOMAIN calls /\ Callers[i] = calls[i]
        BY <1>0, <1>1, PopEffect
      <4> QED
        BY <3>1, <3>3, <4>1 DEF Removed
    <3> QED
      BY <3>2, <3>3 DEF RemoveAll
  <2> QED
    BY <1>0, <1>2, <2>1, <2>2 DEF CallsFitHandle
<1>5. CASE /\ captures > 0 /\ captures' = captures - 1
           /\ calls' = Append(Removed(calls), "release")
  <2>1. captures' \in Nat /\ Held' \in Nat /\ Held = Held' + 1
    BY <1>0, <1>5, CapturedReleased DEF lifeVars
  <2>2. /\ Removed(calls) \in Seq(Functions)
        /\ Owning(Removed(calls)) = Owning(calls)
    BY <1>0, OwningRemoved DEF TypeOK
  <2>3. "release" \in Functions /\ "release" \in Owners
    BY DEF Functions, Owners
  <2>4. /\ Cardinality(Owning(calls)) \in Nat
        /\ Cardinality(Owning(calls')) = Cardinality(Owning(calls)) + 1
    BY <1>0, <1>5, <2>2, <2>3, OwningAppend, OwningFinite DEF TypeOK
  <2>5. TypeOK'
    BY <1>0, <1>5, <2>1, <2>2, <2>3 DEF TypeOK, lifeVars
  <2>6. useCount' = Held' + Cardinality(Owning(calls'))
    BY <1>0, <2>1, <2>4 DEF RefCountExact, lifeVars
  <2> QED
    BY <1>3, <1>4, <2>5, <2>6 DEF Inv, RefCountExact
<1>6. CASE captures = 0 /\ calls' = Removed(Callers) /\ UNCHANGED captures
  <2>1. /\ Callers \in Seq(Functions)
        /\ Cardinality(Owning(Callers)) \in Nat
        /\ Cardinality(Owning(calls)) = Cardinality(Owning(Callers)) + 0
    BY <1>0, <1>1, PopEffect DEF Owners
  <2>2. /\ Removed(Callers) \in Seq(Functions)
        /\ Owning(Removed(Callers)) = Owning(Callers)
    BY <2>1, OwningRemoved
  <2>3. TypeOK'
    BY <1>0, <1>6, <2>2 DEF TypeOK, lifeVars
  <2>4. RefCountExact'
    <3>1. Held' = Held
      BY <1>0, <1>6 DEF Held, Closing, lifeVars
    <3>2. Cardinality(Owning(calls')) = Cardinality(Owning(calls))
      BY <1>6, <2>1, <2>2
    <3> QED
      BY <1>0, <3>1, <3>2 DEF RefCountExact, lifeVars
  <2> QED
    BY <1>3, <1>4, <2>3, <2>4 DEF Inv
<1> QED
  BY <1>5, <1>6 DEF RemoveAll

LEMMA CallbackKeepsInv == Inv /\ Callback => Inv'
<1> SUFFICES ASSUME Inv, Callback PROVE Inv'
  OBVIOUS
<1>0. /\ TypeOK /\ RefCountExact /\ CallsFitHandle /\ ~deleted
      /\ UNCHANGED <<lifeVars, refsVars, pending>>
      /\ calls = <<>> /\ calls' = <<"body">> /\ handle = "open"
  BY DEF Inv, Callback, Idle, UnusedWhenDeleted
<1>1. "body" \in Functions /\ "body" \notin Owners
  BY DEF Functions, Owners
<1>2. calls' = Append(calls, "body")
  BY <1>0
<1>3. /\ calls' \in Seq(Functions)
      /\ Cardinality(Owning(calls')) = Cardinality(Owning(calls)) + 0
      /\ Cardinality(Owning(calls)) \in Nat
  BY <1>0, <1>1, <1>2, PushEffect
<1>4. TypeOK'
  BY <1>0, <1>3 DEF TypeOK, lifeVars, refsVars
<1>5. RefCountExact'
  <2>1. Held' = Held
    BY <1>0 DEF Held, Closing, lifeVars, refsVars
  <2>2. Cardinality(Owning(calls')) = Cardinality(Owning(calls))
    BY <1>3
  <2> QED
    BY <1>0, <2>1, <2>2 DEF RefCountExact, lifeVars
<1>6. CallsFitHandle' /\ UnusedWhenDeleted'
  BY <1>0 DEF CallsFitHandle, UnusedWhenDeleted, lifeVars
<1> QED
  BY <1>4, <1>5, <1>6 DEF Inv

LEMMA CompleteKeepsInv == Inv /\ Complete => Inv'
<1> SUFFICES ASSUME Inv, Complete PROVE Inv'
  OBVIOUS
<1>0. /\ TypeOK /\ RefCountExact /\ CallsFitHandle
      /\ UNCHANGED <<lifeVars, refsVars>>
      /\ pending > 0 /\ pending' = pending - 1
      /\ calls = <<>> /\ calls' = <<"release", "body">>
  BY DEF Inv, Complete, Idle
<1>1. ~deleted /\ handle # "closed"
  BY <1>0 DEF Inv, UnusedWhenDeleted, CallsFitHandle
<1>2. /\ "release" \in Functions /\ "body" \in Functions
      /\ "release" \in Owners /\ "body" \notin Owners
  BY DEF Functions, Owners
<1>3. /\ calls' \in Seq(Functions)
      /\ Cardinality(Owning(calls')) = 1
      /\ Cardinality(Owning(calls)) = 0
  <2> DEFINE s == Append(<<>>, "release")
  <2>1. s \in Seq(Functions) /\ Cardinality(Owning(s)) = 1
    BY <1>0, <1>2, PushEffect, OwningEmpty
  <2>2. calls' = Append(s, "body")
    BY <1>0
  <2> HIDE DEF s
  <2>3. Cardinality(Owning(calls')) = 1 /\ calls' \in Seq(Functions)
    BY <1>2, <2>1, <2>2, OwningAppend
  <2> QED
    BY <1>0, <2>3, OwningEmpty
<1>4. TypeOK'
  BY <1>0, <1>3 DEF TypeOK, lifeVars, refsVars
<1>5. RefCountExact'
  <2>1. /\ refs \in Nat /\ captures \in Nat /\ lost \in Nat /\ pending \in Nat
        /\ Closing \in Nat /\ Held \in Nat /\ Closing' = Closing
    BY <1>0, HeldNat DEF TypeOK, Closing, lifeVars
  <2>2. Held' = Held - 1
    <3>1. \A r, c, l, p, q \in Nat :
             r + c + l + (p - 1) + q = (r + c + l + p + q) - 1
      OBVIOUS
    <3>2. Held' = refs + captures + lost + (pending - 1) + Closing
      BY <1>0, <2>1 DEF Held, refsVars
    <3> QED
      BY <2>1, <3>1, <3>2 DEF Held
  <2>3. useCount' = Held
    BY <1>0, <1>3, <2>1 DEF RefCountExact, lifeVars
  <2> QED
    BY <1>3, <2>1, <2>2, <2>3 DEF RefCountExact
<1>6. CallsFitHandle'
  BY <1>0, <1>1 DEF CallsFitHandle, lifeVars
<1>7. UnusedWhenDeleted'
  BY <1>0, <1>1 DEF UnusedWhenDeleted, lifeVars
<1> QED
  BY <1>4, <1>5, <1>6, <1>7 DEF Inv

LEMMA ClosedKeepsInv == Inv /\ Closed => Inv'
<1> SUFFICES ASSUME Inv, Closed PROVE Inv'
  OBVIOUS
<1>0. /\ TypeOK /\ RefCountExact /\ CallsFitHandle
      /\ UNCHANGED <<useCount, destroyed, deleted, refsVars, pending>>
      /\ pending = 0 /\ handle = "closing" /\ handle' = "closed"
      /\ calls = <<>> /\ calls' = <<"release">>
  BY DEF Inv, Closed, Idle
<1>1. ~deleted
  BY <1>0 DEF Inv, UnusedWhenDeleted
<1>2. "release" \in Functions /\ "release" \in Owners
  BY DEF Functions, Owners
<1>3. /\ calls' \in Seq(Functions)
      /\ Cardinality(Owning(calls')) = 1
      /\ Cardinality(Owning(calls)) = 0
  <2>1. calls' = Append(calls, "release")
    BY <1>0
  <2> QED
    BY <1>0, <1>2, <2>1, PushEffect, OwningEmpty
<1>4. TypeOK'
  BY <1>0, <1>3 DEF TypeOK, refsVars
<1>5. RefCountExact'
  <2>1. /\ refs \in Nat /\ captures \in Nat /\ lost \in Nat /\ pending \in Nat
        /\ Held \in Nat /\ Closing = 1 /\ Closing' = 0
    BY <1>0, HeldNat DEF TypeOK, Closing
  <2>2. Held' = Held - 1
    <3>1. \A r, c, l, p \in Nat : r + c + l + p + 0 = (r + c + l + p + 1) - 1
      OBVIOUS
    <3>2. Held' = refs + captures + lost + pending + 0
      BY <1>0, <2>1 DEF Held, refsVars
    <3> QED
      BY <2>1, <3>1, <3>2 DEF Held
  <2>3. useCount' = Held
    BY <1>0, <1>3, <2>1 DEF RefCountExact
  <2> QED
    BY <1>3, <2>1, <2>2, <2>3 DEF RefCountExact
<1>6. CallsFitHandle'
  <2>1. Len(calls') = 1 /\ \A i \in DOMAIN calls' : i = 1 /\ calls'[i] = "release"
    BY <1>0
  <2> QED
    BY <1>0, <2>1 DEF CallsFitHandle
<1>7. UnusedWhenDeleted'
  BY <1>0, <1>1 DEF UnusedWhenDeleted
<1> QED
  BY <1>4, <1>5, <1>6, <1>7 DEF Inv

-----------------------------------------------------------------------------
(* The theorems *)

LEMMA NextInv == Inv /\ [Next]_vars => Inv'
<1> SUFFICES ASSUME Inv, [Next]_vars PROVE Inv'
  OBVIOUS
<1>1. CASE UserNext
  <2>1. CASE CallDestroy
    BY <2>1, CallDestroyKeepsInv DEF CallDestroy
  <2>2. CASE CallEmit
    BY <2>2, CallEmitKeepsInv DEF CallEmit
  <2> QED
    BY <1>1, <2>1, <2>2, CopyRefKeepsInv, DropRefKeepsInv, ListenKeepsInv,
       UnlistenKeepsInv, CallEmitErrorKeepsInv, ReturnKeepsInv DEF UserNext
<1>2. CASE ObjectNext
  <2>1. CASE DestroyTail
    BY <2>1, TailsKeepInv DEF DestroyTail
  <2>2. CASE ResetTail
    <3>1. ~In("cleared")
      BY TopAt DEF Inv, CallsFitHandle
    <3> QED
      BY <2>2, <3>1, TailsKeepInv DEF ResetTail
  <2> QED
    BY <1>2, <2>1, <2>2, DestroyKeepsInv, RemoveAllKeepsInv, ReleaseKeepsInv,
       ReleaseTailKeepsInv DEF ObjectNext
<1>3. CASE BodyEmits
  BY <1>3, CallEmitKeepsInv DEF BodyEmits
<1>4. CASE BodyDestroys
  BY <1>4, CallDestroyKeepsInv DEF BodyDestroys
<1>5. CASE BodyReturns
  BY <1>5, TailsKeepInv DEF BodyReturns
<1>6. CASE UNCHANGED vars
  <2>1. UNCHANGED <<useCount, destroyed, deleted, handle, refs, captures, lost,
                    pending, calls>>
    BY <1>6 DEF vars, lifeVars, refsVars
  <2>2. Held' = Held
    BY <2>1 DEF Held, Closing
  <2>3. TypeOK' /\ UnusedWhenDeleted' /\ CallsFitHandle'
    BY <2>1 DEF Inv, TypeOK, UnusedWhenDeleted, CallsFitHandle
  <2>4. RefCountExact'
    BY <2>1, <2>2 DEF Inv, RefCountExact
  <2> QED
    BY <2>3, <2>4 DEF Inv
<1> QED
  BY <1>1, <1>2, <1>3, <1>4, <1>5, <1>6, StartRequestsKeepsInv, CallbackKeepsInv,
     CompleteKeepsInv, ClosedKeepsInv DEF Next

\* The invariant holds in every reachable state, whatever the bounds.
THEOREM Invariance ==
  ASSUME HasHandle
  PROVE  Spec => []Inv
<1>1. Init => Inv
  BY InitInv
<1> QED
  BY <1>1, NextInv, PTL DEF Spec

\* The variables keep their types, _use_count never goes below zero: no path of
\* destroy(), reset() and release() gives back a use that was not taken
\* (object.h:80), as long as nobody resets a pointer during its reset().
THEOREM Typing ==
  ASSUME HasHandle
  PROVE  Spec => []TypeOK
<1>1. Inv => TypeOK
  BY DEF Inv
<1>2. Spec => []Inv
  BY Invariance
<1> QED
  BY <1>1, <1>2, PTL

\* _use_count is exact between any two steps of destroy(), release(), emit()
\* removeAllListeners() and reset(), however user code nests them (but for a
\* second reset() of the same pointer).
THEOREM CountIsExact ==
  ASSUME HasHandle
  PROVE  Spec => []RefCountExact
<1>1. Inv => RefCountExact
  BY DEF Inv
<1>2. Spec => []Inv
  BY Invariance
<1> QED
  BY <1>1, <1>2, PTL

\* "delete this" happens when nothing that uses the object is left on the call
\* stack, in libuv or in user code (object.h:14-22).
THEOREM DeletedIsUnused ==
  ASSUME HasHandle
  PROVE  Spec => []NoUseAfterFree
<1>1. Inv => NoUseAfterFree
  BY DEF Inv, NoUseAfterFree
<1>2. Spec => []Inv
  BY Invariance
<1> QED
  BY <1>1, <1>2, PTL

=============================================================================
