------------------------------- MODULE Holder -------------------------------
(***************************************************************************)
(* Values that may be absent: OneOf<Variants...> (one-of.h) and the        *)
(* NullableValue in Maybe<T> (common.h).  Both keep a value in raw space   *)
(* and a tag that says which; constructors and destructors may throw, and  *)
(* the two differ in what the tag says by then.                            *)
(***************************************************************************)
EXTENDS Integers

CONSTANTS
    OneOfs, Maybes,  \* holders of the two kinds
    Variants         \* the types of a OneOf, numbered from 1; a Maybe has the first

VARIABLES
    tag,             \* 0, or the type of the value; isSet is 1 or 0
    space,           \* the type of the object that is in the space, 0 if there is none
    broken,          \* history: holders whose copy of a value has thrown
    faulty           \* history: built over an object, or destroyed raw space

held == << tag, space, broken, faulty >>

Holders == OneOfs \cup Maybes

TypesOf(h) == IF h \in OneOfs THEN Variants ELSE {1}

\* OneOf::destroy() and the same lines of NullableValue: the tag goes first, so that
\* if the destructor throws there is nothing left.
Destroyed(h) ==
    [tag |-> [tag EXCEPT ![h] = 0],
     space |-> [space EXCEPT ![h] = 0],
     faulty |-> faulty \/ (tag[h] # 0 /\ space[h] # tag[h])]

Gone(h) == LET d == Destroyed(h) IN IF tag[h] = 0 THEN [d EXCEPT !.space = space] ELSE d

DestructorThrows(h) ==
    /\ tag[h] # 0
    /\ LET d == Gone(h) IN tag' = d.tag /\ space' = d.space /\ faulty' = d.faulty
    /\ UNCHANGED broken

\* The constructor of a value of the given type, in a space that was emptied.
Built(d, h, type) ==
    /\ space' = [d.space EXCEPT ![h] = type]
    /\ faulty' = (d.faulty \/ d.space[h] # 0)

\* OneOf::init<T>(), and Maybe = T: the tag comes last.
Set(h, type) ==
    /\ type \in TypesOf(h)
    /\ Built(Gone(h), h, type)
    /\ tag' = [tag EXCEPT ![h] = type]
    /\ broken' = broken \ {h}

SetThrows(h, type) ==
    /\ type \in TypesOf(h)
    /\ LET d == Gone(h) IN tag' = d.tag /\ space' = d.space /\ faulty' = d.faulty
    /\ broken' = broken \ {h}

\* copyFrom(), moveFrom() of a OneOf: by now its own tag may be gone if it is its
\* own source.
CopyOneOf(h, g) ==
    LET d == Gone(h)
        type == d.tag[g]
    IN  /\ {h, g} \subseteq OneOfs
        /\ IF type = 0 THEN space' = d.space /\ faulty' = d.faulty ELSE Built(d, h, type)
        /\ tag' = [d.tag EXCEPT ![h] = type]
        /\ broken' = IF h = g THEN broken \ {h} ELSE broken

\* The tag was set before the constructor that throws.
CopyOneOfThrows(h, g) ==
    LET d == Gone(h) IN
    /\ {h, g} \subseteq OneOfs /\ d.tag[g] # 0
    /\ space' = d.space /\ faulty' = d.faulty
    /\ tag' = [d.tag EXCEPT ![h] = d.tag[g]]
    /\ broken' = broken \cup {h}

\* NullableValue::operator=, of which there are three alike.
CopyMaybe(h, g) ==
    LET d == Gone(h) IN
    /\ {h, g} \subseteq Maybes
    /\ UNCHANGED broken
    /\ IF h = g THEN UNCHANGED held
       ELSE /\ IF tag[g] = 0 THEN space' = d.space /\ faulty' = d.faulty ELSE Built(d, h, 1)
            /\ tag' = [d.tag EXCEPT ![h] = tag[g]]

\* Mutant of CopyMaybeThrows: isSet is copied first, as in the constructors.
CopyMaybeThrowsEarly(h, g) ==
    LET d == Gone(h) IN
    /\ {h, g} \subseteq Maybes /\ h # g /\ tag[g] # 0
    /\ tag' = [d.tag EXCEPT ![h] = 1] /\ space' = d.space /\ faulty' = d.faulty
    /\ UNCHANGED broken

\* isSet becomes true only when the constructor is done.
CopyMaybeThrows(h, g) ==
    LET d == Gone(h) IN
    /\ {h, g} \subseteq Maybes /\ h # g /\ tag[g] # 0
    /\ tag' = d.tag /\ space' = d.space /\ faulty' = d.faulty
    /\ UNCHANGED broken

\* ~OneOf, ~NullableValue, and = nullptr.
Reset(h) ==
    /\ LET d == Gone(h) IN tag' = d.tag /\ space' = d.space /\ faulty' = d.faulty
    /\ broken' = broken \ {h}

Init ==
    /\ tag = [h \in Holders |-> 0] /\ space = [h \in Holders |-> 0]
    /\ broken = {} /\ faulty = FALSE

\* A holder whose tag may be wrong is not used any more.
Next ==
    \E h \in Holders \ broken :
      \/ \E type \in Variants : Set(h, type) \/ SetThrows(h, type)
      \/ DestructorThrows(h) \/ Reset(h)
      \/ \E g \in Holders \ broken :
            \/ CopyOneOf(h, g) \/ CopyOneOfThrows(h, g)
            \/ CopyMaybe(h, g) \/ CopyMaybeThrows(h, g)

Spec == Init /\ [][Next]_held

\* common.h:666-679 and one-of.h:105-128: the tag always names the object that is in
\* the space, whichever constructor or destructor throws, so that no destructor
\* runs on raw space and no object is built over another.  After the assignment
\* of a OneOf has thrown, but for nothing else, the tag may name an object that was
\* never built.
TagTellsTheValue ==
    /\ ~faulty
    /\ \A h \in Holders \ broken : tag[h] = space[h]
    /\ broken \subseteq OneOfs
=============================================================================
