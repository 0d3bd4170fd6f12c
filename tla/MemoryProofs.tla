---------------------------- MODULE MemoryProofs ----------------------------
(***************************************************************************)
(* What owns memory is right for any set of objects, variables, holders    *)
(* and blocks and any types and bounds.  OwnedOnce is inductive with the   *)
(* types and the finite number of owners of each counted object; so is     *)
(* TagTellsTheValue with the types of the two fields, since no holder is a *)
(* OneOf and a Maybe.  ElementsAreKept needs more: ArrayInv below says at  *)
(* every place of a call which handles are empty, that there is room for   *)
(* what is about to be built, and where the elements of the vector are     *)
(* while they move from one block to another.  ArenaIsSound takes          *)
(* ArenaInv, at the end: addresses and sizes are sums that do not wrap     *)
(* because nothing that is asked for is half as large as the address       *)
(* space, so that each allocation begins where the last one of its chunk   *)
(* ended or later; and everything that was built and is not destroyed yet  *)
(* is on the list, where the newer of two was completed later unless the   *)
(* older is an array that was being made when the newer was allocated.     *)
(***************************************************************************)
EXTENDS MCMemory, FiniteSetTheorems, SequenceTheorems, WellFoundedInduction, TLAPS

(* Own<T> and Refcounted.                                                  *)
Counting == \A o \in Counted : IsFiniteSet(Owners(o))

Inv == TypeOK /\ Counting /\ OwnedOnce

LEMMA InitInv == Init => Inv
<1> SUFFICES ASSUME Init  PROVE Inv
  OBVIOUS
<1>1. \A o \in Object : Owners(o) = {}
  BY OwnershipAssumption DEF Init, Owners
<1>2. Counting
  BY <1>1, FS_EmptySet, OwnershipAssumption DEF Counting
<1>3. TypeOK
  BY DEF Init, TypeOK
<1>4. OwnedOnce
  <2>1. destructors = << >> /\ \A o \in Object : life[o] = "none" /\ refcount[o] = 0
    BY DEF Init
  <2>2. \A o \in Object : o \in Counted => refcount[o] = Cardinality(Owners(o))
    <3> TAKE o \in Object
    <3>1. Cardinality(Owners(o)) = 0
      BY <1>1, FS_EmptySet
    <3> QED  BY <2>1, <3>1
  <2> QED
    BY <1>1, <2>1, <2>2 DEF OwnedOnce
<1> QED
  BY <1>2, <1>3, <1>4 DEF Inv

\* What the invariant says of the owners of one object: as many as it counts, or one.
SameOwners(o) ==
    /\ Owners(o)' # {} <=> Owners(o) # {}
    /\ o \in Counted => /\ IsFiniteSet(Owners(o)')
                        /\ Cardinality(Owners(o)') = Cardinality(Owners(o))
    /\ o \notin Counted => \A s, t \in Owners(o)' : s = t

LEMMA OwnersKept ==
  ASSUME Inv, NEW o \in Object, Owners(o)' = Owners(o)
  PROVE  SameOwners(o)
  BY DEF Inv, Counting, OwnedOnce, SameOwners

\* One owner gives the object to another.
LEMMA OwnerMoved ==
  ASSUME Inv, NEW o \in Object, NEW s \in Local \cup Object, NEW t \in Local \cup Object,
         ptr[s] # o, ptr[t] = o, Owners(o)' = (Owners(o) \ {t}) \cup {s}
  PROVE  SameOwners(o)
<1>1. t \in Owners(o) /\ s \notin Owners(o)
  BY DEF Owners
<1>2. CASE o \in Counted
  <2>1. IsFiniteSet(Owners(o))
    BY <1>2 DEF Inv, Counting
  <2>2. /\ IsFiniteSet(Owners(o) \ {t})
        /\ Cardinality(Owners(o) \ {t}) = Cardinality(Owners(o)) - 1
    BY <1>1, <2>1, FS_RemoveElement
  <2>3. /\ IsFiniteSet(Owners(o)')
        /\ Cardinality(Owners(o)') = Cardinality(Owners(o) \ {t}) + 1
    <3>1. s \notin Owners(o) \ {t}
      BY <1>1
    <3> DEFINE S == Owners(o) \ {t}
    <3>2. IsFiniteSet(S) /\ s \notin S /\ Owners(o)' = S \cup {s}
      BY <2>2, <3>1
    <3> HIDE DEF S
    <3>3. IsFiniteSet(S \cup {s}) /\ Cardinality(S \cup {s}) = Cardinality(S) + 1
      BY <3>2, FS_AddElement
    <3> QED  BY <3>2, <3>3 DEF S
  <2>4. Cardinality(Owners(o)) \in Nat
    BY <2>1, FS_CardinalityType
  <2> QED
    BY <1>1, <1>2, <2>2, <2>3, <2>4 DEF SameOwners
<1>3. CASE o \notin Counted
  BY <1>1, <1>3 DEF Inv, OwnedOnce, SameOwners
<1> QED
  BY <1>2, <1>3

\* Objects that have the same owners as before go on as they are.
LEMMA QuietStep ==
  ASSUME Inv, TypeOK',
         UNCHANGED << refcount, life, destructors >>,
         \A o \in Object : SameOwners(o)
  PROVE  Inv'
<1>1. Counting'
  BY OwnershipAssumption DEF Counting, SameOwners
<1>2. OwnedOnce'
  <2>1. \A o \in Object : /\ Owners(o)' # {} <=> life'[o] = "alive"
                          /\ IF o \in Counted THEN refcount'[o] = Cardinality(Owners(o)')
                                              ELSE \A s, t \in Owners(o)' : s = t
    BY DEF Inv, OwnedOnce, SameOwners
  <2> QED
    BY <2>1 DEF Inv, OwnedOnce
<1> QED
  BY <1>1, <1>2 DEF Inv

\* Appending to the stack of destructors.
LEMMA Pushed ==
  ASSUME TypeOK, NEW o \in Object, Delete(o)
  PROVE  /\ destructors' \in Seq([object : Object, at : {"body", "member"}])
         /\ Len(destructors') = Len(destructors) + 1
         /\ destructors'[Len(destructors) + 1].object = o
         /\ \A i \in DOMAIN destructors : destructors'[i] = destructors[i]
         /\ DOMAIN destructors' = DOMAIN destructors \cup {Len(destructors) + 1}
         /\ \A i \in DOMAIN destructors : i # Len(destructors) + 1
<1> DEFINE d == [object |-> o, at |-> "body"]
           T == [object : Object, at : {"body", "member"}]
<1>1. destructors \in Seq(T) /\ d \in T /\ d.object = o
  BY DEF TypeOK
<1>2. destructors' = Append(destructors, d)
  BY DEF Delete
<1> HIDE DEF d, T
<1>3. /\ destructors' \in Seq(T)
      /\ Len(destructors') = Len(destructors) + 1
      /\ destructors'[Len(destructors) + 1] = d
      /\ \A i \in 1 .. Len(destructors) : destructors'[i] = destructors[i]
      /\ DOMAIN destructors = 1 .. Len(destructors)
      /\ DOMAIN destructors' = 1 .. Len(destructors')
      /\ Len(destructors) \in Nat
  BY <1>1, <1>2
<1> QED
  BY <1>1, <1>3 DEF T

\* An owner gives up its object, which is deleted with the last one.
LEMMA Released ==
  ASSUME Inv, ptr' \in [Local \cup Object -> Object \cup {Nobody}],
         NEW p \in Object, NEW x \in Owners(p), Dispose(p),
         Owners(p)' = Owners(p) \ {x},
         \A o \in Object \ {p} : SameOwners(o)
  PROVE  Inv'
<1> DEFINE last == IF p \in Counted THEN refcount[p] = 1 ELSE TRUE
<1>0. TypeOK /\ p # Nobody
  BY OwnershipAssumption DEF Inv
<1>1. life[p] = "alive"
  BY DEF Inv, OwnedOnce
<1>2. /\ refcount' \in [Object -> Int]
      /\ \A o \in Object \ {p} : refcount'[o] = refcount[o]
      /\ p \in Counted => refcount'[p] = refcount[p] - 1
  BY <1>0 DEF Dispose, TypeOK
<1>3. /\ last => Delete(p)
      /\ ~last => UNCHANGED << life, destructors >>
  BY <1>0 DEF Dispose
<1>4. /\ p \in Counted => /\ IsFiniteSet(Owners(p)')
                          /\ refcount'[p] = Cardinality(Owners(p)')
      /\ p \notin Counted => Owners(p)' = {}
      /\ last <=> Owners(p)' = {}
  <2>1. CASE p \in Counted
    <3>1. IsFiniteSet(Owners(p)) /\ refcount[p] = Cardinality(Owners(p))
      BY <2>1 DEF Inv, Counting, OwnedOnce
    <3>2. /\ IsFiniteSet(Owners(p)')
          /\ Cardinality(Owners(p)') = Cardinality(Owners(p)) - 1
      BY <3>1, FS_RemoveElement
    <3>3. Cardinality(Owners(p)') = 0 <=> Owners(p)' = {}
      BY <3>2, FS_EmptySet
    <3>4. Cardinality(Owners(p)) \in Nat
      BY <3>1, FS_CardinalityType
    <3> QED  BY <1>2, <2>1, <3>1, <3>2, <3>3, <3>4
  <2>2. CASE p \notin Counted
    BY <2>2 DEF Inv, OwnedOnce
  <2> QED  BY <2>1, <2>2
<1>5. Counting'
  BY <1>4, OwnershipAssumption DEF Counting, SameOwners
<1> HIDE DEF last
<1>6. CASE last
  <2>1. Delete(p) /\ Owners(p)' = {}
    BY <1>3, <1>4, <1>6
  <2>2. /\ life' \in [Object -> {"none", "alive", "dying", "gone"}]
        /\ life'[p] = "dying"
        /\ \A o \in Object \ {p} : life'[o] = life[o]
    BY <1>0, <2>1 DEF Delete, TypeOK
  <2>3. TypeOK'
    BY <1>0, <1>2, <2>1, <2>2, Pushed DEF TypeOK
  <2>4. \A o \in Object :
          /\ Owners(o)' # {} <=> life'[o] = "alive"
          /\ IF o \in Counted THEN refcount'[o] = Cardinality(Owners(o)')
                              ELSE \A s, t \in Owners(o)' : s = t
    <3>1. ASSUME NEW o \in Object \ {p}
          PROVE  /\ Owners(o)' # {} <=> life'[o] = "alive"
                 /\ IF o \in Counted THEN refcount'[o] = Cardinality(Owners(o)')
                                     ELSE \A s, t \in Owners(o)' : s = t
      BY <1>2, <2>2, <3>1 DEF Inv, OwnedOnce, SameOwners
    <3>2. /\ Owners(p)' # {} <=> life'[p] = "alive"
          /\ IF p \in Counted THEN refcount'[p] = Cardinality(Owners(p)')
                              ELSE \A s, t \in Owners(p)' : s = t
      BY <1>4, <2>1, <2>2
    <3> QED
      BY <3>1, <3>2
  <2>5. \A i \in DOMAIN destructors : destructors[i].object # p
    BY <1>1 DEF Inv, OwnedOnce
  <2>6. \A o \in Object :
          life'[o] = "dying" <=> \E i \in DOMAIN destructors' : destructors'[i].object = o
    <3> TAKE o \in Object
    <3>1. life[o] = "dying" <=> \E i \in DOMAIN destructors : destructors[i].object = o
      BY DEF Inv, OwnedOnce
    <3> QED
      BY <1>0, <2>1, <2>2, <2>5, <3>1, Pushed
  <2>7. \A i, j \in DOMAIN destructors' :
          destructors'[i].object = destructors'[j].object => i = j
    <3>1. \A i, j \in DOMAIN destructors :
            destructors[i].object = destructors[j].object => i = j
      BY DEF Inv, OwnedOnce
    <3> QED
      BY <1>0, <2>1, <2>5, <3>1, Pushed
  <2> QED
    BY <1>5, <2>3, <2>4, <2>6, <2>7 DEF Inv, OwnedOnce
<1>7. CASE ~last
  <2>1. UNCHANGED << life, destructors >> /\ Owners(p)' # {} /\ p \in Counted
    BY <1>3, <1>4, <1>7
  <2>2. TypeOK'
    BY <1>0, <1>2, <2>1 DEF TypeOK
  <2>3. \A o \in Object :
          /\ Owners(o)' # {} <=> life'[o] = "alive"
          /\ IF o \in Counted THEN refcount'[o] = Cardinality(Owners(o)')
                              ELSE \A s, t \in Owners(o)' : s = t
    BY <1>1, <1>2, <1>4, <2>1 DEF Inv, OwnedOnce, SameOwners
  <2>4. OwnedOnce'
    BY <2>1, <2>3 DEF Inv, OwnedOnce
  <2> QED
    BY <1>5, <2>2, <2>4 DEF Inv
<1> QED
  BY <1>6, <1>7

LEMMA UsableOwners ==
  ASSUME TypeOK  PROVE Usable \subseteq Local \cup Object
<1>1. destructors # << >> => Top.object \in Object
  <2> DEFINE T == [object : Object, at : {"body", "member"}]
  <2>1. destructors \in Seq(T)
    BY DEF TypeOK
  <2> HIDE DEF T
  <2>2. destructors # << >> => destructors[Len(destructors)] \in T
    BY <2>1
  <2> QED
    BY <2>2 DEF T, Top
<1> QED
  BY <1>1 DEF Usable

LEMMA NextInv == Inv /\ [Next]_ownership => Inv'
<1> SUFFICES ASSUME Inv, [Next]_ownership  PROVE Inv'
  OBVIOUS
<1> DEFINE S == Local \cup Object
<1>0. /\ TypeOK /\ Usable \subseteq S
      /\ ptr \in [S -> Object \cup {Nobody}]
      /\ Nobody \notin Object
  BY UsableOwners, OwnershipAssumption DEF Inv, TypeOK
<1>a. \A s \in S, o \in Object : s \in Owners(o) <=> ptr[s] = o
  BY DEF Owners
<1>b. \A o \in Object : Owners(o) \subseteq S /\ Owners(o)' = {s \in S : ptr'[s] = o}
  BY DEF Owners
\* An owner is set to nullptr and what it owned is disposed of.
<1>c. ASSUME NEW s \in S, NEW p \in Object, ptr[s] = p,
             ptr' = [ptr EXCEPT ![s] = Nobody], Dispose(p)
      PROVE  Inv'
  <2>1. s \in Owners(p)
    BY <1>a, <1>c
  <2>2. ptr' \in [S -> Object \cup {Nobody}]
    BY <1>0, <1>c
  <2>3. Owners(p)' = Owners(p) \ {s}
    BY <1>0, <1>c DEF Owners
  <2>4. \A o \in Object \ {p} : Owners(o)' = Owners(o)
    BY <1>0, <1>c DEF Owners
  <2>5. \A o \in Object \ {p} : SameOwners(o)
    BY <2>4, OwnersKept
  <2> QED
    BY <1>c, <2>1, <2>2, <2>3, <2>5, Released
<1>1. ASSUME NEW s \in Usable, Clear(s)  PROVE Inv'
  <2>1. PICK p \in Object : p = ptr[s]
    BY <1>0, <1>1 DEF Clear
  <2> QED
    BY <1>0, <1>1, <1>c, <2>1 DEF Clear
<1>2. ASSUME NEW s \in Usable, NEW o \in Object, Make(s, o)  PROVE Inv'
  <2>1. /\ s \in S /\ ptr[s] = Nobody /\ life[o] = "none"
        /\ life' = [life EXCEPT ![o] = "alive"]
        /\ refcount' = IF o \in Counted THEN [refcount EXCEPT ![o] = 1] ELSE refcount
        /\ ptr' = [ptr EXCEPT ![s] = o] /\ destructors' = destructors
    BY <1>0, <1>2 DEF Make
  <2>2. Owners(o) = {}
    BY <2>1 DEF Inv, OwnedOnce
  <2>3. Owners(o)' = {s}
    BY <1>0, <1>a, <2>1, <2>2 DEF Owners
  <2>4. \A p \in Object \ {o} : Owners(p)' = Owners(p)
    BY <1>0, <2>1 DEF Owners
  <2>5. \A p \in Object \ {o} : SameOwners(p)
    BY <2>4, OwnersKept
  <2>6. TypeOK'
    BY <1>0, <2>1 DEF TypeOK
  <2>7. /\ life'[o] = "alive" /\ \A p \in Object \ {o} : life'[p] = life[p]
        /\ o \in Counted => refcount'[o] = 1
        /\ \A p \in Object \ {o} : refcount'[p] = refcount[p]
    BY <1>0, <2>1 DEF TypeOK
  <2>8. IsFiniteSet(Owners(o)') /\ Cardinality(Owners(o)') = 1
    BY <2>3, FS_Singleton
  <2>9. Counting'
    BY <2>5, <2>8, OwnershipAssumption DEF Counting, SameOwners
  <2>10. \A p \in Object :
           /\ Owners(p)' # {} <=> life'[p] = "alive"
           /\ IF p \in Counted THEN refcount'[p] = Cardinality(Owners(p)')
                               ELSE \A x, y \in Owners(p)' : x = y
    <3>1. ASSUME NEW p \in Object \ {o}
          PROVE  /\ Owners(p)' # {} <=> life'[p] = "alive"
                 /\ IF p \in Counted THEN refcount'[p] = Cardinality(Owners(p)')
                                     ELSE \A x, y \in Owners(p)' : x = y
      BY <2>5, <2>7, <3>1 DEF Inv, OwnedOnce, SameOwners
    <3>2. /\ Owners(o)' # {} <=> life'[o] = "alive"
          /\ IF o \in Counted THEN refcount'[o] = Cardinality(Owners(o)')
                              ELSE \A x, y \in Owners(o)' : x = y
      BY <2>3, <2>7, <2>8
    <3> QED
      BY <3>1, <3>2
  <2>11. \A p \in Object : life'[p] = "dying"
             <=> \E i \in DOMAIN destructors' : destructors'[i].object = p
    BY <2>1, <2>7 DEF Inv, OwnedOnce
  <2> QED
    BY <2>1, <2>6, <2>9, <2>10, <2>11 DEF Inv, OwnedOnce
<1>3. ASSUME NEW s \in Usable, NEW t \in Usable, AddRef(s, t)  PROVE Inv'
  <2>a. PICK o \in Counted : o = ptr[t]
    BY <1>3 DEF AddRef
  <2>1. /\ s \in S /\ t \in S /\ ptr[s] = Nobody /\ o \in Counted /\ o \in Object
        /\ refcount' = [refcount EXCEPT ![o] = @ + 1]
        /\ ptr' = [ptr EXCEPT ![s] = o]
        /\ life' = life /\ destructors' = destructors
    BY <1>0, <1>3, <2>a, OwnershipAssumption DEF AddRef
  <2>2. t \in Owners(o) /\ s \notin Owners(o)
    BY <1>0, <1>a, <2>a, <2>1
  <2>3. Owners(o)' = Owners(o) \cup {s}
    BY <1>0, <2>1 DEF Owners
  <2>4. \A p \in Object \ {o} : Owners(p)' = Owners(p)
    BY <1>0, <2>1 DEF Owners
  <2>5. \A p \in Object \ {o} : SameOwners(p)
    BY <2>4, OwnersKept
  <2>6. TypeOK'
    BY <1>0, <2>1 DEF TypeOK
  <2>7. IsFiniteSet(Owners(o)) /\ refcount[o] = Cardinality(Owners(o))
    BY <2>1 DEF Inv, Counting, OwnedOnce
  <2>8. IsFiniteSet(Owners(o)') /\ Cardinality(Owners(o)') = Cardinality(Owners(o)) + 1
    BY <2>2, <2>3, <2>7, FS_AddElement
  <2>9. /\ refcount'[o] = Cardinality(Owners(o)')
        /\ \A p \in Object \ {o} : refcount'[p] = refcount[p]
    BY <1>0, <2>1, <2>7, <2>8 DEF TypeOK
  <2>10. Counting'
    BY <2>5, <2>8, OwnershipAssumption DEF Counting, SameOwners
  <2>11. \A p \in Object :
           /\ Owners(p)' # {} <=> life'[p] = "alive"
           /\ IF p \in Counted THEN refcount'[p] = Cardinality(Owners(p)')
                               ELSE \A x, y \in Owners(p)' : x = y
    <3>1. ASSUME NEW p \in Object \ {o}
          PROVE  /\ Owners(p)' # {} <=> life'[p] = "alive"
                 /\ IF p \in Counted THEN refcount'[p] = Cardinality(Owners(p)')
                                     ELSE \A x, y \in Owners(p)' : x = y
      BY <2>1, <2>5, <2>9, <3>1 DEF Inv, OwnedOnce, SameOwners
    <3>2. Owners(o)' # {} /\ life'[o] = "alive"
      BY <2>1, <2>2, <2>3 DEF Inv, OwnedOnce
    <3> QED
      BY <2>1, <2>9, <3>1, <3>2
  <2> QED
    BY <2>1, <2>6, <2>10, <2>11 DEF Inv, OwnedOnce
<1>4. ASSUME NEW s \in Usable, NEW t \in Usable, Move(s, t)  PROVE Inv'
  <2>1. /\ s \in S /\ t \in S
        /\ ptr' = [[ptr EXCEPT ![s] = ptr[t]] EXCEPT ![t] = Nobody]
        /\ Dispose(ptr[s])
    BY <1>0, <1>4 DEF Move
  <2>2. /\ ptr' \in [S -> Object \cup {Nobody}]
        /\ ptr'[t] = Nobody /\ (s # t => ptr'[s] = ptr[t])
        /\ \A r \in S \ {s, t} : ptr'[r] = ptr[r]
    BY <1>0, <2>1
  <2>3. \A o \in Object \ {ptr[s]} : SameOwners(o)
    <3> SUFFICES ASSUME NEW o \in Object, o # ptr[s]  PROVE SameOwners(o)
      OBVIOUS
    <3>1. CASE ptr[t] = o
      <4>1. Owners(o)' = (Owners(o) \ {t}) \cup {s}
        BY <1>0, <2>1, <2>2, <3>1 DEF Owners
      <4> QED
        BY <2>1, <3>1, <4>1, OwnerMoved
    <3>2. CASE ptr[t] # o
      <4>1. Owners(o)' = Owners(o)
        BY <1>0, <2>1, <2>2, <3>2 DEF Owners
      <4> QED
        BY <4>1, OwnersKept
    <3> QED
      BY <3>1, <3>2
  <2>4. CASE ptr[s] = Nobody
    <3>1. UNCHANGED << refcount, life, destructors >>
      BY <2>1, <2>4 DEF Dispose
    <3>2. TypeOK'
      BY <1>0, <2>2, <3>1 DEF TypeOK
    <3>3. \A o \in Object : SameOwners(o)
      BY <1>0, <2>3, <2>4
    <3> QED
      BY <3>1, <3>2, <3>3, QuietStep
  <2>5. CASE ptr[s] # Nobody
    <3>1. PICK p \in Object : p = ptr[s]
      BY <1>0, <2>1, <2>5
    <3>2. PICK x \in S : x = IF ptr[t] = p THEN t ELSE s
      BY <2>1
    <3>3. x \in Owners(p)
      BY <1>a, <2>1, <3>1, <3>2
    <3>4. Owners(p)' = Owners(p) \ {x}
      BY <1>0, <2>1, <2>2, <3>1, <3>2 DEF Owners
    <3> QED
      BY <2>1, <2>2, <2>3, <3>1, <3>3, <3>4, Released
  <2> QED
    BY <2>4, <2>5
<1> DEFINE T == [object : Object, at : {"body", "member"}]
           n == Len(destructors)
<1>d. /\ destructors \in Seq(T) /\ n \in Nat
      /\ DOMAIN destructors = 1 .. n
      /\ \A i \in 1 .. n : destructors[i] \in T
      /\ destructors # << >> => n \in 1 .. n /\ Top = destructors[n]
  <2>1. destructors \in Seq(T)
    BY <1>0 DEF TypeOK
  <2> HIDE DEF T
  <2> QED  BY <2>1 DEF Top
<1>5. CASE Body
  <2>1. /\ destructors # << >>
        /\ destructors' = [destructors EXCEPT ![n].at = "member"]
        /\ ptr' = ptr /\ refcount' = refcount /\ life' = life
    BY <1>5 DEF Body
  <2>2. /\ destructors' \in Seq(T) /\ DOMAIN destructors' = DOMAIN destructors
        /\ \A i \in DOMAIN destructors : destructors'[i].object = destructors[i].object
    <3> DEFINE d == [destructors[n] EXCEPT !.at = "member"]
    <3>1. destructors' = [destructors EXCEPT ![n] = d]
      BY <2>1
    <3>2. d \in T /\ d.object = destructors[n].object
      BY <1>d, <2>1
    <3> HIDE DEF d, T
    <3> QED
      BY <1>d, <2>1, <3>1, <3>2
  <2>3. \A o \in Object : Owners(o)' = Owners(o)
    BY <2>1 DEF Owners
  <2>4. TypeOK'
    BY <1>0, <2>1, <2>2 DEF TypeOK
  <2>5. Counting'
    BY <2>3, OwnershipAssumption DEF Inv, Counting
  <2>6. OwnedOnce'
    BY <2>1, <2>2, <2>3 DEF Inv, OwnedOnce
  <2> QED
    BY <2>4, <2>5, <2>6 DEF Inv
<1>6. CASE Member
  <2>1. destructors # << >>
    BY <1>6 DEF Member, Running
  <2>2. Top.object \in S
    BY <1>d, <2>1
  <2>3. PICK s \in S, p \in Object : s = Top.object /\ p = ptr[s]
    BY <1>0, <1>6, <2>2 DEF Member
  <2> QED
    BY <1>6, <2>3, <1>c DEF Member
<1>7. CASE Free
  <2> DEFINE top == destructors[n].object
  <2>1. /\ destructors # << >> /\ ptr' = ptr /\ refcount' = refcount
        /\ life' = [life EXCEPT ![top] = "gone"]
        /\ destructors' = SubSeq(destructors, 1, n - 1)
    BY <1>7, <1>d DEF Free, Running
  <2>2. top \in Object /\ n \in 1 .. n /\ life[top] = "dying"
    BY <1>d, <2>1 DEF Inv, OwnedOnce
  <2>3. /\ destructors' \in Seq(T) /\ DOMAIN destructors' = 1 .. (n - 1)
        /\ \A i \in 1 .. (n - 1) : destructors'[i] = destructors[i]
    <3> HIDE DEF T
    <3> QED  BY <1>d, <2>1, <2>2
  <2>4. /\ life' \in [Object -> {"none", "alive", "dying", "gone"}]
        /\ life'[top] = "gone" /\ \A o \in Object \ {top} : life'[o] = life[o]
    BY <1>0, <2>1, <2>2 DEF TypeOK
  <2>5. \A o \in Object : Owners(o)' = Owners(o)
    BY <2>1 DEF Owners
  <2>6. TypeOK'
    BY <1>0, <2>1, <2>3, <2>4 DEF TypeOK
  <2>7. Counting'
    BY <2>5, OwnershipAssumption DEF Inv, Counting
  <2>8. \A i \in 1 .. (n - 1) : destructors[i].object # top
    BY <1>d, <2>2 DEF Inv, OwnedOnce
  <2>9. \A o \in Object : life'[o] = "dying"
            <=> \E i \in DOMAIN destructors' : destructors'[i].object = o
    <3> TAKE o \in Object
    <3>1. life[o] = "dying" <=> \E i \in 1 .. n : destructors[i].object = o
      BY <1>d DEF Inv, OwnedOnce
    <3>2. CASE o = top
      BY <2>3, <2>4, <2>8, <3>2
    <3>3. CASE o # top
      <4>1. (\E i \in 1 .. n : destructors[i].object = o)
              <=> \E i \in 1 .. (n - 1) : destructors[i].object = o
        BY <1>d, <2>2, <3>3
      <4> QED
        BY <2>3, <2>4, <3>1, <3>3, <4>1
    <3> QED
      BY <3>2, <3>3
  <2>10. \A i, j \in DOMAIN destructors' :
           destructors'[i].object = destructors'[j].object => i = j
    <3>1. \A i, j \in 1 .. n : destructors[i].object = destructors[j].object => i = j
      BY <1>d DEF Inv, OwnedOnce
    <3> QED  BY <1>d, <2>3, <3>1
  <2>11. \A o \in Object :
           /\ Owners(o)' # {} <=> life'[o] = "alive"
           /\ IF o \in Counted THEN refcount'[o] = Cardinality(Owners(o)')
                               ELSE \A s, t \in Owners(o)' : s = t
    BY <2>1, <2>2, <2>4, <2>5 DEF Inv, OwnedOnce
  <2> QED
    BY <2>6, <2>7, <2>9, <2>10, <2>11 DEF Inv, OwnedOnce
<1>8. CASE UNCHANGED ownership
  <2>1. \A o \in Object : Owners(o)' = Owners(o)
    BY <1>8 DEF ownership, Owners
  <2>2. TypeOK'
    BY <1>0, <1>8 DEF TypeOK, ownership
  <2>3. \A o \in Object : SameOwners(o)
    BY <2>1, OwnersKept
  <2> QED
    BY <1>8, <2>2, <2>3, QuietStep DEF ownership
<1> QED
  BY <1>1, <1>2, <1>3, <1>4, <1>5, <1>6, <1>7, <1>8 DEF Next

\* Own, HeapDisposer and Refcounted (memory.h:130-144, refcount.cpp:34-38): an object
\* is alive just while it has an owner, has no second one that is not counted, and is
\* destroyed once.
THEOREM OwnedOnceAlways == Spec => []OwnedOnce
<1>1. Inv => OwnedOnce
  BY DEF Inv
<1> QED
  BY InitInv, NextInv, <1>1, PTL DEF Spec

\* The same beside the other parts of the program, as the run checks it.
THEOREM OwnedBesideOthers == MemorySpec => []OwnedOnce
<1>1. MemoryInit => Inv
  BY InitInv DEF MemoryInit
<1>2. Inv /\ [MemoryNext]_memory => Inv'
  BY NextInv DEF MemoryNext, memory
<1>3. Inv => OwnedOnce
  BY DEF Inv
<1> QED
  BY <1>1, <1>2, <1>3, PTL DEF MemorySpec

-----------------------------------------------------------------------------
(* OneOf and Maybe.                                                        *)
Tags == Variants \cup {0, 1}

HolderTypes == tag \in [HO!Holders -> Tags] /\ space \in [HO!Holders -> Tags] /\ broken \subseteq HO!Holders

\* isSet is a Boolean.
MaybeTags == \A h \in Maybes : tag[h] \in {0, 1}

HolderInv == HolderTypes /\ MaybeTags /\ HO!TagTellsTheValue

LEMMA HolderInitInv == HO!Init => HolderInv
  BY DEF HO!Init, HolderInv, HolderTypes, Tags, MaybeTags, HO!TagTellsTheValue, HO!Holders

\* destroy(): the holder is empty, tag and space, and nothing else has changed.
LEMMA GoneFacts ==
  ASSUME HolderInv, NEW h \in HO!Holders \ broken
  PROVE  /\ HO!Gone(h).tag = [tag EXCEPT ![h] = 0]
         /\ HO!Gone(h).space = [space EXCEPT ![h] = 0]
         /\ HO!Gone(h).faulty = FALSE
<1>1. tag[h] = space[h] /\ faulty = FALSE /\ space \in [HO!Holders -> Tags]
  BY DEF HolderInv, HolderTypes, HO!TagTellsTheValue
<1>2. tag[h] = 0 => space = [space EXCEPT ![h] = 0]
  BY <1>1
<1> QED
  BY <1>1, <1>2 DEF HO!Gone, HO!Destroyed

\* A step that leaves one holder with the same type in both fields.
LEMMA StepOfHolder ==
  ASSUME HolderInv, NEW h \in HO!Holders \ broken, NEW type \in Tags,
         h \in Maybes => type \in {0, 1},
         tag' = [tag EXCEPT ![h] = type], space' = [space EXCEPT ![h] = type],
         faulty' = FALSE, broken' = broken
  PROVE  HolderInv'
  BY DEF HolderInv, HolderTypes, MaybeTags, HO!TagTellsTheValue, HO!Holders

LEMMA HolderNextInv == HolderInv /\ [HO!Next]_HO!held => HolderInv'
<1> SUFFICES ASSUME HolderInv, [HO!Next]_HO!held  PROVE HolderInv'
  OBVIOUS
<1>0. 0 \in Tags /\ 1 \in Tags
  BY DEF Tags
<1>1. ASSUME NEW h \in HO!Holders \ broken, NEW type \in Variants, HO!Set(h, type)  PROVE HolderInv'
  <2>1. /\ tag' = [tag EXCEPT ![h] = type] /\ space' = [space EXCEPT ![h] = type]
        /\ faulty' = FALSE /\ broken' = broken
    <3>1. tag' = [tag EXCEPT ![h] = type] /\ broken' = broken
      <4>1. tag' = [HO!Gone(h).tag EXCEPT ![h] = type] \/ tag' = [tag EXCEPT ![h] = type]
        BY <1>1 DEF HO!Set
      <4> QED  BY <1>1, <4>1, GoneFacts DEF HO!Set
    <3>2. space' = [space EXCEPT ![h] = type] /\ faulty' = FALSE
      <4>1. HO!Gone(h).space[h] = 0
        BY GoneFacts DEF HolderInv, HolderTypes
      <4> QED  BY <1>1, <4>1, GoneFacts DEF HO!Set, HO!Built
    <3> QED  BY <3>1, <3>2
  <2>2. h \in Maybes => type \in {0, 1}
    BY <1>1, HolderAssumption DEF HO!Set, HO!TypesOf
  <2> QED
    BY <2>1, <2>2, StepOfHolder DEF Tags
\* The holder is empty afterwards.
<1>e. ASSUME NEW h \in HO!Holders \ broken,
             tag' = HO!Gone(h).tag, space' = HO!Gone(h).space, faulty' = HO!Gone(h).faulty,
             broken' = broken
      PROVE  HolderInv'
  BY <1>0, <1>e, GoneFacts, StepOfHolder
<1>2. ASSUME NEW h \in HO!Holders \ broken, NEW type \in Variants, HO!SetThrows(h, type)  PROVE HolderInv'
  BY <1>2, <1>e DEF HO!SetThrows
<1>3. ASSUME NEW h \in HO!Holders \ broken, HO!DestructorThrows(h)  PROVE HolderInv'
  BY <1>3, <1>e DEF HO!DestructorThrows
<1>4. ASSUME NEW h \in HO!Holders \ broken, HO!Reset(h)  PROVE HolderInv'
  BY <1>4, <1>e DEF HO!Reset
<1>5. ASSUME NEW h \in HO!Holders \ broken, NEW g \in HO!Holders \ broken, HO!CopyOneOf(h, g)
      PROVE  HolderInv'
  <2> DEFINE type == HO!Gone(h).tag[g]
  <2>1. type \in Tags /\ HO!Gone(h).space[h] = 0
    BY <1>0, GoneFacts DEF HolderInv, HolderTypes
  <2>2. tag' = [tag EXCEPT ![h] = type] /\ broken' = broken
    BY <1>5, GoneFacts DEF HO!CopyOneOf
  <2>3. space' = [space EXCEPT ![h] = type] /\ faulty' = FALSE
    <3>1. CASE type = 0
      BY <1>5, <3>1, GoneFacts DEF HO!CopyOneOf
    <3>2. CASE type # 0
      BY <1>5, <2>1, <3>2, GoneFacts DEF HO!CopyOneOf, HO!Built
    <3> QED  BY <3>1, <3>2
  <2>4. PICK t \in Tags : t = type
    BY <2>1
  <2>5. h \notin Maybes
    BY <1>5, HolderAssumption DEF HO!CopyOneOf
  <2> QED
    BY <2>2, <2>3, <2>4, <2>5, StepOfHolder
<1>6. ASSUME NEW h \in HO!Holders \ broken, NEW g \in HO!Holders \ broken, HO!CopyOneOfThrows(h, g)
      PROVE  HolderInv'
  <2>1. h \in OneOfs /\ broken' = broken \cup {h} /\ faulty' = FALSE
    BY <1>6, GoneFacts DEF HO!CopyOneOfThrows
  <2>2. /\ HO!Gone(h).tag \in [HO!Holders -> Tags] /\ HO!Gone(h).space \in [HO!Holders -> Tags]
        /\ \A r \in HO!Holders \ {h} : HO!Gone(h).tag[r] = tag[r] /\ HO!Gone(h).space[r] = space[r]
    BY <1>0, GoneFacts DEF HolderInv, HolderTypes
  <2>3. /\ tag' \in [HO!Holders -> Tags] /\ space' \in [HO!Holders -> Tags]
        /\ \A r \in HO!Holders \ {h} : tag'[r] = tag[r] /\ space'[r] = space[r]
    BY <1>6, <2>2 DEF HO!CopyOneOfThrows
  <2> QED
    BY <2>1, <2>3, HolderAssumption
       DEF HolderInv, HolderTypes, MaybeTags, HO!TagTellsTheValue, HO!Holders
<1>7. ASSUME NEW h \in HO!Holders \ broken, NEW g \in HO!Holders \ broken, HO!CopyMaybe(h, g)
      PROVE  HolderInv'
  <2>1. CASE h = g
    BY <1>7, <2>1 DEF HO!CopyMaybe, HO!held, HolderInv, HolderTypes, MaybeTags, HO!TagTellsTheValue
  <2>2. CASE h # g /\ tag[g] = 0
    <3>1. /\ tag' = [tag EXCEPT ![h] = 0] /\ space' = [space EXCEPT ![h] = 0]
          /\ faulty' = FALSE /\ broken' = broken
      BY <1>7, <2>2, GoneFacts DEF HO!CopyMaybe
    <3> QED  BY <1>0, <3>1, StepOfHolder
  <2>3. CASE h # g /\ tag[g] # 0
    <3>1. tag[g] = 1
      BY <1>7, <2>3 DEF HO!CopyMaybe, HolderInv, MaybeTags
    <3>2. HO!Gone(h).space[h] = 0
      BY <1>0, GoneFacts DEF HolderInv, HolderTypes
    <3>3. /\ tag' = [tag EXCEPT ![h] = tag[g]] /\ space' = [space EXCEPT ![h] = 1]
          /\ faulty' = FALSE /\ broken' = broken
      BY <1>7, <2>3, <3>2, GoneFacts DEF HO!CopyMaybe, HO!Built
    <3> QED  BY <1>0, <3>1, <3>3, StepOfHolder
  <2> QED  BY <2>1, <2>2, <2>3
<1>8. ASSUME NEW h \in HO!Holders \ broken, NEW g \in HO!Holders \ broken, HO!CopyMaybeThrows(h, g)
      PROVE  HolderInv'
  BY <1>8, <1>e DEF HO!CopyMaybeThrows
<1>9. CASE UNCHANGED HO!held
  BY <1>9 DEF HO!held, HolderInv, HolderTypes, MaybeTags, HO!TagTellsTheValue
<1> QED
  BY <1>1, <1>2, <1>3, <1>4, <1>5, <1>6, <1>7, <1>8, <1>9 DEF HO!Next

\* OneOf and Maybe (one-of.h:105-128, common.h:666-679): a tag names the object in
\* the space whatever throws, but for a OneOf whose assignment has thrown.
THEOREM TagIsRight == MemorySpec => []TagTellsTheValue
<1>1. MemoryInit => HolderInv
  BY HolderInitInv DEF MemoryInit
<1>2. HolderInv /\ [MemoryNext]_memory => HolderInv'
  BY HolderNextInv DEF MemoryNext, memory, holders, HO!held
<1>3. HolderInv => TagTellsTheValue
  BY DEF HolderInv, TagTellsTheValue
<1> QED
  BY <1>1, <1>2, <1>3, PTL DEF MemorySpec

-----------------------------------------------------------------------------
(* Vectors and arrays.  A store s is what "store" is in some state.        *)

ArrayOps ==
    {"none", "add", "addAll", "resize", "removeLast", "heapArray", "release", "assign",
     "drop vec", "drop arr"}

ArrayPlaces == {"idle", "start", "move", "fill", "destroy", "work"}

\* A handle is empty, or holds a block and has no more elements than it.
Handle(s, h) ==
    \/ h = AA!Nothing
    \/ h \in [block : Block, pos : Nat] /\ h.pos <= Len(s[h.block])

Room(s, h) == IF h.block = Null THEN 0 ELSE Len(s[h.block])

\* In a block r there are elements below p, and none above.
Filled(r, p) == \A i \in 1 .. Len(r) : r[i] = 0 <=> i > p

\* The first p elements of r are those of e.
Reads(r, p, e) == Len(e) = p /\ \A i \in 1 .. p : r[i] = e[i]

Sound(s, h) == h # AA!Nothing => Filled(s[h.block], h.pos)
Says(s, h, e) == Reads(s[h.block], h.pos, e)

ArrayTypes ==
    /\ store \in [Block -> Seq(Int)]
    /\ call \in [op : ArrayOps, n : Nat, at : ArrayPlaces]
    /\ failed \in BOOLEAN /\ spoiled \in BOOLEAN
    /\ serial \in Nat
    /\ expect \in Seq(Int)

\* Two handles never hold the same block, and a block that is allocated is held.
Apart(g, h) == g.block = h.block => g.block = Null

Held ==
    /\ Apart(vec, arr) /\ Apart(vec, tmp) /\ Apart(vec, ending)
    /\ Apart(arr, tmp) /\ Apart(arr, ending) /\ Apart(tmp, ending)
    /\ owned = {vec.block, arr.block, tmp.block, ending.block} \ {Null}

Built(h) == Handle(store, h) /\ Sound(store, h)

AllBuilt == Built(vec) /\ Built(arr) /\ Built(tmp) /\ Built(ending)

\* There is room for what the call is about to put behind the first k of c elements.
Enough(k, c) ==
    /\ call.op = "add" => k < c
    /\ call.op = "addAll" => k + call.n <= c
    /\ call.op = "resize" => call.n <= c

\* What is under way at each place of a call.
CallInv ==
    /\ call.op = "addAll" => call.n > 0
    /\ call.at \in {"idle", "start", "work"} => tmp = AA!Nothing
    /\ call.at # "destroy" => ending = AA!Nothing /\ ~failed
    /\ call.at = "work" => Enough(vec.pos, Room(store, vec))
    /\ call.at \in {"move", "fill"} => tmp # AA!Nothing
    /\ call.at = "fill" => call.op = "heapArray"
    /\ call.at = "move" =>
          /\ AA!Grows /\ tmp.pos <= vec.pos /\ vec.pos <= Room(store, tmp)
          /\ Enough(vec.pos, Room(store, tmp))
    /\ call.at = "destroy" =>
          /\ AA!Grows => IF tmp = AA!Nothing THEN failed
                         ELSE vec = AA!Nothing /\ Enough(tmp.pos, Room(store, tmp))
          /\ AA!Replaces /\ ~failed => arr = AA!Nothing
          /\ ~AA!Grows /\ ~AA!Replaces => tmp = AA!Nothing

\* While a vector grows, its first elements are in the new block.
ContentInv ==
    ~spoiled =>
      /\ call.at \in {"idle", "start", "work", "fill"} => Says(store, vec, expect)
      /\ call.at = "move" =>
            /\ Len(expect) = vec.pos
            /\ \A i \in 1 .. vec.pos :
                  store[(IF i <= tmp.pos THEN tmp ELSE vec).block][i] = expect[i]
      /\ call.at = "destroy" =>
            Says(store, IF AA!Grows /\ tmp # AA!Nothing THEN tmp ELSE vec, expect)

ArrayInv == ArrayTypes /\ AllBuilt /\ Held /\ ~misused /\ CallInv /\ ContentInv

LEMMA SameRange ==
  ASSUME NEW m \in Nat, NEW n \in Nat, 1 .. m = 1 .. n
  PROVE  m = n
<1>1. m > 0 => m \in 1 .. m
  OBVIOUS
<1>2. n > 0 => n \in 1 .. n
  OBVIOUS
<1>3. (m > 0 => m <= n) /\ (n > 0 => n <= m)
  BY <1>1, <1>2
<1> QED
  BY <1>3

LEMMA HandleFacts ==
  ASSUME NEW s \in [Block -> Seq(Int)], NEW h, Handle(s, h)
  PROVE  /\ h.pos \in Nat
         /\ h.block = Null <=> h = AA!Nothing
         /\ h = AA!Nothing => h.pos = 0 /\ Room(s, h) = 0
         /\ h # AA!Nothing => /\ h.block \in Block /\ h \in [block : Block, pos : Nat]
                              /\ s[h.block] \in Seq(Int) /\ Room(s, h) = Len(s[h.block])
         /\ Room(s, h) \in Nat /\ h.pos <= Room(s, h)
<1>1. CASE h = AA!Nothing
  BY <1>1 DEF AA!Nothing, Room
<1>2. CASE h # AA!Nothing
  <2>1. h \in [block : Block, pos : Nat] /\ h.pos <= Len(s[h.block])
    BY <1>2 DEF Handle
  <2>2. h.block \in Block /\ h.pos \in Nat /\ h.block # Null
    BY <2>1, ArraysAssumption
  <2>3. s[h.block] \in Seq(Int) /\ Len(s[h.block]) \in Nat
    BY <2>2, LenProperties
  <2> QED  BY <1>2, <2>1, <2>2, <2>3 DEF Room
<1> QED
  BY <1>1, <1>2

\* A handle does not notice what happens to the blocks of others.
LEMMA HandleKept ==
  ASSUME NEW s, NEW t, NEW h, Handle(s, h), h # AA!Nothing => t[h.block] = s[h.block]
  PROVE  /\ Handle(t, h) /\ Room(t, h) = Room(s, h)
         /\ Sound(s, h) => Sound(t, h)
         /\ \A e : Says(s, h, e) => Says(t, h, e)
<1>1. CASE h = AA!Nothing
  BY <1>1 DEF Handle, Sound, Says, Reads, Room, AA!Nothing
<1>2. CASE h # AA!Nothing
  BY <1>2 DEF Handle, Sound, Says, Room
<1> QED
  BY <1>1, <1>2

\* Between r and u only slot k has changed: it is v now.
OneSlot(r, u, k, v) ==
    /\ u \in Seq(Int) /\ Len(u) = Len(r)
    /\ \A j \in 1 .. Len(r) : u[j] = IF j = k THEN v ELSE r[j]

\* Between s and t only block b has changed.
OneBlock(s, t, b) ==
    /\ t \in [Block -> Seq(Int)] /\ Len(t[b]) = Len(s[b])
    /\ \A c \in Block : c # b => t[c] = s[c]

\* Between s and t at most block b has changed, which may also be freed.
OnlyBlock(s, t, b) ==
    t \in [Block -> Seq(Int)] /\ \A c \in Block : c # b => t[c] = s[c]

\* What an assignment to one slot of one block does.
LEMMA SlotSet ==
  ASSUME NEW s \in [Block -> Seq(Int)], NEW b \in Block, NEW k \in 1 .. Len(s[b]), NEW v \in Int,
         NEW t, t = [s EXCEPT ![b] = [s[b] EXCEPT ![k] = v]]
  PROVE  OneBlock(s, t, b) /\ OneSlot(s[b], t[b], k, v)
<1> DEFINE r == s[b]
           u == [r EXCEPT ![k] = v]
<1>1. r \in Seq(Int) /\ k \in 1 .. Len(r)
  OBVIOUS
<1> HIDE DEF r
<1>2. u \in Seq(Int) /\ Len(u) = Len(r) /\ \A j \in 1 .. Len(r) : u[j] = IF j = k THEN v ELSE r[j]
  BY <1>1, ExceptSeq
<1>3. t = [s EXCEPT ![b] = u]
  BY DEF r
<1> HIDE DEF u
<1>4. t \in [Block -> Seq(Int)] /\ t[b] = u /\ \A c \in Block : c # b => t[c] = s[c]
  BY <1>2, <1>3
<1> QED
  BY <1>2, <1>4 DEF OneBlock, OneSlot, r

\* The first free slot of a block is built on.
BuildsSlot(r, p, u, k, v) ==
    /\ r \in Seq(Int) /\ p \in Nat /\ p < Len(r) /\ Filled(r, p)
    /\ v \in Int /\ v # 0 /\ k = p + 1 /\ OneSlot(r, u, k, v)

LEMMA SlotBuilt ==
  ASSUME NEW r, NEW p, NEW u, NEW k, NEW v, BuildsSlot(r, p, u, k, v)
  PROVE  /\ r[k] = 0 /\ u[k] = v
         /\ Filled(u, k)
         /\ \A j \in 1 .. p : u[j] = r[j]
         /\ \A e \in Seq(Int) : Reads(r, p, e) => Reads(u, k, Append(e, v))
<1>0. /\ r \in Seq(Int) /\ p \in Nat /\ p < Len(r) /\ Filled(r, p)
      /\ v \in Int /\ v # 0 /\ k = p + 1 /\ OneSlot(r, u, k, v)
  BY DEF BuildsSlot
<1>1. Len(r) \in Nat /\ k \in 1 .. Len(r) /\ k \in Nat
  BY <1>0, LenProperties
<1>2. /\ u \in Seq(Int) /\ Len(u) = Len(r)
      /\ \A j \in 1 .. Len(r) : u[j] = IF j = k THEN v ELSE r[j]
  BY <1>0 DEF OneSlot
<1>3. r[k] = 0 /\ u[k] = v
  BY <1>0, <1>1, <1>2 DEF Filled
<1>4. Filled(u, k)
  <2> SUFFICES ASSUME NEW j \in 1 .. Len(r)  PROVE u[j] = 0 <=> j > k
    BY <1>2 DEF Filled
  <2>1. r[j] = 0 <=> j > p
    BY <1>0 DEF Filled
  <2> QED  BY <1>0, <1>1, <1>2, <2>1
<1>5. \A j \in 1 .. p : u[j] = r[j]
  BY <1>0, <1>1, <1>2
<1>6. ASSUME NEW e \in Seq(Int), Reads(r, p, e)  PROVE Reads(u, k, Append(e, v))
  <2>1. Len(e) = p /\ \A j \in 1 .. p : r[j] = e[j]
    BY <1>6 DEF Reads
  <2>2. Len(Append(e, v)) = k /\ Append(e, v)[k] = v
        /\ \A j \in 1 .. p : Append(e, v)[j] = e[j]
    BY <1>0, <2>1, AppendProperties
  <2>3. ASSUME NEW j \in 1 .. k  PROVE u[j] = Append(e, v)[j]
    <3>1. CASE j = k
      BY <1>3, <2>2, <3>1
    <3>2. CASE j # k
      <4>1. j \in 1 .. p
        BY <1>0, <3>2
      <4> QED  BY <1>5, <2>1, <2>2, <4>1
    <3> QED  BY <3>1, <3>2
  <2> QED  BY <2>2, <2>3 DEF Reads
<1> QED
  BY <1>3, <1>4, <1>5, <1>6

\* The last element of a block is destroyed.
ClearsSlot(r, p, u, n) ==
    /\ r \in Seq(Int) /\ p \in Nat /\ p > 0 /\ p <= Len(r) /\ Filled(r, p)
    /\ n = p - 1 /\ OneSlot(r, u, p, 0)

LEMMA SlotCleared ==
  ASSUME NEW r, NEW p, NEW u, NEW n, ClearsSlot(r, p, u, n)
  PROVE  /\ r[p] # 0
         /\ Filled(u, n)
         /\ \A e \in Seq(Int) : Reads(r, p, e) => Reads(u, n, SubSeq(e, 1, Len(e) - 1))
<1>0. /\ r \in Seq(Int) /\ p \in Nat /\ p > 0 /\ p <= Len(r) /\ Filled(r, p)
      /\ n = p - 1 /\ OneSlot(r, u, p, 0)
  BY DEF ClearsSlot
<1>1. Len(r) \in Nat /\ p \in 1 .. Len(r) /\ n \in Nat
  BY <1>0, LenProperties
<1>2. /\ u \in Seq(Int) /\ Len(u) = Len(r)
      /\ \A j \in 1 .. Len(r) : u[j] = IF j = p THEN 0 ELSE r[j]
  BY <1>0 DEF OneSlot
<1>3. r[p] # 0
  BY <1>0, <1>1 DEF Filled
<1>4. Filled(u, n)
  <2> SUFFICES ASSUME NEW j \in 1 .. Len(r)  PROVE u[j] = 0 <=> j > n
    BY <1>0, <1>2 DEF Filled
  <2>1. r[j] = 0 <=> j > p
    BY <1>0 DEF Filled
  <2> QED  BY <1>0, <1>1, <1>2, <2>1
<1>5. ASSUME NEW e \in Seq(Int), Reads(r, p, e)
      PROVE  Reads(u, n, SubSeq(e, 1, Len(e) - 1))
  <2>1. Len(e) = p /\ \A j \in 1 .. p : r[j] = e[j]
    BY <1>5 DEF Reads
  <2> DEFINE d == SubSeq(e, 1, Len(e) - 1)
  <2>2. \A j \in 1 .. p - 1 : e[j] \in Int
    BY <1>0, <2>1, ElementOfSeq
  <2>3. Len(d) = p - 1 /\ \A j \in 1 .. p - 1 : d[j] = e[j]
    BY <1>0, <2>1, <2>2, SubSeqProperties
  <2> HIDE DEF d
  <2>4. ASSUME NEW j \in 1 .. n  PROVE u[j] = d[j]
    BY <1>0, <1>1, <1>2, <2>1, <2>3
  <2>5. Reads(u, n, d)
    BY <1>0, <2>3, <2>4 DEF Reads
  <2> QED  BY <2>5 DEF d
<1> QED
  BY <1>3, <1>4, <1>5

\* What is read when n more elements stand behind the first p.
Longer(r, u, p, n, q, d) ==
    /\ p \in Nat /\ n \in Nat /\ q = p + n /\ d \in Seq(Int) /\ Len(d) = n
    /\ \A i \in 1 .. p + n : u[i] = IF i <= p THEN r[i] ELSE d[i - p]

LEMMA ReadsMore ==
  ASSUME NEW r, NEW u, NEW p, NEW n, NEW q, NEW d, Longer(r, u, p, n, q, d),
         NEW e \in Seq(Int), Reads(r, p, e)
  PROVE  Reads(u, q, e \o d)
<1>0. /\ p \in Nat /\ n \in Nat /\ q = p + n /\ d \in Seq(Int) /\ Len(d) = n
      /\ \A i \in 1 .. p + n : u[i] = IF i <= p THEN r[i] ELSE d[i - p]
  BY DEF Longer
<1>1. Len(e) = p /\ \A j \in 1 .. p : r[j] = e[j]
  BY DEF Reads
<1>2. Len(e \o d) = p + n
      /\ \A i \in 1 .. p + n : (e \o d)[i] = IF i <= p THEN e[i] ELSE d[i - p]
  BY <1>0, <1>1, ConcatProperties
<1>3. ASSUME NEW i \in 1 .. p + n  PROVE u[i] = (e \o d)[i]
  <2>1. CASE i <= p
    <3>1. i \in 1 .. p
      BY <1>0, <2>1
    <3> QED  BY <1>0, <1>1, <1>2, <2>1, <3>1
  <2>2. CASE ~(i <= p)
    BY <1>0, <1>2, <2>2
  <2> QED  BY <2>1, <2>2
<1> QED
  BY <1>0, <1>2, <1>3 DEF Reads

\* Several elements are built behind the first p.
Numbers(k, n) == [i \in 1 .. n |-> k + i]

BuildsSlots(r, p, u, q, k, n) ==
    /\ r \in Seq(Int) /\ p \in Nat /\ Filled(r, p)
    /\ n \in Nat /\ q = p + n /\ q <= Len(r) /\ k \in Nat
    /\ u = [i \in DOMAIN r |-> IF i - p \in 1 .. n THEN k + i - p ELSE r[i]]

LEMMA SlotsBuilt ==
  ASSUME NEW r, NEW p, NEW u, NEW q, NEW k, NEW n, BuildsSlots(r, p, u, q, k, n)
  PROVE  /\ u \in Seq(Int) /\ Len(u) = Len(r)
         /\ \A i \in 1 .. n : r[p + i] = 0
         /\ Filled(u, q)
         /\ Numbers(k, n) \in Seq(Int)
         /\ \A e \in Seq(Int) : Reads(r, p, e) => Reads(u, q, e \o Numbers(k, n))
<1> DEFINE d == Numbers(k, n)
<1>0. /\ r \in Seq(Int) /\ p \in Nat /\ Filled(r, p)
      /\ n \in Nat /\ q = p + n /\ q <= Len(r) /\ k \in Nat
  BY DEF BuildsSlots
<1>a. u = [i \in DOMAIN r |-> IF i - p \in 1 .. n THEN k + i - p ELSE r[i]]
  BY DEF BuildsSlots
<1>1. Len(r) \in Nat /\ DOMAIN r = 1 .. Len(r) /\ \A i \in 1 .. Len(r) : r[i] \in Int
  BY <1>0, LenProperties, ElementOfSeq
<1>2. u \in [1 .. Len(r) -> Int]
  <2>1. \A i \in 1 .. Len(r) : (IF i - p \in 1 .. n THEN k + i - p ELSE r[i]) \in Int
    BY <1>0, <1>1
  <2> QED  BY <1>a, <1>1, <2>1
<1>3. u \in Seq(Int)
  BY <1>1, <1>2, SeqDef
<1>4. Len(u) = Len(r)
  <2>1. Len(u) \in Nat /\ 1 .. Len(u) = 1 .. Len(r)
    BY <1>2, <1>3, LenProperties
  <2> QED  BY <1>1, <2>1, SameRange
<1>5. \A i \in 1 .. Len(r) : u[i] = IF i - p \in 1 .. n THEN k + i - p ELSE r[i]
  BY <1>a, <1>1
<1>6. d \in Seq(Int) /\ Len(d) = n /\ \A i \in 1 .. n : d[i] = k + i
  <2>1. d \in [1 .. n -> Int] /\ \A i \in 1 .. n : d[i] = k + i
    BY <1>0 DEF Numbers
  <2> HIDE DEF d
  <2>2. d \in Seq(Int)
    BY <1>0, <2>1, SeqDef
  <2>3. Len(d) \in Nat /\ 1 .. Len(d) = 1 .. n
    BY <2>1, <2>2, LenProperties
  <2>4. Len(d) = n
    BY <1>0, <2>3, SameRange
  <2> QED  BY <2>1, <2>2, <2>4
<1> HIDE DEF d
<1>7. \A i \in 1 .. Len(r) : r[i] = 0 <=> i > p
  BY <1>0 DEF Filled
<1>8. \A i \in 1 .. n : p + i \in 1 .. Len(r) /\ p + i > p
  BY <1>0, <1>1
<1>9. \A i \in 1 .. n : r[p + i] = 0
  BY <1>0, <1>7, <1>8
<1>10. Filled(u, q)
  <2> SUFFICES ASSUME NEW i \in 1 .. Len(r)  PROVE u[i] = 0 <=> i > p + n
    BY <1>0, <1>4 DEF Filled
  <2>1. u[i] = IF i - p \in 1 .. n THEN k + i - p ELSE r[i]
    BY <1>0, <1>1, <1>5
  <2>2. CASE i - p \in 1 .. n
    BY <1>0, <1>1, <2>1, <2>2
  <2>3. CASE i - p \notin 1 .. n
    <3>1. u[i] = 0 <=> i > p
      BY <1>0, <1>7, <2>1, <2>3
    <3>2. i > p <=> i > p + n
      BY <1>0, <1>1, <2>3
    <3> QED  BY <3>1, <3>2
  <2> QED  BY <2>2, <2>3
<1>11. ASSUME NEW e \in Seq(Int), Reads(r, p, e)  PROVE Reads(u, q, e \o d)
  <2>1. \A i \in 1 .. p + n : u[i] = IF i <= p THEN r[i] ELSE d[i - p]
    <3> SUFFICES ASSUME NEW i \in 1 .. p + n
                 PROVE  u[i] = IF i <= p THEN r[i] ELSE d[i - p]
      OBVIOUS
    <3>1. u[i] = IF i - p \in 1 .. n THEN k + i - p ELSE r[i]
      BY <1>0, <1>1, <1>5
    <3>2. CASE i <= p
      <4>1. i - p \notin 1 .. n
        BY <1>0, <3>2
      <4> QED  BY <3>1, <3>2, <4>1
    <3>3. CASE ~(i <= p)
      <4>1. i - p \in 1 .. n /\ k + (i - p) = k + i - p
        BY <1>0, <3>3
      <4>2. d[i - p] = k + (i - p)
        BY <1>6, <4>1
      <4> QED  BY <3>1, <3>3, <4>1, <4>2
    <3> QED  BY <3>2, <3>3
  <2>2. Longer(r, u, p, n, q, d)
    BY <1>0, <1>6, <2>1 DEF Longer
  <2> QED  BY <1>11, <2>2, ReadsMore
<1> QED
  BY <1>3, <1>4, <1>6, <1>9, <1>10, <1>11 DEF d

LEMMA HandleIs ==
  ASSUME NEW s \in [Block -> Seq(Int)], NEW h, Handle(s, h), h # AA!Nothing
  PROVE  \E b \in Block, p \in Nat : h = [block |-> b, pos |-> p] /\ p <= Len(s[b])
<1>1. h \in [block : Block, pos : Nat] /\ h.pos <= Len(s[h.block])
  BY DEF Handle
<1>2. h = [block |-> h.block, pos |-> h.pos] /\ h.block \in Block /\ h.pos \in Nat
  BY <1>1
<1> QED
  BY <1>1, <1>2

\* The block of g has changed, and g.pos counts its elements.
LEMMA Rebuilt ==
  ASSUME NEW s \in [Block -> Seq(Int)], NEW t, NEW g, g \in [block : Block, pos : Nat],
         OneBlock(s, t, g.block), g.pos <= Len(s[g.block]), Filled(t[g.block], g.pos)
  PROVE  /\ g # AA!Nothing
         /\ Handle(t, g) /\ Sound(t, g) /\ Room(t, g) = Len(s[g.block])
<1>1. g.block \in Block /\ g.block # Null
  BY ArraysAssumption
<1>2. g # AA!Nothing
  BY <1>1 DEF AA!Nothing
<1> QED
  BY <1>1, <1>2 DEF Handle, Sound, Room, OneBlock

LEMMA Fresh ==
  ASSUME NEW s \in [Block -> Seq(Int)], NEW b \in Block, NEW size \in Nat,
         NEW t, t = [s EXCEPT ![b] = [i \in 1 .. size |-> AA!Raw]]
  PROVE  LET h == [block |-> b, pos |-> 0] IN
         /\ t \in [Block -> Seq(Int)]
         /\ \A c \in Block : c # b => t[c] = s[c]
         /\ Room(t, h) = size /\ Handle(t, h) /\ Sound(t, h) /\ h # AA!Nothing
<1> DEFINE r == [i \in 1 .. size |-> 0]
           h == [block |-> b, pos |-> 0]
<1>1. r \in [1 .. size -> Int]
  OBVIOUS
<1>2. r \in Seq(Int)
  BY <1>1, SeqDef
<1>3. Len(r) \in Nat /\ DOMAIN r = 1 .. Len(r)
  BY <1>2, LenProperties
<1>4. Len(r) = size
  <2>1. 1 .. Len(r) = 1 .. size
    BY <1>3
  <2> QED  BY <1>3, <2>1, SameRange
<1>5. \A i \in 1 .. size : r[i] = 0
  OBVIOUS
<1>6. t = [s EXCEPT ![b] = r]
  BY DEF AA!Raw
<1> HIDE DEF r
<1>7. t \in [Block -> Seq(Int)] /\ t[b] = r /\ \A c \in Block : c # b => t[c] = s[c]
  BY <1>2, <1>6
<1>8. h \in [block : Block, pos : Nat] /\ h.block = b /\ h.pos = 0 /\ b # Null
  BY ArraysAssumption
<1>9. h # AA!Nothing
  BY <1>8 DEF AA!Nothing
<1> HIDE DEF h
<1>10. Handle(t, h) /\ Room(t, h) = size
  BY <1>4, <1>7, <1>8 DEF Handle, Room
<1>11. Sound(t, h)
  <2>1. \A i \in 1 .. size : i > 0
    OBVIOUS
  <2> QED  BY <1>4, <1>5, <1>7, <1>8, <2>1 DEF Sound, Filled
<1> QED
  BY <1>7, <1>9, <1>10, <1>11 DEF h

LEMMA CallAt ==
  ASSUME NEW c \in [op : ArrayOps, n : Nat, at : ArrayPlaces], NEW p \in ArrayPlaces
  PROVE  LET d == [c EXCEPT !.at = p] IN
         /\ d \in [op : ArrayOps, n : Nat, at : ArrayPlaces]
         /\ d.op = c.op /\ d.n = c.n /\ d.at = p
<1> DEFINE d == [c EXCEPT !.at = p]
<1>1. d \in [op : ArrayOps, n : Nat, at : ArrayPlaces]
  OBVIOUS
<1> QED
  BY <1>1

LEMMA IdleCall ==
  /\ AA!Idle \in [op : ArrayOps, n : Nat, at : ArrayPlaces]
  /\ AA!Idle.op = "none" /\ AA!Idle.at = "idle"
  BY DEF AA!Idle, ArrayOps, ArrayPlaces

LEMMA NothingBuilt ==
  ASSUME NEW s
  PROVE  /\ Handle(s, AA!Nothing) /\ Sound(s, AA!Nothing) /\ Says(s, AA!Nothing, << >>)
         /\ AA!Nothing.block = Null /\ AA!Nothing.pos = 0
  BY DEF Handle, Sound, Says, Reads, AA!Nothing

LEMMA ArrayInitInv == AA!Init => ArrayInv
<1> SUFFICES ASSUME AA!Init  PROVE ArrayInv
  OBVIOUS
<1>1. << >> \in Seq(Int)
  BY EmptySeq
<1>2. ArrayTypes
  BY <1>1, IdleCall DEF AA!Init, ArrayTypes
<1>3. AllBuilt
  BY NothingBuilt DEF AA!Init, AllBuilt, Built
<1>4. Held
  BY NothingBuilt DEF AA!Init, Held, Apart
<1>5. CallInv /\ ContentInv /\ ~misused
  BY NothingBuilt, IdleCall DEF AA!Init, CallInv, ContentInv
<1> QED
  BY <1>2, <1>3, <1>4, <1>5 DEF ArrayInv

LEMMA MaxOfTwo ==
  ASSUME NEW a \in Nat, NEW b \in Nat
  PROVE  AA!Max({a, b}) \in Nat /\ AA!Max({a, b}) >= a /\ AA!Max({a, b}) >= b
<1>1. \E x \in {a, b} : \A y \in {a, b} : x >= y
  OBVIOUS
<1>2. AA!Max({a, b}) \in {a, b} /\ \A y \in {a, b} : AA!Max({a, b}) >= y
  BY <1>1 DEF AA!Max
<1> QED
  BY <1>2

LEMMA MinOfTwo ==
  ASSUME NEW a \in Nat, NEW b \in Nat
  PROVE  AA!Min({a, b}) = IF a <= b THEN a ELSE b
<1>1. \E x \in {a, b} : \A y \in {a, b} : x =< y
  OBVIOUS
<1>2. AA!Min({a, b}) \in {a, b} /\ \A y \in {a, b} : AA!Min({a, b}) =< y
  BY <1>1 DEF AA!Min
<1> QED
  BY <1>2

LEMMA ArrayFacts ==
  ASSUME ArrayInv
  PROVE  /\ store \in [Block -> Seq(Int)]
         /\ Handle(store, vec) /\ Handle(store, arr) /\ Handle(store, tmp) /\ Handle(store, ending)
         /\ Sound(store, vec) /\ Sound(store, arr) /\ Sound(store, tmp) /\ Sound(store, ending)
         /\ vec.pos \in Nat /\ tmp.pos \in Nat /\ ending.pos \in Nat
         /\ call \in [op : ArrayOps, n : Nat, at : ArrayPlaces]
<1>1. store \in [Block -> Seq(Int)] /\ call \in [op : ArrayOps, n : Nat, at : ArrayPlaces]
  BY DEF ArrayInv, ArrayTypes
<1>2. /\ Handle(store, vec) /\ Handle(store, arr) /\ Handle(store, tmp) /\ Handle(store, ending)
      /\ Sound(store, vec) /\ Sound(store, arr) /\ Sound(store, tmp) /\ Sound(store, ending)
  BY DEF ArrayInv, AllBuilt, Built
<1>3. vec.pos \in Nat /\ tmp.pos \in Nat /\ ending.pos \in Nat
  BY <1>1, <1>2, HandleFacts
<1> QED
  BY <1>1, <1>2, <1>3

\* A step between two places at which nothing is under way.
LEMMA OnlyCall ==
  ASSUME ArrayInv,
         UNCHANGED << store, owned, vec, arr, tmp, ending, failed, expect, spoiled, serial, misused >>,
         call' \in [op : ArrayOps, n : Nat, at : ArrayPlaces],
         call.at \in {"idle", "start", "work"}, call'.at \in {"idle", "start", "work"},
         call'.op = "addAll" => call'.n > 0,
         call'.at = "work" => Enough(vec.pos, Room(store, vec))'
  PROVE  ArrayInv'
<1>1. ArrayTypes'
  BY DEF ArrayInv, ArrayTypes
<1>2. AllBuilt' /\ Held' /\ ~misused'
  BY DEF ArrayInv, AllBuilt, Built, Held, Apart
<1>3. tmp = AA!Nothing /\ ending = AA!Nothing /\ ~failed
  BY DEF ArrayInv, CallInv
<1>4. CallInv'
  BY <1>3 DEF CallInv
<1>5. ContentInv'
  BY DEF ArrayInv, ContentInv
<1> QED
  BY <1>1, <1>2, <1>4, <1>5 DEF ArrayInv

LEMMA ArrayBegins ==
  ASSUME ArrayInv, NEW op \in ArrayOps, NEW n \in Nat, op = "addAll" => n > 0, AA!Begin(op, n)
  PROVE  ArrayInv'
<1>1. /\ call.at = "idle" /\ call' = [op |-> op, n |-> n, at |-> "start"]
      /\ UNCHANGED << store, owned, vec, arr, tmp, ending, failed, expect, spoiled, serial, misused >>
  BY DEF AA!Begin, AA!At
<1>2. /\ call' \in [op : ArrayOps, n : Nat, at : ArrayPlaces]
      /\ call'.op = op /\ call'.n = n /\ call'.at = "start"
  BY <1>1 DEF ArrayPlaces
<1> QED
  BY <1>1, <1>2, OnlyCall

LEMMA ArrayNoMemory ==
  ASSUME ArrayInv, AA!OutOfMemory
  PROVE  ArrayInv'
  BY OnlyCall, IdleCall DEF AA!OutOfMemory, AA!At

LEMMA SameRoom == AA!Capacity(vec) = Room(store, vec) /\ AA!Capacity(tmp) = Room(store, tmp)
  BY DEF AA!Capacity, Room

LEMMA ArrayNoAllocation ==
  ASSUME ArrayInv, AA!NoAllocation
  PROVE  ArrayInv'
<1>1. /\ call.at = "start" /\ ~AA!Allocates /\ call' = [call EXCEPT !.at = "work"]
      /\ UNCHANGED << store, owned, vec, arr, tmp, ending, failed, expect, spoiled, serial, misused >>
  BY DEF AA!NoAllocation, AA!At, AA!Goto
<1>2. call \in [op : ArrayOps, n : Nat, at : ArrayPlaces] /\ "work" \in ArrayPlaces
  BY ArrayFacts DEF ArrayPlaces
<1>3. /\ call' \in [op : ArrayOps, n : Nat, at : ArrayPlaces]
      /\ call'.op = call.op /\ call'.n = call.n /\ call'.at = "work"
  BY <1>1, <1>2, CallAt
<1> DEFINE c == Room(store, vec)
<1>4. c \in Nat /\ vec.pos \in Nat /\ vec.pos <= c
  BY ArrayFacts, HandleFacts
<1>5. call.n \in Nat
  BY <1>2
<1>6. AA!Capacity(vec) = c
  BY SameRoom
<1> HIDE DEF c
<1>7. /\ (IF c = 0 THEN FirstCapacity ELSE 2 * c) \in Nat
      /\ (IF c = 0 THEN FirstCapacity ELSE 2 * c) > 0
  BY <1>4, ArraysAssumption
<1>8. ASSUME NEW m \in Nat  PROVE AA!Grown(m) > 0
  BY <1>6, <1>7, <1>8, MaxOfTwo DEF AA!Grown
<1>9. ~(AA!NewCapacity > 0)
  BY <1>1 DEF AA!Allocates
<1>10. Enough(vec.pos, c)
  <2>1. call.op = "add" => vec.pos < c
    <3> SUFFICES ASSUME call.op = "add", ~(vec.pos < c)  PROVE FALSE
      OBVIOUS
    <3>1. AA!IsFull(vec)
      BY <1>4, <1>6 DEF AA!IsFull
    <3>2. AA!NewCapacity = AA!Grown(0)
      BY <3>1 DEF AA!NewCapacity
    <3> QED  BY <1>8, <1>9, <3>2
  <2>2. call.op = "addAll" => vec.pos + call.n <= c
    <3> SUFFICES ASSUME call.op = "addAll", ~(vec.pos + call.n <= c)  PROVE FALSE
      OBVIOUS
    <3>1. vec.pos + call.n > AA!Capacity(vec) /\ vec.pos + call.n \in Nat
      BY <1>4, <1>5, <1>6
    <3>2. AA!NewCapacity = AA!Grown(vec.pos + call.n)
      BY <3>1 DEF AA!NewCapacity
    <3> QED  BY <1>8, <1>9, <3>1, <3>2
  <2>3. call.op = "resize" => call.n <= c
    <3> SUFFICES ASSUME call.op = "resize", ~(call.n <= c)  PROVE FALSE
      OBVIOUS
    <3>1. call.n > AA!Capacity(vec)
      BY <1>4, <1>5, <1>6
    <3>2. AA!NewCapacity = AA!Grown(call.n)
      BY <3>1 DEF AA!NewCapacity
    <3> QED  BY <1>5, <1>8, <1>9, <3>2
  <2> QED  BY <2>1, <2>2, <2>3 DEF Enough
<1>11. Enough(vec.pos, Room(store, vec))'
  BY <1>1, <1>3, <1>10 DEF Enough, c
<1>12. call.op = "addAll" => call.n > 0
  BY DEF ArrayInv, CallInv
<1> QED
  BY <1>1, <1>3, <1>11, <1>12, OnlyCall

\* The memory that a call asks for is enough for it.
LEMMA NewRoom ==
  ASSUME ArrayInv, call.at = "start", AA!Allocates, NEW size,
         size = IF call.op = "release" THEN vec.pos ELSE AA!NewCapacity
  PROVE  /\ size \in Nat
         /\ call.op # "heapArray" => AA!Grows /\ vec.pos <= size /\ Enough(vec.pos, size)
<1> DEFINE c == Room(store, vec)
<1>1. c \in Nat /\ vec.pos \in Nat /\ vec.pos <= c
  BY ArrayFacts, HandleFacts
<1>2. call.n \in Nat
  BY ArrayFacts
<1>3. AA!Capacity(vec) = c
  BY SameRoom
<1> HIDE DEF c
<1> DEFINE d == IF c = 0 THEN FirstCapacity ELSE 2 * c
<1>4. d \in Nat /\ d > c
  BY <1>1, ArraysAssumption
<1>5. \A m \in Nat : AA!Grown(m) = AA!Max({m, d})
  BY <1>3 DEF AA!Grown
<1> HIDE DEF d
<1>6. \A m \in Nat : AA!Grown(m) \in Nat /\ AA!Grown(m) >= m /\ AA!Grown(m) > c
  <2> TAKE m \in Nat
  <2>1. AA!Max({m, d}) \in Nat /\ AA!Max({m, d}) >= m /\ AA!Max({m, d}) >= d
    BY <1>4, MaxOfTwo
  <2> QED  BY <1>1, <1>4, <1>5, <2>1
<1>7. CASE call.op = "release"
  BY <1>1, <1>7 DEF AA!Grows, Enough
<1>8. CASE call.op = "add"
  <2>1. AA!NewCapacity > 0
    BY <1>8 DEF AA!Allocates
  <2>2. size = AA!Grown(0)
    BY <1>8, <2>1 DEF AA!NewCapacity
  <2> QED  BY <1>1, <1>6, <1>8, <2>2 DEF AA!Grows, Enough
<1>9. CASE call.op = "addAll"
  <2>1. AA!NewCapacity > 0
    BY <1>9 DEF AA!Allocates
  <2>2. size = AA!Grown(vec.pos + call.n) /\ vec.pos + call.n \in Nat
    BY <1>1, <1>2, <1>9, <2>1 DEF AA!NewCapacity
  <2> QED  BY <1>1, <1>2, <1>6, <1>9, <2>2 DEF AA!Grows, Enough
<1>10. CASE call.op = "resize"
  <2>1. AA!NewCapacity > 0
    BY <1>10 DEF AA!Allocates
  <2>2. size = AA!Grown(call.n)
    BY <1>10, <2>1 DEF AA!NewCapacity
  <2> QED  BY <1>1, <1>2, <1>6, <1>10, <2>2 DEF AA!Grows, Enough
<1>11. CASE call.op = "heapArray"
  BY <1>2, <1>11 DEF AA!NewCapacity
<1>12. CASE call.op \notin {"release", "add", "addAll", "resize", "heapArray"}
  BY <1>12 DEF AA!NewCapacity, AA!Allocates
<1> QED
  BY <1>7, <1>8, <1>9, <1>10, <1>11, <1>12

LEMMA ArrayAllocates ==
  ASSUME ArrayInv, AA!Allocate
  PROVE  ArrayInv'
<1> DEFINE size == IF call.op = "release" THEN vec.pos ELSE AA!NewCapacity
           place == IF call.op = "heapArray" THEN "fill" ELSE "move"
<1>1. /\ call.at = "start" /\ AA!Allocates /\ call' = [call EXCEPT !.at = place]
      /\ UNCHANGED << vec, arr, ending, failed, expect, spoiled, serial, misused >>
  BY DEF AA!Allocate, AA!At, AA!Goto
<1>2. PICK b \in Block \ owned :
           /\ owned' = owned \cup {b}
           /\ store' = [store EXCEPT ![b] = [i \in 1 .. size |-> AA!Raw]]
           /\ tmp' = [block |-> b, pos |-> 0]
  BY DEF AA!Allocate
<1>3. /\ size \in Nat
      /\ call.op # "heapArray" => AA!Grows /\ vec.pos <= size /\ Enough(vec.pos, size)
  BY <1>1, NewRoom
<1>4. place \in ArrayPlaces
  BY DEF ArrayPlaces
<1>5. /\ call' \in [op : ArrayOps, n : Nat, at : ArrayPlaces]
      /\ call'.op = call.op /\ call'.n = call.n /\ call'.at = place
  BY <1>1, <1>4, ArrayFacts, CallAt
<1> HIDE DEF size
<1>6. /\ store' \in [Block -> Seq(Int)]
      /\ \A c \in Block : c # b => store'[c] = store[c]
      /\ Room(store', tmp') = size /\ Handle(store', tmp') /\ Sound(store', tmp')
      /\ tmp' # AA!Nothing
  <2> DEFINE h == [block |-> b, pos |-> 0]
             t == [store EXCEPT ![b] = [i \in 1 .. size |-> AA!Raw]]
  <2>1. /\ t \in [Block -> Seq(Int)]
        /\ \A c \in Block : c # b => t[c] = store[c]
        /\ Room(t, h) = size /\ Handle(t, h) /\ Sound(t, h) /\ h # AA!Nothing
    <3>1. store \in [Block -> Seq(Int)] /\ b \in Block
      BY ArrayFacts
    <3> HIDE DEF t
    <3> QED  BY <1>3, <3>1, Fresh DEF t
  <2>2. store' = t /\ tmp' = h
    BY <1>2
  <2> HIDE DEF t, h
  <2> QED  BY <2>1, <2>2
<1>7. tmp'.block = b /\ tmp'.pos = 0 /\ b # Null
  BY <1>2, ArraysAssumption
<1>8. tmp = AA!Nothing /\ ending = AA!Nothing /\ ~failed
  BY <1>1 DEF ArrayInv, CallInv
<1>9. vec.block # b /\ arr.block # b
  BY <1>2, <1>7 DEF ArrayInv, Held
<1>10. ASSUME NEW h, Handle(store, h), h.block # b
       PROVE  h # AA!Nothing => store'[h.block] = store[h.block]
  BY <1>6, <1>10, HandleFacts, ArrayFacts
<1>11. Built(vec)'
  <2>1. Handle(store', vec) /\ Sound(store', vec)
    BY <1>9, <1>10, ArrayFacts, HandleKept
  <2> QED  BY <1>1, <2>1 DEF Built
<1>12. Built(arr)'
  <2>1. Handle(store', arr) /\ Sound(store', arr)
    BY <1>9, <1>10, ArrayFacts, HandleKept
  <2> QED  BY <1>1, <2>1 DEF Built
<1>13. AllBuilt'
  BY <1>1, <1>6, <1>8, <1>11, <1>12, NothingBuilt DEF AllBuilt, Built
<1>14. Held'
  BY <1>1, <1>2, <1>7, <1>8, <1>9, NothingBuilt DEF ArrayInv, Held, Apart
<1>15. ArrayTypes'
  BY <1>1, <1>5, <1>6 DEF ArrayInv, ArrayTypes
<1>16. CallInv'
  <2>1. call.op = "addAll" => call.n > 0
    BY DEF ArrayInv, CallInv
  <2>2. vec.pos \in Nat
    BY ArrayFacts
  <2>3. call.op # "heapArray" => /\ AA!Grows' /\ tmp'.pos <= vec.pos /\ vec.pos <= Room(store', tmp')
                                 /\ Enough(vec.pos, Room(store, tmp))'
    BY <1>1, <1>3, <1>5, <1>6, <1>7, <2>2 DEF AA!Grows, Enough
  <2> QED
    BY <1>1, <1>5, <1>6, <1>8, <2>1, <2>3 DEF CallInv
<1>17. ContentInv'
  <2> SUFFICES ASSUME ~spoiled  PROVE ContentInv'
    BY <1>1 DEF ContentInv
  <2>1. Says(store, vec, expect)
    BY <1>1 DEF ArrayInv, ContentInv
  <2>2. Says(store', vec, expect)
    BY <1>9, <1>10, <2>1, ArrayFacts, HandleKept
  <2>3. CASE call'.at = "fill"
    BY <1>1, <2>2, <2>3 DEF ContentInv
  <2>4. CASE call'.at = "move"
    <3>1. \A i \in 1 .. vec.pos : ~(i <= 0)
      BY ArrayFacts
    <3> QED  BY <1>1, <1>7, <2>2, <2>4, <3>1 DEF ContentInv, Says, Reads
  <2> QED  BY <1>5, <2>3, <2>4
<1> QED
  BY <1>1, <1>13, <1>14, <1>15, <1>16, <1>17 DEF ArrayInv

\* A step of setCapacity(): an element goes from the old block to the new one.
LEMMA ArrayMoves ==
  ASSUME ArrayInv, AA!MoveOne
  PROVE  ArrayInv'
<1>1. /\ call.at = "move" /\ tmp.pos < AA!MoveCount
      /\ misused' = (misused \/ store[tmp.block][tmp.pos + 1] # 0
                            \/ store[vec.block][tmp.pos + 1] = 0)
      /\ store' = [store EXCEPT ![tmp.block][tmp.pos + 1] = store[vec.block][tmp.pos + 1],
                                ![vec.block][tmp.pos + 1] = -1]
      /\ tmp' = [tmp EXCEPT !.pos = tmp.pos + 1]
      /\ UNCHANGED << owned, vec, arr, call, ending, failed, expect, spoiled, serial >>
  BY DEF AA!MoveOne, AA!At, AA!Raw, AA!Moved
<1>2. /\ AA!Grows /\ tmp # AA!Nothing /\ ending = AA!Nothing /\ ~failed
      /\ tmp.pos <= vec.pos /\ vec.pos <= Room(store, tmp) /\ Enough(vec.pos, Room(store, tmp))
  BY <1>1 DEF ArrayInv, CallInv
<1>3. tmp.pos \in Nat /\ vec.pos \in Nat /\ Room(store, tmp) \in Nat
  BY ArrayFacts, HandleFacts
<1>4. AA!MoveCount = vec.pos
  BY <1>2, <1>3, SameRoom, MinOfTwo DEF AA!MoveCount
<1>5. tmp.pos < vec.pos /\ vec # AA!Nothing
  BY <1>1, <1>3, <1>4, NothingBuilt
<1>6. PICK b \in Block, p \in Nat : tmp = [block |-> b, pos |-> p] /\ p <= Len(store[b])
  BY <1>2, ArrayFacts, HandleIs
<1>7. PICK c \in Block, q \in Nat : vec = [block |-> c, pos |-> q] /\ q <= Len(store[c])
  BY <1>5, ArrayFacts, HandleIs
<1>8. tmp.block = b /\ tmp.pos = p /\ vec.block = c /\ vec.pos = q
  BY <1>6, <1>7
<1>9. b # c /\ b # Null /\ c # Null
  BY <1>8, ArraysAssumption DEF ArrayInv, Held, Apart
<1>10. /\ store[b] \in Seq(Int) /\ Len(store[b]) \in Nat
       /\ store[c] \in Seq(Int) /\ Len(store[c]) \in Nat
  BY ArrayFacts, LenProperties
<1>11. p < q /\ q <= Len(store[b])
  BY <1>2, <1>5, <1>8, <1>9 DEF Room
<1>12. Filled(store[b], p) /\ Filled(store[c], q)
  BY <1>2, <1>5, <1>8, ArrayFacts DEF Sound
<1> DEFINE k == p + 1
           v == store[c][k]
           mid == [store EXCEPT ![b] = [store[b] EXCEPT ![k] = v]]
<1>13. k \in 1 .. Len(store[c]) /\ k \in 1 .. Len(store[b])
  BY <1>7, <1>10, <1>11
<1>14. v \in Int /\ v # 0
  <2>1. ~(k > q)
    BY <1>11
  <2> QED  BY <1>10, <1>12, <1>13, <2>1, ElementOfSeq DEF Filled
<1>15. store' = [mid EXCEPT ![c] = [mid[c] EXCEPT ![k] = -1]]
  <2>1. store' = [store EXCEPT ![b][k] = v, ![c][k] = -1]
    BY <1>1, <1>8
  <2>2. store \in [Block -> Seq(Int)]
    BY ArrayFacts
  <2>3. mid[c] = store[c]
    BY <1>9, <2>2
  <2> QED  BY <1>9, <2>1, <2>2, <2>3
<1>16. tmp' = [block |-> b, pos |-> k]
  BY <1>1, <1>6
<1>a. k = p + 1 /\ k \in Nat
  OBVIOUS
<1> HIDE DEF v, k
<1>17. OneBlock(store, mid, b) /\ OneSlot(store[b], mid[b], k, v)
  BY <1>13, <1>14, ArrayFacts, SlotSet
<1> HIDE DEF mid
<1>18. /\ mid[c] = store[c] /\ mid \in [Block -> Seq(Int)]
       /\ OneBlock(mid, store', c) /\ OneSlot(mid[c], store'[c], k, -1)
  <2>1. mid[c] = store[c] /\ mid \in [Block -> Seq(Int)] /\ -1 \in Int
    BY <1>9, <1>17 DEF OneBlock
  <2> QED  BY <1>13, <1>15, <2>1, SlotSet
<1> DEFINE u == store'[b]
           w == store'[c]
<1>19. /\ store' \in [Block -> Seq(Int)] /\ u = mid[b] /\ Len(u) = Len(store[b])
       /\ \A x \in Block \ {b, c} : store'[x] = store[x]
  BY <1>9, <1>17, <1>18 DEF OneBlock
<1>20. /\ store[b][k] = 0 /\ u[k] = v /\ Filled(u, k)
       /\ \A j \in 1 .. p : u[j] = store[b][j]
  <2>1. BuildsSlot(store[b], p, u, k, v)
    BY <1>a, <1>10, <1>11, <1>12, <1>14, <1>17, <1>19 DEF BuildsSlot
  <2> HIDE DEF u
  <2> QED  BY <2>1, SlotBuilt
<1>b. /\ Len(w) = Len(store[c])
      /\ \A j \in 1 .. Len(store[c]) : w[j] = IF j = k THEN -1 ELSE store[c][j]
  BY <1>18 DEF OneSlot
<1>c. Filled(w, q)
  <2> SUFFICES ASSUME NEW j \in 1 .. Len(store[c])  PROVE w[j] = 0 <=> j > q
    BY <1>b DEF Filled
  <2>1. store[c][j] = 0 <=> j > q
    BY <1>12 DEF Filled
  <2> QED  BY <1>a, <1>11, <1>b, <2>1
<1>d. tmp' # AA!Nothing /\ tmp'.block = b /\ tmp'.pos = k
  BY <1>9, <1>16 DEF AA!Nothing
<1>21. Handle(store', vec) /\ Sound(store', vec)
  <2>1. vec \in [block : Block, pos : Nat] /\ vec.pos <= Len(mid[vec.block])
        /\ OneBlock(mid, store', vec.block) /\ Filled(store'[vec.block], vec.pos)
    BY <1>7, <1>8, <1>18, <1>c
  <2> QED  BY <1>18, <2>1, Rebuilt
<1>23. Handle(store', tmp') /\ Sound(store', tmp') /\ Room(store', tmp') = Room(store, tmp)
  <2>1. tmp' \in [block : Block, pos : Nat] /\ tmp'.pos <= Len(store'[tmp'.block])
    BY <1>a, <1>10, <1>11, <1>16, <1>19, <1>d
  <2>2. Room(store, tmp) = Len(store[b]) /\ Room(store', tmp') = Len(store[b])
    BY <1>8, <1>9, <1>19, <1>d DEF Room
  <2> QED  BY <1>20, <1>d, <2>1, <2>2 DEF Handle, Sound
<1>24. Handle(store', arr) /\ Sound(store', arr)
  <2>1. arr # AA!Nothing => arr.block \in Block \ {b, c}
    <3>1. arr # AA!Nothing => arr.block \in Block /\ arr.block # Null
      <4>1. store \in [Block -> Seq(Int)] /\ Handle(store, arr)
        BY ArrayFacts
      <4> QED  BY <4>1, HandleFacts, ArraysAssumption
    <3> QED  BY <1>8, <3>1 DEF ArrayInv, Held, Apart
  <2>2. arr # AA!Nothing => store'[arr.block] = store[arr.block]
    BY <1>19, <2>1
  <2> QED  BY <2>2, ArrayFacts, HandleKept
<1>25. AllBuilt'
  BY <1>1, <1>2, <1>21, <1>23, <1>24, NothingBuilt DEF AllBuilt, Built
<1>26. Held'
  BY <1>1, <1>8, <1>d DEF ArrayInv, Held, Apart
<1>27. ~misused'
  BY <1>1, <1>6, <1>7, <1>8, <1>14, <1>20, <1>a DEF ArrayInv, v
<1>28. ArrayTypes'
  BY <1>1, <1>19 DEF ArrayInv, ArrayTypes
<1>29. CallInv'
  <2>1. Enough(vec.pos, Room(store, tmp))' /\ AA!Grows'
    BY <1>1, <1>2, <1>23 DEF Enough, AA!Grows
  <2>2. tmp'.pos <= vec'.pos /\ vec'.pos <= Room(store', tmp')
    BY <1>1, <1>2, <1>8, <1>11, <1>a, <1>d, <1>23
  <2>3. call.op = "addAll" => call.n > 0
    BY DEF ArrayInv, CallInv
  <2> QED  BY <1>1, <1>2, <1>d, <2>1, <2>2, <2>3 DEF CallInv
<1>30. ContentInv'
  <2> SUFFICES ASSUME ~spoiled
               PROVE  /\ Len(expect) = q
                      /\ \A j \in 1 .. q :
                            store'[IF j <= k THEN b ELSE c][j] = expect[j]
    BY <1>1, <1>8, <1>d DEF ContentInv
  <2>1. /\ Len(expect) = q
        /\ \A j \in 1 .. q : store[IF j <= p THEN b ELSE c][j] = expect[j]
    BY <1>1, <1>8 DEF ArrayInv, ContentInv
  <2>2. ASSUME NEW j \in 1 .. q
        PROVE  store'[IF j <= k THEN b ELSE c][j] = expect[j]
    <3>1. CASE j <= p
      <4>1. j \in 1 .. p /\ j <= k
        BY <1>a, <3>1
      <4> QED  BY <1>20, <2>1, <3>1, <4>1
    <3>2. CASE j = k
      <4>1. ~(j <= p) /\ j <= k
        BY <1>a, <3>2
      <4>2. expect[j] = store[c][j]
        BY <2>1, <4>1
      <4>3. store'[b][j] = v
        BY <1>20, <3>2
      <4>4. v = store[c][j]
        BY <3>2 DEF v
      <4> QED  BY <4>1, <4>2, <4>3, <4>4
    <3>3. CASE ~(j <= k)
      <4>1. ~(j <= p) /\ j \in 1 .. Len(store[c]) /\ j # k
        BY <1>7, <1>10, <1>a, <3>3
      <4> QED  BY <1>b, <2>1, <3>3, <4>1
    <3> QED  BY <1>a, <3>1, <3>2, <3>3
  <2> QED  BY <2>1, <2>2
<1> QED
  BY <1>25, <1>26, <1>27, <1>28, <1>29, <1>30 DEF ArrayInv

\* What happens to one block does not concern the handles of others.
LEMMA OthersKept ==
  ASSUME NEW s \in [Block -> Seq(Int)], NEW t, NEW b, \A c \in Block : c # b => t[c] = s[c],
         NEW h, Handle(s, h), h.block = b => b = Null
  PROVE  /\ Handle(t, h) /\ Room(t, h) = Room(s, h)
         /\ Sound(s, h) => Sound(t, h)
         /\ \A e : Says(s, h, e) => Says(t, h, e)
<1>1. h # AA!Nothing => t[h.block] = s[h.block]
  BY HandleFacts
<1> QED
  BY <1>1, HandleKept

\* Only slot k of block b has changed: it is v now.
Assigned(s, t, b, k, v) == OneBlock(s, t, b) /\ OneSlot(s[b], t[b], k, v)

\* An element is built behind those of h, which is a handle of the program.
Extends(s, h, t, g, v) ==
    /\ s \in [Block -> Seq(Int)] /\ Handle(s, h) /\ Sound(s, h) /\ h.pos < Room(s, h)
    /\ v \in Int /\ v # 0 /\ Assigned(s, t, h.block, h.pos + 1, v)
    /\ g \in [block : Block, pos : Nat] /\ g.block = h.block /\ g.pos = h.pos + 1

LEMMA Extended ==
  ASSUME NEW s, NEW h, NEW t, NEW g, NEW v, Extends(s, h, t, g, v)
  PROVE  /\ s[h.block][h.pos + 1] = 0
         /\ h # AA!Nothing /\ g # AA!Nothing
         /\ OneBlock(s, t, h.block)
         /\ Handle(t, g) /\ Sound(t, g) /\ Room(t, g) = Room(s, h)
         /\ \A e \in Seq(Int) : Says(s, h, e) => Says(t, g, Append(e, v))
<1>0. /\ s \in [Block -> Seq(Int)] /\ Handle(s, h) /\ Sound(s, h) /\ h.pos < Room(s, h)
      /\ v \in Int /\ v # 0 /\ Assigned(s, t, h.block, h.pos + 1, v)
      /\ g \in [block : Block, pos : Nat] /\ g.block = h.block /\ g.pos = h.pos + 1
  BY DEF Extends
<1>1. h # AA!Nothing
  BY <1>0 DEF Room, AA!Nothing
<1>2. PICK b \in Block, p \in Nat : h = [block |-> b, pos |-> p] /\ p <= Len(s[b])
  BY <1>0, <1>1, HandleIs
<1>3. h.block = b /\ h.pos = p /\ b # Null
  BY <1>2, ArraysAssumption
<1> DEFINE r == s[b]
           u == t[b]
           k == p + 1
<1>4. r \in Seq(Int) /\ Len(r) \in Nat /\ Room(s, h) = Len(r) /\ p < Len(r) /\ Filled(r, p)
  BY <1>0, <1>1, <1>3, LenProperties DEF Room, Sound
<1>5. k = p + 1 /\ k \in Nat /\ k <= Len(r)
  BY <1>4
<1>6. OneBlock(s, t, b) /\ OneSlot(r, u, k, v)
  BY <1>0, <1>3 DEF Assigned
<1> HIDE DEF r, u, k
<1>8. /\ r[k] = 0 /\ Filled(u, k)
      /\ \A e \in Seq(Int) : Reads(r, p, e) => Reads(u, k, Append(e, v))
  <2>1. BuildsSlot(r, p, u, k, v)
    BY <1>0, <1>4, <1>5, <1>6 DEF BuildsSlot
  <2> QED  BY <2>1, SlotBuilt
<1>9. g \in [block : Block, pos : Nat] /\ g.block = b /\ g.pos = k
  BY <1>0, <1>3 DEF k
<1>10. g # AA!Nothing /\ Handle(t, g) /\ Sound(t, g) /\ Room(t, g) = Len(r)
  <2>1. OneBlock(s, t, g.block) /\ g.pos <= Len(s[g.block]) /\ Filled(t[g.block], g.pos)
    BY <1>5, <1>6, <1>8, <1>9 DEF r, u
  <2> QED  BY <1>0, <1>9, <2>1, Rebuilt DEF r
<1>11. ASSUME NEW e \in Seq(Int), Says(s, h, e)  PROVE Says(t, g, Append(e, v))
  <2>1. Reads(r, p, e)
    BY <1>3, <1>11 DEF Says, r
  <2>2. Reads(u, k, Append(e, v))
    BY <1>8, <2>1
  <2> QED  BY <1>9, <2>2 DEF Says, u
<1> QED
  BY <1>1, <1>3, <1>4, <1>5, <1>6, <1>8, <1>9, <1>10, <1>11 DEF r

\* The last element of h is destroyed.
Clears(s, h, t, g) ==
    /\ s \in [Block -> Seq(Int)] /\ Handle(s, h) /\ Sound(s, h) /\ h.pos > 0
    /\ Assigned(s, t, h.block, h.pos, 0)
    /\ g \in [block : Block, pos : Nat] /\ g.block = h.block /\ g.pos = h.pos - 1

LEMMA Cleared ==
  ASSUME NEW s, NEW h, NEW t, NEW g, Clears(s, h, t, g)
  PROVE  /\ s[h.block][h.pos] # 0
         /\ h # AA!Nothing /\ g # AA!Nothing
         /\ OneBlock(s, t, h.block)
         /\ Handle(t, g) /\ Sound(t, g) /\ Room(t, g) = Room(s, h)
         /\ \A e \in Seq(Int) : Says(s, h, e) => Says(t, g, SubSeq(e, 1, Len(e) - 1))
<1>0. /\ s \in [Block -> Seq(Int)] /\ Handle(s, h) /\ Sound(s, h) /\ h.pos > 0
      /\ Assigned(s, t, h.block, h.pos, 0)
      /\ g \in [block : Block, pos : Nat] /\ g.block = h.block /\ g.pos = h.pos - 1
  BY DEF Clears
<1>1. h # AA!Nothing
  BY <1>0 DEF AA!Nothing
<1>2. PICK b \in Block, p \in Nat : h = [block |-> b, pos |-> p] /\ p <= Len(s[b])
  BY <1>0, <1>1, HandleIs
<1>3. h.block = b /\ h.pos = p /\ b # Null
  BY <1>2, ArraysAssumption
<1> DEFINE r == s[b]
           u == t[b]
           n == p - 1
<1>4. /\ r \in Seq(Int) /\ Len(r) \in Nat /\ Room(s, h) = Len(r) /\ p > 0 /\ p <= Len(r)
      /\ Filled(r, p)
  BY <1>0, <1>1, <1>2, <1>3, LenProperties DEF Room, Sound
<1>5. n = p - 1 /\ n \in Nat /\ n <= Len(r)
  BY <1>4
<1>6. OneBlock(s, t, b) /\ OneSlot(r, u, p, 0)
  BY <1>0, <1>3 DEF Assigned
<1> HIDE DEF r, u, n
<1>8. /\ r[p] # 0 /\ Filled(u, n)
      /\ \A e \in Seq(Int) : Reads(r, p, e) => Reads(u, n, SubSeq(e, 1, Len(e) - 1))
  <2>1. ClearsSlot(r, p, u, n)
    BY <1>4, <1>5, <1>6 DEF ClearsSlot
  <2> QED  BY <2>1, SlotCleared
<1>9. g \in [block : Block, pos : Nat] /\ g.block = b /\ g.pos = n
  BY <1>0, <1>3 DEF n
<1>10. g # AA!Nothing /\ Handle(t, g) /\ Sound(t, g) /\ Room(t, g) = Len(r)
  <2>1. OneBlock(s, t, g.block) /\ g.pos <= Len(s[g.block]) /\ Filled(t[g.block], g.pos)
    BY <1>5, <1>6, <1>8, <1>9 DEF r, u
  <2> QED  BY <1>0, <1>9, <2>1, Rebuilt DEF r
<1>11. ASSUME NEW e \in Seq(Int), Says(s, h, e)  PROVE Says(t, g, SubSeq(e, 1, Len(e) - 1))
  <2>1. Reads(r, p, e)
    BY <1>3, <1>11 DEF Says, r
  <2>2. Reads(u, n, SubSeq(e, 1, Len(e) - 1))
    BY <1>8, <2>1
  <2> QED  BY <1>9, <2>2 DEF Says, u
<1> QED
  BY <1>1, <1>3, <1>4, <1>5, <1>6, <1>8, <1>9, <1>10, <1>11 DEF r

LEMMA ArrayMakes ==
  ASSUME ArrayInv, AA!MakeOne
  PROVE  ArrayInv'
<1>1. /\ call.at = "fill" /\ tmp.pos < AA!Capacity(tmp)
      /\ misused' = (misused \/ store[tmp.block][tmp.pos + 1] # 0)
      /\ store' = [store EXCEPT ![tmp.block][tmp.pos + 1] = -1]
      /\ tmp' = [tmp EXCEPT !.pos = tmp.pos + 1]
      /\ UNCHANGED << owned, vec, arr, call, ending, failed, expect, spoiled, serial >>
  BY DEF AA!MakeOne, AA!At, AA!Construct, AA!Raw, AA!Moved
<1>2. /\ store \in [Block -> Seq(Int)] /\ Handle(store, tmp) /\ Sound(store, tmp)
      /\ tmp.pos < Room(store, tmp)
  BY <1>1, ArrayFacts, SameRoom
<1>a. Assigned(store, store', tmp.block, tmp.pos + 1, -1)
  <2> DEFINE b == tmp.block
             k == tmp.pos + 1
  <2>1. b \in Block /\ k \in 1 .. Len(store[b]) /\ -1 \in Int
    BY <1>2, HandleFacts DEF Room, AA!Nothing
  <2>2. store' = [store EXCEPT ![b] = [store[b] EXCEPT ![k] = -1]]
    BY <1>1, <1>2, <2>1
  <2> HIDE DEF b, k
  <2>3. OneBlock(store, store', b) /\ OneSlot(store[b], store'[b], k, -1)
    BY <1>2, <2>1, <2>2, SlotSet
  <2> QED  BY <2>3 DEF Assigned, b, k
<1>b. Extends(store, tmp, store', tmp', -1) /\ tmp'.block = tmp.block
  <2>1. -1 \in Int /\ -1 # 0
    OBVIOUS
  <2>2. tmp \in [block : Block, pos : Nat]
    BY <1>2 DEF Handle, Room, AA!Nothing
  <2>3. tmp' \in [block : Block, pos : Nat] /\ tmp'.block = tmp.block /\ tmp'.pos = tmp.pos + 1
    BY <1>1, <2>2
  <2> QED  BY <1>2, <1>a, <2>1, <2>3 DEF Extends
<1>3. /\ store[tmp.block][tmp.pos + 1] = 0
      /\ store' \in [Block -> Seq(Int)]
      /\ \A c \in Block : c # tmp.block => store'[c] = store[c]
      /\ tmp # AA!Nothing /\ tmp' # AA!Nothing /\ tmp'.block = tmp.block
      /\ Handle(store', tmp') /\ Sound(store', tmp')
  BY <1>b, Extended DEF OneBlock
<1>4. call.op = "heapArray" /\ ending = AA!Nothing /\ ~failed
  BY <1>1 DEF ArrayInv, CallInv
<1>5. (vec.block = tmp.block => tmp.block = Null) /\ (arr.block = tmp.block => tmp.block = Null)
  BY DEF ArrayInv, Held, Apart
<1>6. /\ Handle(store', vec) /\ Sound(store', vec) /\ Handle(store', arr) /\ Sound(store', arr)
      /\ Says(store, vec, expect) => Says(store', vec, expect)
  BY <1>2, <1>3, <1>5, ArrayFacts, OthersKept
<1>7. AllBuilt'
  BY <1>1, <1>3, <1>4, <1>6, NothingBuilt DEF AllBuilt, Built
<1>8. Held' /\ ~misused'
  BY <1>1, <1>3 DEF ArrayInv, Held, Apart
<1>9. ArrayTypes'
  BY <1>1, <1>3 DEF ArrayInv, ArrayTypes
<1>10. CallInv'
  BY <1>1, <1>3, <1>4 DEF ArrayInv, CallInv
<1>11. ContentInv'
  BY <1>1, <1>6 DEF ArrayInv, ContentInv
<1> QED
  BY <1>7, <1>8, <1>9, <1>10, <1>11 DEF ArrayInv

\* A step that leaves the store alone and only passes blocks from handle to handle.
LEMMA Passed ==
  ASSUME ArrayInv, UNCHANGED << store, owned >>,
         vec' \in {vec, arr, tmp, ending, AA!Nothing}, arr' \in {vec, arr, tmp, ending, AA!Nothing},
         tmp' \in {vec, arr, tmp, ending, AA!Nothing}, ending' \in {vec, arr, tmp, ending, AA!Nothing}
  PROVE  AllBuilt'
  BY NothingBuilt DEF ArrayInv, AllBuilt, Built

LEMMA ArrayBuildThrows ==
  ASSUME ArrayInv, AA!BuildThrows
  PROVE  ArrayInv'
<1>1. /\ call.at \in {"move", "fill"} /\ call' = [call EXCEPT !.at = "destroy"]
      /\ failed' /\ failed' \in BOOLEAN /\ ending' = tmp /\ tmp' = AA!Nothing
      /\ spoiled' = (spoiled \/ call.at = "move")
      /\ UNCHANGED << store, owned, vec, arr, expect, serial, misused >>
  BY DEF AA!BuildThrows, AA!At, AA!Goto
<1>2. /\ call' \in [op : ArrayOps, n : Nat, at : ArrayPlaces]
      /\ call'.op = call.op /\ call'.n = call.n /\ call'.at = "destroy"
  BY <1>1, ArrayFacts, CallAt DEF ArrayPlaces
<1>3. ending = AA!Nothing
  BY <1>1 DEF ArrayInv, CallInv
<1>4. AllBuilt'
  BY <1>1, Passed
<1>5. Held' /\ ~misused'
  BY <1>1, <1>3, NothingBuilt DEF ArrayInv, Held, Apart
<1>6. ArrayTypes'
  BY <1>1, <1>2 DEF ArrayInv, ArrayTypes
<1>7. CallInv'
  BY <1>1, <1>2 DEF ArrayInv, CallInv
<1>8. ContentInv'
  BY <1>1, <1>2 DEF ArrayInv, ContentInv
<1> QED
  BY <1>4, <1>5, <1>6, <1>7, <1>8 DEF ArrayInv

LEMMA ArrayMoveEnds ==
  ASSUME ArrayInv, AA!MoveEnd
  PROVE  ArrayInv'
<1>1. /\ call.at = "move" /\ call' = [call EXCEPT !.at = "destroy"] /\ tmp.pos = AA!MoveCount
      /\ ending' = vec /\ vec' = AA!Nothing
      /\ UNCHANGED << store, owned, arr, tmp, failed, expect, spoiled, serial, misused >>
  BY DEF AA!MoveEnd, AA!At, AA!Goto
<1>2. /\ call' \in [op : ArrayOps, n : Nat, at : ArrayPlaces]
      /\ call'.op = call.op /\ call'.n = call.n /\ call'.at = "destroy"
  BY <1>1, ArrayFacts, CallAt DEF ArrayPlaces
<1>3. /\ AA!Grows /\ tmp # AA!Nothing /\ ending = AA!Nothing /\ ~failed
      /\ tmp.pos <= vec.pos /\ vec.pos <= Room(store, tmp) /\ Enough(vec.pos, Room(store, tmp))
      /\ call.op = "addAll" => call.n > 0
  BY <1>1 DEF ArrayInv, CallInv
<1>4. tmp.pos = vec.pos
  <2>1. Room(store, tmp) \in Nat /\ vec.pos \in Nat
    BY ArrayFacts, HandleFacts
  <2> QED  BY <1>1, <1>3, <2>1, SameRoom, MinOfTwo DEF AA!MoveCount
<1>5. AA!Grows' /\ ~AA!Replaces'
  BY <1>2, <1>3 DEF AA!Grows, AA!Replaces
<1>6. AllBuilt'
  BY <1>1, Passed
<1>7. Held' /\ ~misused'
  BY <1>1, <1>3, NothingBuilt DEF ArrayInv, Held, Apart
<1>8. ArrayTypes'
  BY <1>1, <1>2 DEF ArrayInv, ArrayTypes
<1>9. Enough(tmp.pos, Room(store, tmp))'
  BY <1>1, <1>2, <1>3, <1>4 DEF Enough
<1>10. CallInv'
  BY <1>1, <1>2, <1>3, <1>5, <1>9 DEF CallInv
<1>11. ContentInv'
  <2> SUFFICES ASSUME ~spoiled  PROVE Says(store, tmp, expect)
    BY <1>1, <1>2, <1>3, <1>5 DEF ContentInv
  <2>1. /\ Len(expect) = vec.pos
        /\ \A j \in 1 .. vec.pos :
              store[(IF j <= tmp.pos THEN tmp ELSE vec).block][j] = expect[j]
    BY <1>1 DEF ArrayInv, ContentInv
  <2>2. \A j \in 1 .. vec.pos : j <= tmp.pos
    BY <1>4, ArrayFacts
  <2> QED  BY <1>4, <2>1, <2>2 DEF Says, Reads
<1> QED
  BY <1>6, <1>7, <1>8, <1>10, <1>11 DEF ArrayInv

LEMMA ArrayMakeEnds ==
  ASSUME ArrayInv, AA!MakeEnd
  PROVE  ArrayInv'
<1>1. /\ call.at = "fill" /\ call' = [call EXCEPT !.at = "destroy"]
      /\ ending' = arr /\ arr' = AA!Nothing
      /\ UNCHANGED << store, owned, vec, tmp, failed, expect, spoiled, serial, misused >>
  BY DEF AA!MakeEnd, AA!At, AA!Goto
<1>2. /\ call' \in [op : ArrayOps, n : Nat, at : ArrayPlaces]
      /\ call'.op = call.op /\ call'.n = call.n /\ call'.at = "destroy"
  BY <1>1, ArrayFacts, CallAt DEF ArrayPlaces
<1>3. call.op = "heapArray" /\ tmp # AA!Nothing /\ ending = AA!Nothing /\ ~failed
  BY <1>1 DEF ArrayInv, CallInv
<1>4. AllBuilt'
  BY <1>1, Passed
<1>5. Held' /\ ~misused'
  BY <1>1, <1>3, NothingBuilt DEF ArrayInv, Held, Apart
<1>6. ArrayTypes'
  BY <1>1, <1>2 DEF ArrayInv, ArrayTypes
<1>7. ~AA!Grows' /\ AA!Replaces'
  BY <1>2, <1>3 DEF AA!Grows, AA!Replaces
<1>8. CallInv'
  BY <1>1, <1>2, <1>3, <1>7 DEF CallInv
<1>9. ContentInv'
  BY <1>1, <1>2, <1>7 DEF ArrayInv, ContentInv
<1> QED
  BY <1>4, <1>5, <1>6, <1>8, <1>9 DEF ArrayInv

\* What the destruction of the last element of h amounts to.
LEMMA ClearsIt ==
  ASSUME NEW s \in [Block -> Seq(Int)], NEW h, Handle(s, h), Sound(s, h), h.pos \in Nat, h.pos > 0,
         NEW t, t = [s EXCEPT ![h.block][h.pos] = 0], NEW g, g = [h EXCEPT !.pos = h.pos - 1]
  PROVE  Clears(s, h, t, g) /\ g.block = h.block
<1>1. h # AA!Nothing
  BY DEF AA!Nothing
<1>2. PICK b \in Block, p \in Nat : h = [block |-> b, pos |-> p] /\ p <= Len(s[b])
  BY <1>1, HandleIs
<1>3. h.block = b /\ h.pos = p /\ p \in 1 .. Len(s[b]) /\ 0 \in Int
  BY <1>2
<1>4. t = [s EXCEPT ![b] = [s[b] EXCEPT ![p] = 0]]
  BY <1>3
<1>5. OneBlock(s, t, b) /\ OneSlot(s[b], t[b], p, 0)
  BY <1>3, <1>4, SlotSet
<1>6. Assigned(s, t, h.block, h.pos, 0)
  BY <1>3, <1>5 DEF Assigned
<1>7. g = [block |-> b, pos |-> p - 1] /\ p - 1 \in Nat
  BY <1>2, <1>3
<1>8. g \in [block : Block, pos : Nat] /\ g.block = h.block /\ g.pos = h.pos - 1
  BY <1>3, <1>7
<1> QED
  BY <1>6, <1>8 DEF Clears

\* What is left of a call at work when the vector has changed.
LEMMA Worked ==
  ASSUME ArrayInv, call.at = "work",
         UNCHANGED << owned, arr, tmp, ending, failed, spoiled >>,
         OneBlock(store, store', vec.block), Built(vec)', vec'.block = vec.block,
         Room(store', vec') = Room(store, vec),
         serial' \in Nat, ~misused',
         Says(store, vec, expect) => expect' \in Seq(Int) /\ Says(store', vec', expect'),
         expect' \in Seq(Int), call' \in {call, AA!Idle},
         call' = call => call.op = "resize" \/ UNCHANGED vec
  PROVE  ArrayInv'
<1>1. /\ tmp = AA!Nothing /\ ending = AA!Nothing /\ ~failed
      /\ call.op = "addAll" => call.n > 0
      /\ Enough(vec.pos, Room(store, vec))
  BY DEF ArrayInv, CallInv
<1>2. store' \in [Block -> Seq(Int)] /\ \A c \in Block : c # vec.block => store'[c] = store[c]
  BY DEF OneBlock
<1>3. arr.block = vec.block => vec.block = Null
  BY DEF ArrayInv, Held, Apart
<1>4. Handle(store', arr) /\ Sound(store', arr)
  BY <1>2, <1>3, ArrayFacts, OthersKept
<1>5. AllBuilt'
  BY <1>1, <1>4, NothingBuilt DEF AllBuilt, Built
<1>6. Held'
  BY DEF ArrayInv, Held, Apart
<1>7. ArrayTypes'
  BY <1>2, IdleCall DEF ArrayInv, ArrayTypes
<1>8. CASE call' = AA!Idle
  <2>1. CallInv'
    BY <1>1, <1>8, IdleCall DEF CallInv
  <2>2. ContentInv'
    BY <1>8, IdleCall DEF ArrayInv, ContentInv
  <2> QED  BY <1>5, <1>6, <1>7, <2>1, <2>2 DEF ArrayInv
<1>9. CASE call' = call
  <2>1. Enough(vec.pos, Room(store, vec))'
    BY <1>1, <1>9 DEF Enough
  <2>2. CallInv'
    BY <1>1, <1>9, <2>1 DEF CallInv
  <2>3. ContentInv'
    BY <1>9 DEF ArrayInv, ContentInv
  <2> QED  BY <1>5, <1>6, <1>7, <2>2, <2>3 DEF ArrayInv
<1> QED
  BY <1>8, <1>9

\* ArrayBuilder::add
LEMMA ArrayAdds ==
  ASSUME ArrayInv, AA!AddOne
  PROVE  ArrayInv'
<1> DEFINE v == serial + 1
<1>1. /\ call.at = "work" /\ (call.op = "add" \/ (call.op = "resize" /\ vec.pos < call.n))
      /\ misused' = (misused \/ store[vec.block][vec.pos + 1] # 0)
      /\ store' = [store EXCEPT ![vec.block][vec.pos + 1] = v]
      /\ vec' = [vec EXCEPT !.pos = vec.pos + 1]
      /\ serial' = v /\ expect' = Append(expect, v)
      /\ call' = IF call.op = "add" THEN AA!Idle ELSE call
      /\ UNCHANGED << owned, arr, tmp, ending, failed, spoiled >>
  BY DEF AA!AddOne, AA!At, AA!Construct, AA!Raw, AA!Return, AA!Stay
<1>2. v \in Int /\ v # 0 /\ v \in Nat
  BY DEF ArrayInv, ArrayTypes
<1> HIDE DEF v
<1>3. /\ store \in [Block -> Seq(Int)] /\ Handle(store, vec) /\ Sound(store, vec)
      /\ vec.pos \in Nat /\ Room(store, vec) \in Nat /\ call.n \in Nat
  BY ArrayFacts, HandleFacts
<1>4. vec.pos < Room(store, vec)
  BY <1>1, <1>3 DEF ArrayInv, CallInv, Enough
<1>5. Assigned(store, store', vec.block, vec.pos + 1, v)
  <2> DEFINE b == vec.block
             k == vec.pos + 1
  <2>1. b \in Block /\ k \in 1 .. Len(store[b])
    BY <1>3, <1>4, HandleFacts DEF Room, AA!Nothing
  <2>2. store' = [store EXCEPT ![b] = [store[b] EXCEPT ![k] = v]]
    BY <1>1, <1>3, <2>1
  <2> HIDE DEF b, k
  <2>3. OneBlock(store, store', b) /\ OneSlot(store[b], store'[b], k, v)
    BY <1>2, <1>3, <2>1, <2>2, SlotSet
  <2> QED  BY <2>3 DEF Assigned, b, k
<1>6. Extends(store, vec, store', vec', v) /\ vec'.block = vec.block
  <2>1. vec \in [block : Block, pos : Nat]
    BY <1>3, <1>4 DEF Handle, Room, AA!Nothing
  <2>2. vec' \in [block : Block, pos : Nat] /\ vec'.block = vec.block /\ vec'.pos = vec.pos + 1
    BY <1>1, <2>1
  <2> QED  BY <1>2, <1>3, <1>4, <1>5, <2>2 DEF Extends
<1>7. /\ store[vec.block][vec.pos + 1] = 0 /\ OneBlock(store, store', vec.block)
      /\ Handle(store', vec') /\ Sound(store', vec') /\ Room(store', vec') = Room(store, vec)
      /\ \A e \in Seq(Int) : Says(store, vec, e) => Says(store', vec', Append(e, v))
  BY <1>6, Extended
<1>8. expect \in Seq(Int) /\ expect' \in Seq(Int)
  <2>1. expect \in Seq(Int)
    BY DEF ArrayInv, ArrayTypes
  <2> QED  BY <1>1, <1>2, <2>1, AppendProperties
<1>9. Says(store, vec, expect) => Says(store', vec', expect')
  BY <1>1, <1>7, <1>8
<1>10. ~misused' /\ Built(vec)'
  BY <1>1, <1>7 DEF ArrayInv, Built
<1>11. serial' \in Nat /\ call' \in {call, AA!Idle} /\ (call' = call => call.op = "resize" \/ UNCHANGED vec)
  BY <1>1, <1>2, IdleCall
<1> QED
  BY <1>1, <1>6, <1>7, <1>8, <1>9, <1>10, <1>11, Worked

\* ArrayBuilder::removeLast
LEMMA ArrayRemoves ==
  ASSUME ArrayInv, NEW throws \in BOOLEAN, AA!RemoveOne(throws)
  PROVE  ArrayInv'
<1> DEFINE d == SubSeq(expect, 1, Len(expect) - 1)
<1>1. /\ call.at = "work" /\ vec.pos > 0
      /\ (call.op = "removeLast" \/ (call.op = "resize" /\ vec.pos > call.n))
      /\ misused' = (misused \/ store[vec.block][vec.pos] = 0)
      /\ store' = [store EXCEPT ![vec.block][vec.pos] = 0]
      /\ vec' = [vec EXCEPT !.pos = vec.pos - 1]
      /\ expect' = d
      /\ call' = IF throws \/ call.op = "removeLast" THEN AA!Idle ELSE call
      /\ UNCHANGED << owned, arr, tmp, ending, failed, spoiled, serial >>
  BY DEF AA!RemoveOne, AA!At, AA!Destruct, AA!Raw, AA!Return, AA!Stay
<1>2. /\ store \in [Block -> Seq(Int)] /\ Handle(store, vec) /\ Sound(store, vec)
      /\ vec.pos \in Nat
  BY ArrayFacts
<1>3. Clears(store, vec, store', vec') /\ vec'.block = vec.block
  BY <1>1, <1>2, ClearsIt
<1>4. /\ store[vec.block][vec.pos] # 0 /\ OneBlock(store, store', vec.block)
      /\ Handle(store', vec') /\ Sound(store', vec') /\ Room(store', vec') = Room(store, vec)
      /\ \A e \in Seq(Int) : Says(store, vec, e) => Says(store', vec', SubSeq(e, 1, Len(e) - 1))
  BY <1>3, Cleared
<1>5. expect \in Seq(Int) /\ serial \in Nat
  BY DEF ArrayInv, ArrayTypes
<1>6. Len(expect) \in Nat /\ \A i \in 1 .. Len(expect) : expect[i] \in Int
  BY <1>5, LenProperties, ElementOfSeq
<1>7. d \in Seq(Int)
  BY <1>6, SubSeqProperties
<1>8. Says(store, vec, expect) => Says(store', vec', d)
  BY <1>4, <1>5
<1> HIDE DEF d
<1>9. ~misused' /\ Built(vec)' /\ serial' \in Nat
  BY <1>1, <1>4, <1>5 DEF ArrayInv, Built
<1>10. call' \in {call, AA!Idle} /\ (call' = call => call.op = "resize" \/ UNCHANGED vec)
  BY <1>1, IdleCall
<1> QED
  BY <1>1, <1>3, <1>4, <1>7, <1>8, <1>9, <1>10, Worked

\* Vector::addAll
LEMMA ArrayCopies ==
  ASSUME ArrayInv, NEW done \in 0 .. call.n, AA!CopyAll(done)
  PROVE  ArrayInv'
<1>1. /\ store \in [Block -> Seq(Int)] /\ Handle(store, vec) /\ Sound(store, vec)
      /\ vec.pos \in Nat /\ Room(store, vec) \in Nat /\ call.n \in Nat
      /\ expect \in Seq(Int) /\ serial \in Nat
  BY ArrayFacts, HandleFacts DEF ArrayInv, ArrayTypes
<1>2. /\ call.at = "work" /\ call.op = "addAll" /\ call' = AA!Idle /\ serial' = serial + done
      /\ UNCHANGED << owned, arr, tmp, ending, failed, spoiled >>
  BY DEF AA!CopyAll, AA!At, AA!Return, AA!Stay
<1>3. call.n > 0 /\ vec.pos + call.n <= Room(store, vec)
  BY <1>2 DEF ArrayInv, CallInv, Enough
<1>4. vec # AA!Nothing
  BY <1>1, <1>3 DEF Room, AA!Nothing
<1>5. PICK b \in Block, p \in Nat : vec = [block |-> b, pos |-> p] /\ p <= Len(store[b])
  BY <1>1, <1>4, HandleIs
<1>6. vec.block = b /\ vec.pos = p /\ b # Null /\ serial' \in Nat /\ done \in Nat
  BY <1>1, <1>2, <1>5, ArraysAssumption
<1>7. CASE done # call.n
  <2>1. UNCHANGED << store, vec, expect, misused >>
    BY <1>7 DEF AA!CopyAll
  <2>2. OneBlock(store, store', vec.block) /\ Built(vec)' /\ ~misused' /\ call' \in {call, AA!Idle}
    BY <1>1, <1>2, <2>1 DEF OneBlock, Built, ArrayInv
  <2> QED
    BY <1>1, <1>2, <1>6, <2>1, <2>2, Worked
<1>8. CASE done = call.n
  <2> DEFINE n == call.n
             r == store[b]
             u == [i \in DOMAIN r |-> IF i - p \in 1 .. n THEN serial + i - p ELSE r[i]]
             d == Numbers(serial, n)
             q == p + n
  <2>1. /\ misused' = (misused \/ \E i \in 1 .. n : r[p + i] # 0)
        /\ store' = [store EXCEPT ![b] = u]
        /\ vec' = [vec EXCEPT !.pos = q]
        /\ expect' = expect \o d
    BY <1>1, <1>6, <1>8 DEF AA!CopyAll, AA!Raw, Numbers
  <2>2. vec' = [block |-> b, pos |-> q] /\ q \in Nat
    BY <1>1, <1>5, <2>1
  <2>3. r \in Seq(Int) /\ Filled(r, p) /\ Room(store, vec) = Len(r)
    BY <1>1, <1>4, <1>6 DEF Sound, Room
  <2>4. BuildsSlots(r, p, u, q, serial, n)
    BY <1>1, <1>3, <1>6, <2>3 DEF BuildsSlots
  <2> HIDE DEF r, u, d, q, n
  <2>5. /\ u \in Seq(Int) /\ Len(u) = Len(r) /\ \A i \in 1 .. n : r[p + i] = 0
        /\ Filled(u, q) /\ d \in Seq(Int)
        /\ \A e \in Seq(Int) : Reads(r, p, e) => Reads(u, q, e \o d)
    BY <2>4, SlotsBuilt DEF d
  <2>6. OneBlock(store, store', b) /\ store'[b] = u
    BY <1>1, <2>1, <2>5 DEF OneBlock, r
  <2>7. vec' \in [block : Block, pos : Nat] /\ vec'.block = b /\ vec'.pos = q
    BY <2>2
  <2>8. q <= Len(r)
    BY <1>3, <1>6, <2>3 DEF q, n
  <2>9. Handle(store', vec') /\ Sound(store', vec') /\ Room(store', vec') = Room(store, vec)
    <3>1. OneBlock(store, store', vec'.block) /\ vec'.pos <= Len(store[vec'.block])
          /\ Filled(store'[vec'.block], vec'.pos)
      BY <2>5, <2>6, <2>7, <2>8 DEF r
    <3> QED  BY <1>1, <2>3, <2>7, <3>1, Rebuilt DEF r
  <2>10. expect' \in Seq(Int)
    BY <1>1, <2>1, <2>5, ConcatProperties
  <2>11. Says(store, vec, expect) => Says(store', vec', expect')
    <3>1. Says(store, vec, expect) => Reads(r, p, expect)
      BY <1>6 DEF Says, r
    <3>2. Reads(r, p, expect) => Reads(u, q, expect')
      BY <1>1, <2>1, <2>5
    <3>3. Reads(u, q, expect') => Says(store', vec', expect')
      BY <2>6, <2>7 DEF Says
    <3> QED  BY <3>1, <3>2, <3>3
  <2>12. ~misused' /\ Built(vec)' /\ call' \in {call, AA!Idle}
    BY <1>2, <2>1, <2>5, <2>9 DEF ArrayInv, Built
  <2>13. call' # call /\ OneBlock(store, store', vec.block) /\ vec'.block = vec.block
    BY <1>2, <1>6, <2>6, <2>7, IdleCall
  <2> QED
    BY <1>2, <1>6, <2>9, <2>10, <2>11, <2>12, <2>13, Worked
<1> QED
  BY <1>7, <1>8

\* A destructor of ArrayDisposer::dispose(), which may throw.
LEMMA ArrayDestroys ==
  ASSUME ArrayInv, NEW throws \in BOOLEAN, AA!DestroyOne(throws)
  PROVE  ArrayInv'
<1>1. /\ call.at = "destroy" /\ ending.pos > 0
      /\ misused' = (misused \/ store[ending.block][ending.pos] = 0)
      /\ store' = [store EXCEPT ![ending.block][ending.pos] = 0]
      /\ ending' = [ending EXCEPT !.pos = ending.pos - 1]
      /\ failed' = (failed \/ throws)
      /\ UNCHANGED << owned, vec, arr, tmp, call, expect, spoiled, serial >>
  BY DEF AA!DestroyOne, AA!At, AA!Destruct, AA!Raw
<1>2. /\ store \in [Block -> Seq(Int)] /\ Handle(store, ending) /\ Sound(store, ending)
      /\ ending.pos \in Nat
  BY ArrayFacts
<1>3. Clears(store, ending, store', ending') /\ ending'.block = ending.block
  BY <1>1, <1>2, ClearsIt
<1>4. /\ store[ending.block][ending.pos] # 0 /\ OneBlock(store, store', ending.block)
      /\ Handle(store', ending') /\ Sound(store', ending')
  BY <1>3, Cleared
<1>5. store' \in [Block -> Seq(Int)] /\ \A c \in Block : c # ending.block => store'[c] = store[c]
  BY <1>4 DEF OneBlock
<1>6. /\ vec.block = ending.block => ending.block = Null
      /\ arr.block = ending.block => ending.block = Null
      /\ tmp.block = ending.block => ending.block = Null
  BY DEF ArrayInv, Held, Apart
<1>7. /\ Handle(store', vec) /\ Sound(store', vec)
      /\ Says(store, vec, expect) => Says(store', vec, expect)
  BY <1>2, <1>5, <1>6, ArrayFacts, OthersKept
<1>8. Handle(store', arr) /\ Sound(store', arr)
  BY <1>2, <1>5, <1>6, ArrayFacts, OthersKept
<1>9. /\ Handle(store', tmp) /\ Sound(store', tmp) /\ Room(store', tmp) = Room(store, tmp)
      /\ Says(store, tmp, expect) => Says(store', tmp, expect)
  <2>1. /\ store' \in [Block -> Seq(Int)] /\ \A c \in Block : c # ending.block => store'[c] = store[c]
        /\ Handle(store, tmp) /\ Sound(store, tmp)
        /\ tmp.block = ending.block => ending.block = Null
    BY <1>5, <1>6, ArrayFacts
  <2>2. Room(store', tmp) = Room(store, tmp)
    <3>1. tmp.block = Null \/ tmp.block \in Block
      BY <1>2, <2>1, HandleFacts DEF AA!Nothing
    <3>2. tmp.block # Null => store'[tmp.block] = store[tmp.block]
      BY <2>1, <3>1
    <3> QED  BY <3>2 DEF Room
  <2>3. /\ Handle(store', tmp) /\ Sound(store', tmp)
        /\ Says(store, tmp, expect) => Says(store', tmp, expect)
    BY <1>2, <2>1, OthersKept
  <2> QED  BY <2>2, <2>3
<1>10. AllBuilt'
  BY <1>1, <1>4, <1>7, <1>8, <1>9 DEF AllBuilt, Built
<1>11. Held' /\ ~misused'
  BY <1>1, <1>3, <1>4 DEF ArrayInv, Held, Apart
<1>12. ArrayTypes'
  BY <1>1, <1>5 DEF ArrayInv, ArrayTypes
<1>13. CallInv'
  <2>1. /\ AA!Grows' <=> AA!Grows
        /\ AA!Replaces' <=> AA!Replaces
        /\ Enough(tmp.pos, Room(store, tmp)) => Enough(tmp.pos, Room(store, tmp))'
    BY <1>1, <1>9 DEF AA!Grows, AA!Replaces, Enough
  <2> QED  BY <1>1, <2>1 DEF ArrayInv, CallInv
<1>14. ContentInv'
  <2>1. AA!Grows' <=> AA!Grows
    BY <1>1 DEF AA!Grows
  <2> QED  BY <1>1, <1>7, <1>9, <2>1 DEF ArrayInv, ContentInv
<1> QED
  BY <1>10, <1>11, <1>12, <1>13, <1>14 DEF ArrayInv

\* ~AutoDeleter frees the block, and the assignment goes on.
LEMMA ArrayDestroyEnds ==
  ASSUME ArrayInv, AA!DestroyEnd
  PROVE  ArrayInv'
<1>1. /\ call.at = "destroy" /\ ending.pos = 0
      /\ owned' = owned \ {ending.block}
      /\ store' = IF ending.block = Null THEN store ELSE [store EXCEPT ![ending.block] = << >>]
      /\ tmp' = AA!Nothing
      /\ ending' = IF failed THEN tmp ELSE AA!Nothing
      /\ failed' = (failed /\ tmp # AA!Nothing)
      /\ vec' = IF ~failed /\ AA!Grows THEN tmp ELSE vec
      /\ arr' = IF ~failed /\ AA!Replaces THEN tmp ELSE arr
      /\ call' = CASE failed' -> call
                   [] ~failed /\ AA!Grows -> [call EXCEPT !.at = "work"]
                   [] OTHER -> AA!Idle
      /\ expect' = IF failed' /\ ~AA!Replaces THEN << >> ELSE expect
      /\ spoiled' = (spoiled /\ ~(failed' /\ ~AA!Replaces))
      /\ UNCHANGED << serial, misused >>
  BY DEF AA!DestroyEnd, AA!At
<1>2. store \in [Block -> Seq(Int)] /\ Handle(store, ending)
  BY ArrayFacts
<1>3. OnlyBlock(store, store', ending.block)
  <2>1. << >> \in Seq(Int) /\ (ending.block # Null => ending.block \in Block)
    BY <1>2, HandleFacts, EmptySeq
  <2> QED  BY <1>1, <1>2, <2>1 DEF OnlyBlock
<1>4. /\ vec.block = ending.block => ending.block = Null
      /\ arr.block = ending.block => ending.block = Null
      /\ tmp.block = ending.block => ending.block = Null
  BY DEF ArrayInv, Held, Apart
<1>5. /\ Handle(store', vec) /\ Sound(store', vec)
      /\ Says(store, vec, expect) => Says(store', vec, expect)
  BY <1>2, <1>3, <1>4, ArrayFacts, OthersKept DEF OnlyBlock
<1>6. Handle(store', arr) /\ Sound(store', arr)
  BY <1>2, <1>3, <1>4, ArrayFacts, OthersKept DEF OnlyBlock
<1>7. /\ Handle(store', tmp) /\ Sound(store', tmp) /\ Room(store', tmp) = Room(store, tmp)
      /\ Says(store, tmp, expect) => Says(store', tmp, expect)
  <2>1. /\ store' \in [Block -> Seq(Int)] /\ \A c \in Block : c # ending.block => store'[c] = store[c]
        /\ Handle(store, tmp) /\ Sound(store, tmp)
        /\ tmp.block = ending.block => ending.block = Null
    BY <1>3, <1>4, ArrayFacts DEF OnlyBlock
  <2>2. Room(store', tmp) = Room(store, tmp)
    <3>1. tmp.block = Null \/ tmp.block \in Block
      BY <1>2, <2>1, HandleFacts DEF AA!Nothing
    <3>2. tmp.block # Null => store'[tmp.block] = store[tmp.block]
      BY <2>1, <3>1
    <3> QED  BY <3>2 DEF Room
  <2>3. /\ Handle(store', tmp) /\ Sound(store', tmp)
        /\ Says(store, tmp, expect) => Says(store', tmp, expect)
    BY <1>2, <2>1, OthersKept
  <2> QED  BY <2>2, <2>3
<1>8. AllBuilt'
  BY <1>1, <1>5, <1>6, <1>7, NothingBuilt DEF AllBuilt, Built
<1>9. /\ AA!Grows => IF tmp = AA!Nothing THEN failed
                     ELSE vec = AA!Nothing /\ Enough(tmp.pos, Room(store, tmp))
      /\ AA!Replaces /\ ~failed => arr = AA!Nothing
      /\ ~AA!Grows /\ ~AA!Replaces => tmp = AA!Nothing
      /\ call.op = "addAll" => call.n > 0
      /\ ~(AA!Grows /\ AA!Replaces)
  BY <1>1 DEF ArrayInv, CallInv, AA!Grows, AA!Replaces
<1>10. ~spoiled => Says(store, IF AA!Grows /\ tmp # AA!Nothing THEN tmp ELSE vec, expect)
  BY <1>1 DEF ArrayInv, ContentInv
<1>11. << >> \in Seq(Int) /\ expect \in Seq(Int) /\ spoiled \in BOOLEAN /\ failed \in BOOLEAN
  BY EmptySeq DEF ArrayInv, ArrayTypes
<1>12. owned = {vec.block, arr.block, tmp.block, ending.block} \ {Null}
       /\ Apart(vec, arr) /\ Apart(vec, tmp) /\ Apart(arr, tmp)
       /\ Apart(vec, ending) /\ Apart(arr, ending) /\ Apart(tmp, ending)
  BY DEF ArrayInv, Held
<1>13. /\ owned' = {vec.block, arr.block, tmp.block} \ {Null}
       /\ AA!Nothing.block = Null
  BY <1>1, <1>12, NothingBuilt DEF Apart
<1>14. ~misused'
  BY <1>1 DEF ArrayInv
<1>15. CASE ~failed /\ AA!Grows
  <2>1. /\ call' = [call EXCEPT !.at = "work"] /\ tmp # AA!Nothing /\ vec = AA!Nothing
        /\ ~AA!Replaces /\ vec' = tmp /\ arr' = arr /\ ending' = AA!Nothing /\ ~failed'
        /\ expect' = expect /\ spoiled' = spoiled
    BY <1>1, <1>9, <1>11, <1>15
  <2>2. /\ call' \in [op : ArrayOps, n : Nat, at : ArrayPlaces]
        /\ call'.op = call.op /\ call'.n = call.n /\ call'.at = "work"
    BY <2>1, ArrayFacts, CallAt DEF ArrayPlaces
  <2>3. Held'
    BY <1>1, <1>12, <1>13, <2>1 DEF Held, Apart
  <2>4. ArrayTypes'
    BY <1>1, <1>3, <1>11, <2>1, <2>2 DEF ArrayInv, ArrayTypes, OnlyBlock
  <2>5. Enough(vec.pos, Room(store, vec))'
    BY <1>7, <1>9, <1>15, <2>1, <2>2 DEF Enough
  <2>6. CallInv'
    BY <1>1, <1>9, <2>1, <2>2, <2>5 DEF CallInv
  <2>7. ContentInv'
    BY <1>7, <1>10, <1>15, <2>1, <2>2 DEF ContentInv
  <2> QED  BY <1>8, <1>14, <2>3, <2>4, <2>6, <2>7 DEF ArrayInv
<1>16. CASE ~failed /\ ~AA!Grows
  <2>1. /\ call' = AA!Idle /\ ~failed' /\ ending' = AA!Nothing /\ vec' = vec
        /\ expect' = expect /\ spoiled' = spoiled
        /\ arr' = IF AA!Replaces THEN tmp ELSE arr
        /\ ~AA!Replaces => tmp = AA!Nothing
        /\ AA!Replaces => arr = AA!Nothing
    BY <1>1, <1>9, <1>11, <1>16
  <2>2. Held'
    BY <1>1, <1>12, <1>13, <2>1 DEF Held, Apart
  <2>3. ArrayTypes'
    BY <1>1, <1>3, <1>11, <2>1, IdleCall DEF ArrayInv, ArrayTypes, OnlyBlock
  <2>4. CallInv'
    BY <1>1, <2>1, IdleCall DEF CallInv
  <2>5. ContentInv'
    BY <1>5, <1>10, <1>16, <2>1, IdleCall DEF ContentInv
  <2> QED  BY <1>8, <1>14, <2>2, <2>3, <2>4, <2>5 DEF ArrayInv
<1>17. CASE failed /\ tmp = AA!Nothing
  <2>1. /\ call' = AA!Idle /\ ~failed' /\ ending' = AA!Nothing /\ vec' = vec /\ arr' = arr
        /\ expect' = expect /\ spoiled' = spoiled
    BY <1>1, <1>11, <1>17
  <2>2. Held'
    BY <1>1, <1>12, <1>13, <1>17, <2>1 DEF Held, Apart
  <2>3. ArrayTypes'
    BY <1>1, <1>3, <1>11, <2>1, IdleCall DEF ArrayInv, ArrayTypes, OnlyBlock
  <2>4. CallInv'
    BY <1>1, <2>1, IdleCall DEF CallInv
  <2>5. ContentInv'
    BY <1>5, <1>10, <1>17, <2>1, IdleCall DEF ContentInv
  <2> QED  BY <1>8, <1>14, <2>2, <2>3, <2>4, <2>5 DEF ArrayInv
<1>18. CASE failed /\ tmp # AA!Nothing
  <2>1. /\ call' = call /\ failed' /\ ending' = tmp /\ vec' = vec /\ arr' = arr
        /\ failed' \in BOOLEAN
        /\ expect' = (IF AA!Replaces THEN expect ELSE << >>)
        /\ spoiled' = (spoiled /\ AA!Replaces)
    BY <1>1, <1>11, <1>18
  <2>2. Held'
    BY <1>1, <1>12, <1>13, <1>18, <2>1 DEF Held, Apart
  <2>3. ArrayTypes'
    BY <1>1, <1>3, <1>11, <2>1 DEF ArrayInv, ArrayTypes, OnlyBlock
  <2>4. (AA!Grows' <=> AA!Grows) /\ (AA!Replaces' <=> AA!Replaces)
    BY <2>1 DEF AA!Grows, AA!Replaces
  <2>5. CallInv'
    BY <1>1, <1>9, <2>1, <2>4 DEF CallInv, AA!Grows, AA!Replaces
  <2>6. ContentInv'
    <3>1. CASE AA!Replaces
      BY <1>1, <1>5, <1>9, <1>10, <2>1, <3>1 DEF ContentInv, AA!Grows, AA!Replaces
    <3>2. CASE ~AA!Replaces
      <4>1. AA!Grows /\ vec = AA!Nothing
        BY <1>9, <1>18, <3>2
      <4>2. Says(store', vec', expect')
        BY <2>1, <3>2, <4>1, NothingBuilt
      <4> QED  BY <1>1, <2>1, <4>2 DEF ContentInv
    <3> QED  BY <3>1, <3>2
  <2> QED  BY <1>8, <1>14, <2>2, <2>3, <2>5, <2>6 DEF ArrayInv
<1> QED
  BY <1>15, <1>16, <1>17, <1>18

\* The steps at work that only hand a block over, or do nothing.
LEMMA ArrayHands ==
  ASSUME ArrayInv, AA!Release \/ AA!DropVec \/ AA!DropArr
  PROVE  ArrayInv'
<1>1. call.at = "work" /\ UNCHANGED << store, owned, failed, serial, misused >>
  BY DEF AA!Release, AA!DropVec, AA!DropArr, AA!At
<1>2. tmp = AA!Nothing /\ ending = AA!Nothing /\ ~failed
  BY <1>1 DEF ArrayInv, CallInv
<1>3. << >> \in Seq(Int) /\ call \in [op : ArrayOps, n : Nat, at : ArrayPlaces]
  BY EmptySeq, ArrayFacts
<1>4. CASE AA!Release
  <2>1. /\ call' = [call EXCEPT !.op = "assign", !.at = "destroy"]
        /\ tmp' = vec /\ vec' = AA!Nothing /\ ending' = arr /\ arr' = AA!Nothing
        /\ expect' = << >> /\ spoiled' = FALSE
    BY <1>4 DEF AA!Release
  <2>2. /\ call' \in [op : ArrayOps, n : Nat, at : ArrayPlaces]
        /\ call'.op = "assign" /\ call'.at = "destroy"
    BY <1>3, <2>1 DEF ArrayOps, ArrayPlaces
  <2>3. AllBuilt'
    BY <1>1, <2>1, Passed
  <2>4. Held' /\ ~misused'
    BY <1>1, <1>2, <2>1, NothingBuilt DEF ArrayInv, Held, Apart
  <2>5. ArrayTypes'
    BY <1>1, <1>3, <2>1, <2>2 DEF ArrayInv, ArrayTypes
  <2>6. CallInv' /\ ContentInv'
    BY <1>1, <2>1, <2>2, NothingBuilt DEF CallInv, ContentInv, AA!Grows, AA!Replaces
  <2> QED  BY <2>3, <2>4, <2>5, <2>6 DEF ArrayInv
<1>5. CASE AA!DropVec
  <2>1. /\ call.op = "drop vec" /\ call' = [call EXCEPT !.at = "destroy"]
        /\ ending' = vec /\ vec' = AA!Nothing /\ expect' = << >> /\ spoiled' = FALSE
        /\ UNCHANGED << arr, tmp >>
    BY <1>5 DEF AA!DropVec, AA!Goto
  <2>2. /\ call' \in [op : ArrayOps, n : Nat, at : ArrayPlaces]
        /\ call'.op = "drop vec" /\ call'.at = "destroy"
    BY <1>3, <2>1, CallAt DEF ArrayPlaces
  <2>3. AllBuilt'
    BY <1>1, <2>1, Passed
  <2>4. Held' /\ ~misused'
    BY <1>1, <1>2, <2>1, NothingBuilt DEF ArrayInv, Held, Apart
  <2>5. ArrayTypes'
    BY <1>1, <1>3, <2>1, <2>2 DEF ArrayInv, ArrayTypes
  <2>6. CallInv' /\ ContentInv'
    BY <1>1, <1>2, <2>1, <2>2, NothingBuilt DEF CallInv, ContentInv, AA!Grows, AA!Replaces
  <2> QED  BY <2>3, <2>4, <2>5, <2>6 DEF ArrayInv
<1>6. CASE AA!DropArr
  <2>1. /\ call.op = "drop arr" /\ call' = [call EXCEPT !.at = "destroy"]
        /\ ending' = arr /\ arr' = AA!Nothing
        /\ UNCHANGED << vec, tmp, expect, spoiled >>
    BY <1>6 DEF AA!DropArr, AA!Goto
  <2>2. /\ call' \in [op : ArrayOps, n : Nat, at : ArrayPlaces]
        /\ call'.op = "drop arr" /\ call'.at = "destroy"
    BY <1>3, <2>1, CallAt DEF ArrayPlaces
  <2>3. AllBuilt'
    BY <1>1, <2>1, Passed
  <2>4. Held' /\ ~misused'
    BY <1>1, <1>2, <2>1, NothingBuilt DEF ArrayInv, Held, Apart
  <2>5. ArrayTypes'
    BY <1>1, <1>3, <2>1, <2>2 DEF ArrayInv, ArrayTypes
  <2>6. CallInv' /\ ContentInv'
    BY <1>1, <1>2, <2>1, <2>2 DEF ArrayInv, CallInv, ContentInv, AA!Grows, AA!Replaces
  <2> QED  BY <2>3, <2>4, <2>5, <2>6 DEF ArrayInv
<1> QED
  BY <1>4, <1>5, <1>6

LEMMA ArrayReturns ==
  ASSUME ArrayInv, AA!AddThrows \/ AA!ResizeEnd
  PROVE  ArrayInv'
<1>1. /\ call.at = "work" /\ call' = AA!Idle
      /\ UNCHANGED << store, owned, vec, arr, tmp, ending, failed, expect, spoiled, serial, misused >>
  BY DEF AA!AddThrows, AA!ResizeEnd, AA!At, AA!Return, AA!Stay
<1> QED
  BY <1>1, IdleCall, OnlyCall

LEMMA ArrayCalls ==
  ASSUME ArrayInv, AA!Calls
  PROVE  ArrayInv'
<1>1. vec.pos \in Nat /\ MaxSize \in Nat
  BY ArrayFacts, ArraysAssumption
<1>2. {"add", "addAll", "resize", "removeLast", "heapArray", "release", "drop vec", "drop arr"}
         \subseteq ArrayOps
  BY DEF ArrayOps
<1>3. /\ \A n \in 1 .. MaxSize - vec.pos : n \in Nat /\ n > 0
      /\ \A n \in 0 .. MaxSize : n \in Nat
      /\ \A n \in 1 .. MaxSize : n \in Nat
  BY <1>1
<1>4. CASE AA!Begin("add", 0)
  BY <1>2, <1>4, ArrayBegins
<1>5. CASE \E n \in 1 .. MaxSize - vec.pos : AA!Begin("addAll", n)
  BY <1>2, <1>3, <1>5, ArrayBegins
<1>6. CASE \E n \in 0 .. MaxSize : AA!Begin("resize", n)
  BY <1>2, <1>3, <1>6, ArrayBegins
<1>7. CASE AA!Begin("removeLast", 0)
  BY <1>2, <1>7, ArrayBegins
<1>8. CASE \E n \in 1 .. MaxSize : AA!Begin("heapArray", n)
  BY <1>2, <1>3, <1>8, ArrayBegins
<1>9. CASE \E op \in {"release", "drop vec", "drop arr"} : AA!Begin(op, 0)
  BY <1>2, <1>9, ArrayBegins
<1> QED
  BY <1>4, <1>5, <1>6, <1>7, <1>8, <1>9 DEF AA!Calls

LEMMA ArrayNextInv == ArrayInv /\ [AA!Next]_arrays => ArrayInv'
<1> SUFFICES ASSUME ArrayInv, [AA!Next]_arrays  PROVE ArrayInv'
  OBVIOUS
<1>1. CASE AA!Calls \/ AA!Allocate \/ AA!OutOfMemory \/ AA!NoAllocation
  BY <1>1, ArrayCalls, ArrayAllocates, ArrayNoMemory, ArrayNoAllocation
<1>2. CASE AA!Building
  BY <1>2, ArrayMoves, ArrayMakes, ArrayBuildThrows, ArrayMoveEnds, ArrayMakeEnds DEF AA!Building
<1>3. CASE AA!Working
  BY <1>3, ArrayAdds, ArrayReturns, ArrayHands, ArrayCopies, ArrayRemoves DEF AA!Working
<1>4. CASE \E throws \in BOOLEAN : AA!DestroyOne(throws)
  BY <1>4, ArrayDestroys
<1>5. CASE AA!DestroyEnd
  BY <1>5, ArrayDestroyEnds
<1>6. CASE UNCHANGED arrays
  BY <1>6 DEF arrays, ArrayInv, ArrayTypes, AllBuilt, Built, Held, Apart, CallInv, ContentInv,
              Handle, Sound, Says, Room, Enough, AA!Grows, AA!Replaces
<1> QED
  BY <1>1, <1>2, <1>3, <1>4, <1>5, <1>6 DEF AA!Next

\* What the invariant says of the memory, and of the elements of the vector.
LEMMA ArrayInvEnough == ArrayInv => AA!EachDestroyedOnce /\ AA!KeepsContent
<1> SUFFICES ASSUME ArrayInv  PROVE AA!EachDestroyedOnce /\ AA!KeepsContent
  OBVIOUS
<1>1. /\ vec.block = Null <=> vec = AA!Nothing
      /\ arr.block = Null <=> arr = AA!Nothing
      /\ tmp.block = Null <=> tmp = AA!Nothing
      /\ ending.block = Null <=> ending = AA!Nothing
  BY ArrayFacts, HandleFacts
<1>2. ~misused /\ owned = {h.block : h \in AA!Holders}
  BY <1>1 DEF ArrayInv, Held, AA!Holders
<1>3. \A g, h \in AA!Holders : g.block = h.block => g = h
  BY <1>1 DEF ArrayInv, Held, Apart, AA!Holders
<1>4. ASSUME NEW h \in AA!Holders
      PROVE  \A i \in DOMAIN store[h.block] : store[h.block][i] = AA!Raw <=> i > h.pos
  <2>1. Handle(store, h) /\ Sound(store, h) /\ h # AA!Nothing /\ store \in [Block -> Seq(Int)]
    BY ArrayFacts DEF AA!Holders
  <2>2. store[h.block] \in Seq(Int) /\ Filled(store[h.block], h.pos)
    BY <2>1, HandleFacts DEF Sound
  <2>3. DOMAIN store[h.block] = 1 .. Len(store[h.block])
    BY <2>2, LenProperties
  <2> QED  BY <2>2, <2>3 DEF Filled, AA!Raw
<1>5. ASSUME call.at = "idle", ~spoiled  PROVE AA!Content(vec) = expect
  <2>1. Says(store, vec, expect) /\ expect \in Seq(Int)
    BY <1>5 DEF ArrayInv, ContentInv, ArrayTypes
  <2>2. store \in [Block -> Seq(Int)] /\ Handle(store, vec)
    BY ArrayFacts
  <2>3. CASE vec = AA!Nothing
    <3>1. Len(expect) = 0
      BY <2>1, <2>3, NothingBuilt DEF Says, Reads
    <3>2. expect = << >>
      BY <2>1, <3>1, EmptySeq
    <3> QED  BY <2>3, <3>2, NothingBuilt DEF AA!Content
  <2>4. CASE vec # AA!Nothing
    <3> DEFINE r == store[vec.block]
               n == vec.pos
    <3>1. r \in Seq(Int) /\ n \in Nat /\ n <= Len(r) /\ Len(r) \in Nat
      BY <2>2, <2>4, HandleFacts, LenProperties
    <3>2. Len(expect) = n /\ \A i \in 1 .. n : r[i] = expect[i]
      BY <2>1 DEF Says, Reads
    <3>3. AA!Content(vec) = SubSeq(r, 1, n)
      BY <1>1, <2>4 DEF AA!Content
    <3> HIDE DEF r, n
    <3> DEFINE d == SubSeq(r, 1, n)
    <3>4. \A i \in 1 .. n : r[i] \in Int
      BY <3>1, ElementOfSeq
    <3>5. d \in Seq(Int) /\ Len(d) = n /\ \A i \in 1 .. n : d[i] = r[i]
      BY <3>1, <3>4, SubSeqProperties
    <3> HIDE DEF d
    <3>6. d = expect
      BY <2>1, <3>2, <3>5, SeqEqual
    <3> QED  BY <3>3, <3>6 DEF d
  <2> QED  BY <2>3, <2>4
<1>6. AA!KeepsContent
  BY <1>5 DEF AA!KeepsContent, AA!At
<1> QED
  BY <1>2, <1>3, <1>4, <1>6 DEF AA!EachDestroyedOnce

\* Vectors and arrays (array.h:56-57, 65-70, vector.h:33-37): whatever constructor or
\* destructor throws and whenever memory runs out, no element is built over another
\* or destroyed twice, nothing leaks, and a vector keeps its elements in order.
THEOREM ElementsAlwaysKept == MemorySpec => []ElementsAreKept
<1>1. MemoryInit => ArrayInv
  BY ArrayInitInv DEF MemoryInit
<1>2. ArrayInv /\ [MemoryNext]_memory => ArrayInv'
  BY ArrayNextInv DEF MemoryNext, memory
<1>3. ArrayInv => ElementsAreKept
  BY ArrayInvEnough DEF ElementsAreKept
<1> QED
  BY <1>1, <1>2, <1>3, PTL DEF MemorySpec

-----------------------------------------------------------------------------
(* Arenas.                                                                 *)

LEMMA Multiple ==
  ASSUME NEW k \in Nat, NEW a \in Nat \ {0}
  PROVE  (k * a) % a = 0
  OBVIOUS

LEMMA Quotient ==
  ASSUME NEW x \in Nat, NEW a \in Nat \ {0}
  PROVE  /\ x % a \in 0 .. a - 1 /\ x - (x % a) = (x \div a) * a /\ x \div a \in Nat
         /\ x % a = 0 => x = (x \div a) * a
         /\ \E q \in Nat : x = q * a + (x % a)
<1>1. /\ x % a \in 0 .. a - 1 /\ x - (x % a) = (x \div a) * a /\ x \div a \in Nat
      /\ x % a = 0 => x = (x \div a) * a
  OBVIOUS
<1> DEFINE q == x \div a
           r == x % a
<1>2. q \in Nat /\ r \in Nat /\ x - r = q * a
  BY <1>1
<1> HIDE DEF q, r
<1>3. x = q * a + r
  BY <1>2
<1> QED  BY <1>1, <1>2, <1>3 DEF r

\* What divides a divisor divides.
LEMMA Divides ==
  ASSUME NEW x \in Nat, NEW a \in Nat \ {0}, NEW d \in Nat \ {0}, x % a = 0, a % d = 0
  PROVE  x % d = 0
<1>1. PICK k \in Nat : x = k * a
  BY Quotient
<1>2. PICK m \in Nat : a = m * d
  BY Quotient
<1>3. x = (k * m) * d /\ k * m \in Nat
  BY <1>1, <1>2
<1> QED  BY <1>3, Multiple

LEMMA Remainder ==
  ASSUME NEW n \in Nat, NEW a \in Nat \ {0}, NEW r \in 0 .. a - 1
  PROVE  (n * a + r) % a = r
<1> DEFINE t == n * a + r
<1>1. t \in Nat
  OBVIOUS
<1>2. PICK q \in Nat : t = q * a + (t % a) /\ t % a \in 0 .. a - 1
  <2> HIDE DEF t
  <2> QED  BY <1>1, Quotient
<1>3. CASE q = n
  BY <1>1, <1>2, <1>3
<1>4. CASE q < n
  <2>1. (q + 1) * a <= n * a
    BY <1>4
  <2>2. (q + 1) * a = q * a + a
    OBVIOUS
  <2>3. q * a \in Nat /\ n * a \in Nat
    OBVIOUS
  <2> QED  BY <1>1, <1>2, <2>1, <2>2, <2>3
<1>5. CASE n < q
  <2>1. (n + 1) * a <= q * a
    BY <1>5
  <2>2. (n + 1) * a = n * a + a
    OBVIOUS
  <2>3. q * a \in Nat /\ n * a \in Nat
    OBVIOUS
  <2> QED  BY <1>1, <1>2, <2>1, <2>2, <2>3
<1> QED  BY <1>3, <1>4, <1>5

\* A multiple of a does not change the rest.
LEMMA RestStays ==
  ASSUME NEW x \in Nat, NEW y \in Nat, NEW a \in Nat \ {0}, x % a = 0
  PROVE  (x + y) % a = y % a
<1>1. PICK k \in Nat : x = k * a
  BY Quotient
<1>2. PICK m \in Nat : y = m * a + (y % a) /\ y % a \in 0 .. a - 1
  BY Quotient
<1> DEFINE r == y % a
<1>3. r \in 0 .. a - 1
  BY <1>2
<1>4. x + y = (k + m) * a + r /\ k + m \in Nat
  <2>1. y = m * a + r
    BY <1>2
  <2> HIDE DEF r
  <2> QED  BY <1>1, <1>3, <2>1
<1> HIDE DEF r
<1>5. (x + y) % a = r
  BY <1>3, <1>4, Remainder
<1> QED  BY <1>5 DEF r

\* Rounding up to a multiple.
Up(x, a) == (x + a - 1) - ((x + a - 1) % a)

LEMMA UpFacts ==
  ASSUME NEW x \in Nat, NEW a \in Nat \ {0}
  PROVE  Up(x, a) \in Nat /\ x <= Up(x, a) /\ Up(x, a) < x + a /\ Up(x, a) % a = 0
<1> DEFINE t == x + a - 1
<1>1. t \in Nat
  OBVIOUS
<1>2. t % a \in 0 .. a - 1 /\ t - (t % a) = (t \div a) * a /\ t \div a \in Nat
  <2> HIDE DEF t
  <2> QED  BY <1>1, Quotient
<1>3. ((t \div a) * a) % a = 0
  <2> HIDE DEF t
  <2> QED  BY <1>2, Multiple
<1>4. Up(x, a) = t - (t % a)
  BY DEF Up
<1> HIDE DEF t
<1>5. Up(x, a) % a = 0
  BY <1>2, <1>3, <1>4
<1>6. x <= t - (t % a) /\ t - (t % a) < x + a
  <2> DEFINE r == t % a
  <2>1. r \in 0 .. a - 1
    BY <1>2
  <2> HIDE DEF r
  <2> QED  BY <2>1 DEF t, r
<1>7. Up(x, a) \in Int
  BY <1>1, <1>2, <1>4
<1> QED  BY <1>4, <1>5, <1>6, <1>7

LEMMA UpShifts ==
  ASSUME NEW x \in Nat, NEW y \in Nat, NEW a \in Nat \ {0}, x % a = 0
  PROVE  Up(x + y, a) = x + Up(y, a)
<1> DEFINE s == y + a - 1
<1>1. s \in Nat
  OBVIOUS
<1>2. (x + s) % a = s % a
  <2> HIDE DEF s
  <2> QED  BY <1>1, RestStays
<1>3. Up(x + y, a) = (x + s) - ((x + s) % a)
  <2>1. (x + y) + a - 1 = x + s
    OBVIOUS
  <2> HIDE DEF s
  <2> QED  BY <2>1 DEF Up
<1>4. Up(y, a) = s - (s % a)
  BY DEF Up
<1>5. s % a \in Int
  BY <1>1
<1> HIDE DEF s
<1> QED  BY <1>1, <1>2, <1>3, <1>4, <1>5

\* alignTo of an offset and of a size that does not wrap.
LEMMA AlignPosFacts ==
  ASSUME NEW c, c.residue \in Nat, NEW offset \in Nat, NEW a \in Nat \ {0}
  PROVE  LET p == AR!AlignPos(c, offset, a)
         IN  /\ p = Up(c.residue + offset, a) - c.residue
             /\ p \in Nat /\ offset <= p /\ p < offset + a /\ (c.residue + p) % a = 0
<1> DEFINE x == c.residue + offset
           p == AR!AlignPos(c, offset, a)
<1>1. x \in Nat
  OBVIOUS
<1>2. p = Up(x, a) - c.residue
  BY DEF AR!AlignPos, Up
<1>3. Up(x, a) \in Nat /\ x <= Up(x, a) /\ Up(x, a) < x + a /\ Up(x, a) % a = 0
  <2> HIDE DEF x
  <2> QED  BY <1>1, UpFacts
<1> DEFINE u == Up(x, a)
<1> HIDE DEF u, p
<1>4. p = u - c.residue /\ u \in Nat /\ x <= u /\ u < x + a /\ u % a = 0
  BY <1>2, <1>3 DEF u
<1>5. c.residue + p = u
  BY <1>4
<1> QED  BY <1>2, <1>4, <1>5 DEF p

LEMMA AlignSizeFacts ==
  ASSUME NEW s \in Nat, NEW a \in Nat \ {0}, s + a <= SizeRange
  PROVE  AR!AlignSize(s, a) = Up(s, a)
<1> DEFINE t == s + a - 1
<1>1. t \in Nat /\ t < SizeRange
  BY ArenaAssumption
<1>2. t % SizeRange = t
  <2> HIDE DEF t
  <2> QED  BY <1>1, ArenaAssumption
<1> QED  BY <1>2 DEF AR!AlignSize, Up

\* Induction over the natural numbers, stated with a set: what is left out of T would
\* have a least element.
LEMMA Induction ==
  ASSUME NEW T, 0 \in T, \A n \in Nat : n \in T => n + 1 \in T
  PROVE  \A n \in Nat : n \in T
<1> DEFINE R == {p \in Nat \X Nat : p[1] < p[2]}
           Out == Nat \ T
<1> SUFFICES ASSUME Out # {}  PROVE FALSE
  OBVIOUS
<1>1. IsWellFoundedOn(R, Nat)
  BY NatLessThanWellFounded DEF OpToRel
<1>2. \A n \in Nat : n # 0 => << n - 1, n >> \in R
  OBVIOUS
<1> HIDE DEF R
<1>3. PICK x \in Out : \A y \in Out : << y, x >> \notin R
  <2>1. Out \subseteq Nat
    OBVIOUS
  <2> HIDE DEF Out
  <2> QED  BY <1>1, <2>1, WFMin
<1>4. x - 1 \in Out /\ x # 0
  <2>1. x \in Nat \ {0}
    OBVIOUS
  <2>2. (x - 1) + 1 = x /\ x - 1 \in Nat
    BY <2>1
  <2> QED  BY <2>1, <2>2
<1> QED  BY <1>2, <1>3, <1>4

\* Doubling ends, as long as the amount is not half as large as a size_t can be.
LEMMA DoubledFacts ==
  ASSUME nextChunkSize \in 1 .. SizeRange, NEW amount \in Nat, 2 * amount <= SizeRange
  PROVE  AR!Doubled(amount) \in 1 .. SizeRange /\ amount <= AR!Doubled(amount)
<1> DEFINE D == 1 .. SizeRange
           T(f) == [n \in D |-> IF n < amount THEN f[2 * n] ELSE n]
           Good(f, n) == /\ f[n] = IF n < amount THEN f[2 * n] ELSE n
                         /\ f[n] \in D /\ amount <= f[n]
           Done == {d \in Nat : \E f \in [D -> D] : \A n \in D : SizeRange - d < n => Good(f, n)}
<1>0. SizeRange \in Nat
  BY ArenaAssumption
<1>1. 0 \in Done
  <2>1. [n \in D |-> n] \in [D -> D]
    OBVIOUS
  <2>2. \A n \in D : ~(SizeRange - 0 < n)
    BY <1>0
  <2> HIDE DEF D, Good
  <2> QED  BY <2>1, <2>2
<1>2. ASSUME NEW d \in Nat, d \in Done  PROVE d + 1 \in Done
  <2>1. PICK f \in [D -> D] : \A n \in D : SizeRange - d < n => Good(f, n)
    BY <1>2
  <2> DEFINE k == SizeRange - d
             v == IF k < amount THEN f[2 * k] ELSE k
             g == [f EXCEPT ![k] = v]
  <2>2. CASE k \notin D
    <3>1. \A n \in D : SizeRange - (d + 1) < n => SizeRange - d < n
      BY <1>0, <2>2
    <3> HIDE DEF D, Good
    <3> QED  BY <2>1, <3>1
  <2>3. CASE k \in D
    <3>0. k \in Nat /\ 0 < k
      BY <2>3
    <3>1. v \in D /\ amount <= v
      <4>1. CASE k < amount
        <5>1. 2 * k \in D /\ SizeRange - d < 2 * k
          BY <1>0, <2>3, <4>1
        <5>2. Good(f, 2 * k)
          <6> HIDE DEF D, Good
          <6> QED  BY <2>1, <5>1
        <5> QED  BY <4>1, <5>2
      <4>2. CASE ~(k < amount)
        BY <2>3, <3>0, <4>2
      <4> QED  BY <4>1, <4>2
    <3> HIDE DEF v
    <3>2. g \in [D -> D] /\ g[k] = v /\ \A n \in D \ {k} : g[n] = f[n]
      <4> HIDE DEF D, k
      <4> QED  BY <2>3, <3>1
    <3> HIDE DEF g
    <3>3. ASSUME NEW n \in D, SizeRange - (d + 1) < n  PROVE Good(g, n)
      <4>0. n < amount => 2 * n \in D /\ 2 * n # k
        BY <1>0, <3>0, <3>3
      <4>1. CASE n = k
        BY <3>1, <3>2, <4>0, <4>1 DEF v
      <4>2. CASE n # k
        <5>1. Good(f, n)
          <6>1. SizeRange - d < n
            BY <1>0, <3>3, <4>2
          <6> HIDE DEF D, Good
          <6> QED  BY <2>1, <6>1
        <5>2. g[n] = f[n] /\ (n < amount => g[2 * n] = f[2 * n])
          BY <3>2, <4>0, <4>2
        <5> QED  BY <5>1, <5>2
      <4> QED  BY <4>1, <4>2
    <3> HIDE DEF D, Good
    <3> QED  BY <3>2, <3>3
  <2> QED  BY <2>2, <2>3
<1>3. SizeRange \in Done
  <2> HIDE DEF Done
  <2> QED  BY <1>0, <1>1, <1>2, Induction
<1>4. PICK f \in [D -> D] : \A n \in D : Good(f, n)
  <2>1. PICK f \in [D -> D] : \A n \in D : SizeRange - SizeRange < n => Good(f, n)
    BY <1>3
  <2>2. \A n \in D : SizeRange - SizeRange < n
    BY <1>0
  <2> HIDE DEF D, Good
  <2> QED  BY <2>1, <2>2
<1> DEFINE F == CHOOSE h : h = T(h)
<1>5. F = T(F)
  <2>1. f = T(f)
    BY <1>4
  <2> HIDE DEF T
  <2> QED  BY <2>1
\* It is the only one: where it differs from f, the largest place is not one.
<1> DEFINE Same == {d \in Nat : \A n \in D : SizeRange - d < n => F[n] = f[n]}
<1>6. 0 \in Same
  BY <1>0
<1>7. ASSUME NEW d \in Nat, d \in Same  PROVE d + 1 \in Same
  <2> SUFFICES ASSUME NEW n \in D, SizeRange - (d + 1) < n  PROVE F[n] = f[n]
    OBVIOUS
  <2> HIDE DEF F
  <2>1. F[n] = IF n < amount THEN F[2 * n] ELSE n
    BY <1>5
  <2>2. f[n] = IF n < amount THEN f[2 * n] ELSE n
    BY <1>4
  <2>3. n < amount => 2 * n \in D /\ SizeRange - d < 2 * n
    BY <1>0
  <2>4. n < amount => F[2 * n] = f[2 * n]
    BY <1>7, <2>3
  <2> QED  BY <2>1, <2>2, <2>4
<1>8. SizeRange \in Same
  <2> HIDE DEF Same
  <2> QED  BY <1>0, <1>6, <1>7, Induction
<1>9. F[nextChunkSize] = f[nextChunkSize]
  <2> HIDE DEF F
  <2>1. SizeRange - SizeRange < nextChunkSize
    BY <1>0
  <2> QED  BY <1>8, <2>1
<1>10. AR!Doubled(amount) = F[nextChunkSize]
  BY DEF AR!Doubled
<1> HIDE DEF F
<1> QED  BY <1>4, <1>9, <1>10

Bytes(req) == req.size * AR!Larger(req.elements, 1)
Prefix(req) == IF req.managed /\ req.elements > 0 THEN AR!Larger(req.align, PointerSize) ELSE 0
Widest(req) == AR!Larger(req.align, PointerSize)

LEMMA HeaderFacts ==
  /\ PointerSize \in Nat \ {0} /\ SizeRange \in Nat \ {0} /\ NewAlign \in Nat \ {0}
  /\ AR!ChunkHeader \in Nat \ {0} /\ AR!ObjectHeader \in Nat /\ AR!ObjectHeader <= AR!ChunkHeader
  BY ArenaAssumption DEF AR!ChunkHeader, AR!ObjectHeader

\* What is asked for, and what that takes with a header in front.
LEMMA RequestFacts ==
  ASSUME NEW req \in Allocations
  PROVE  /\ req.align \in Nat \ {0} /\ req.managed \in BOOLEAN /\ req.elements \in Nat
         /\ Widest(req) \in Nat \ {0} /\ Widest(req) <= NewAlign /\ NewAlign % Widest(req) = 0
         /\ Widest(req) % req.align = 0 /\ Widest(req) % PointerSize = 0
         /\ AR!Larger(Widest(req), PointerSize) = Widest(req)
         /\ AR!Alignment(req) = IF req.managed THEN Widest(req) ELSE req.align
         /\ Bytes(req) \in Nat /\ Prefix(req) \in {0, Widest(req)}
         /\ AR!Amount(req) \in Nat
         /\ AR!Amount(req) = IF req.managed
                             THEN Bytes(req) + Up(AR!ObjectHeader, Widest(req)) + Prefix(req)
                             ELSE Bytes(req)
         /\ 2 * (AR!Amount(req) + AR!ChunkHeader + NewAlign) <= SizeRange
         /\ Prefix(req) = IF req.managed /\ req.elements > 0 THEN Widest(req) ELSE 0
<1> DEFINE L == Widest(req)
<1>1. /\ req.size \in Nat /\ req.align \in Nat \ {0} /\ req.managed \in BOOLEAN
      /\ req.elements \in Nat
  BY ArenaAssumption
<1>2. /\ L \in Nat \ {0} /\ NewAlign % L = 0 /\ L % req.align = 0 /\ L % PointerSize = 0
      /\ AR!Larger(L, PointerSize) = L
      /\ 2 * (AR!Amount(req) + AR!ChunkHeader + NewAlign) <= SizeRange
  BY <1>1, ArenaAssumption DEF Widest, AR!Larger
<1> HIDE DEF L
<1>3. L <= NewAlign
  <2>1. PICK k \in Nat : NewAlign = k * L
    BY <1>2, HeaderFacts, Quotient
  <2>2. k # 0
    BY <1>2, <2>1, HeaderFacts
  <2> QED  BY <1>2, <2>1, <2>2
<1>4. Bytes(req) \in Nat
  BY <1>1 DEF Bytes, AR!Larger
<1>5. Prefix(req) = IF req.managed /\ req.elements > 0 THEN L ELSE 0
  BY DEF Prefix, Widest, L
<1>6. AR!Amount(req) = IF req.managed
                       THEN Bytes(req) + AR!AlignSize(AR!ObjectHeader, L) + Prefix(req)
                       ELSE Bytes(req)
  <2>1. CASE ~req.managed
    BY <2>1 DEF AR!Amount, Bytes
  <2>2. CASE req.managed
    BY <2>2 DEF AR!Amount, Bytes, Prefix, L, Widest
  <2> QED  BY <2>1, <2>2
<1>7. AR!AlignSize(AR!ObjectHeader, L) \in Nat
  <2> DEFINE t == (AR!ObjectHeader + L - 1) % SizeRange
  <2>1. t \in Nat
    BY <1>2, HeaderFacts
  <2>2. AR!AlignSize(AR!ObjectHeader, L) = t - (t % L)
    BY DEF AR!AlignSize
  <2> HIDE DEF t
  <2>3. t - (t % L) = (t \div L) * L /\ t \div L \in Nat
    BY <1>2, <2>1, Quotient
  <2> QED  BY <1>2, <2>2, <2>3
<1>8. AR!Amount(req) \in Nat
  BY <1>2, <1>4, <1>5, <1>6, <1>7
<1>9. AR!ObjectHeader + L <= SizeRange
  BY <1>2, <1>3, <1>8, HeaderFacts
<1>10. AR!AlignSize(AR!ObjectHeader, L) = Up(AR!ObjectHeader, L)
  BY <1>2, <1>9, HeaderFacts, AlignSizeFacts
<1>11. AR!Alignment(req) = IF req.managed THEN L ELSE req.align
  BY DEF AR!Alignment, L, Widest
<1> QED
  BY <1>1, <1>2, <1>3, <1>4, <1>5, <1>6, <1>8, <1>10, <1>11 DEF L

\* An object that begins at an aligned place has its header in front and its elements
\* behind it.
LEMMA ObjectPlaced ==
  ASSUME NEW c, c.residue \in Nat, NEW from \in Nat, NEW req \in Allocations,
         (c.residue + from) % AR!Alignment(req) = 0
  PROVE  LET s == AR!Start(c, from, req)
         IN  /\ s \in Nat /\ s + Prefix(req) + Bytes(req) <= from + AR!Amount(req)
             /\ (c.residue + s + Prefix(req)) % req.align = 0
             /\ req.managed => /\ s - AR!ObjectHeader >= from
                               /\ (c.residue + s) % PointerSize = 0
<1> DEFINE s == AR!Start(c, from, req)
           L == Widest(req)
           x == c.residue + from
           u == Up(AR!ObjectHeader, L)
<1>0. x \in Nat
  OBVIOUS
<1>1. CASE ~req.managed
  <2>1. s = from /\ Prefix(req) = 0 /\ AR!Amount(req) = Bytes(req) /\ Bytes(req) \in Nat
        /\ AR!Alignment(req) = req.align
    BY <1>1, RequestFacts DEF AR!Start
  <2>2. c.residue + s + Prefix(req) = x
    BY <2>1
  <2> HIDE DEF s, x
  <2> QED  BY <1>1, <2>1, <2>2 DEF s, x
<1>2. CASE req.managed
  <2>1. /\ L \in Nat \ {0} /\ L % req.align = 0 /\ L % PointerSize = 0
        /\ Prefix(req) \in {0, L} /\ Bytes(req) \in Nat /\ AR!Alignment(req) = L
        /\ AR!Amount(req) = Bytes(req) + u + Prefix(req) /\ req.align \in Nat \ {0}
    BY <1>2, RequestFacts
  <2>2. u \in Nat /\ AR!ObjectHeader <= u /\ u % L = 0
    BY <2>1, HeaderFacts, UpFacts
  <2>3. s = AR!AlignPos(c, from + AR!ObjectHeader, L)
    BY <1>2, <2>1 DEF AR!Start
  <2>4. /\ s = Up(c.residue + (from + AR!ObjectHeader), L) - c.residue
        /\ s \in Nat /\ (c.residue + s) % L = 0
    <3>1. from + AR!ObjectHeader \in Nat
      BY HeaderFacts
    <3> HIDE DEF s, L
    <3> QED  BY <2>1, <2>3, <3>1, AlignPosFacts
  <2>5. Up(x + AR!ObjectHeader, L) = x + u
    <3> HIDE DEF x, L
    <3>1. x % L = 0
      BY <2>1 DEF x
    <3> QED  BY <1>0, <2>1, <3>1, HeaderFacts, UpShifts
  <2>6. c.residue + (from + AR!ObjectHeader) = x + AR!ObjectHeader
    BY HeaderFacts
  <2> HIDE DEF s, L, u
  <2>7. s = from + u
    <3>1. s = (x + u) - c.residue
      BY <2>4, <2>5, <2>6
    <3> QED  BY <2>2, <3>1 DEF x
  <2>8. /\ (c.residue + s + Prefix(req)) % L = 0
        /\ c.residue + s + Prefix(req) \in Nat
    <3> DEFINE y == c.residue + s
               p == Prefix(req)
    <3>1. y \in Nat /\ y % L = 0
      BY <2>4
    <3>2. p \in Nat /\ p % L = 0
      BY <2>1
    <3> HIDE DEF y, p
    <3>3. (y + p) % L = p % L
      BY <2>1, <3>1, <3>2, RestStays
    <3>4. y + p \in Nat
      BY <3>1, <3>2
    <3>5. (y + p) % L = 0
      BY <3>2, <3>3
    <3> QED  BY <3>4, <3>5 DEF y, p
  <2>9. (c.residue + s + Prefix(req)) % req.align = 0
    <3> DEFINE y == c.residue + s + Prefix(req)
    <3>1. y \in Nat /\ y % L = 0
      BY <2>8
    <3> HIDE DEF y
    <3>2. y % req.align = 0
      BY <2>1, <3>1, Divides
    <3> QED  BY <3>2 DEF y
  <2>10. (c.residue + s) % PointerSize = 0
    <3> DEFINE y == c.residue + s
    <3>1. y \in Nat /\ y % L = 0
      BY <2>4
    <3> HIDE DEF y
    <3>2. y % PointerSize = 0
      BY <2>1, <3>1, HeaderFacts, Divides
    <3> QED  BY <3>2 DEF y
  <2>11. s + Prefix(req) + Bytes(req) <= from + AR!Amount(req)
    BY <2>1, <2>2, <2>7
  <2>12. s - AR!ObjectHeader >= from
    BY <2>2, <2>7, HeaderFacts
  <2> QED  BY <2>4, <2>9, <2>10, <2>11, <2>12 DEF s
<1> QED  BY <1>1, <1>2

\* Where the allocations are: what Disjoint says of them, for any chunks cs and any
\* allocations bs.
ChunkType == [size : Nat, pos : Nat, residue : Nat, ours : BOOLEAN]
BlockType == [chunk : Nat, from : Nat, start : Nat, to : Nat, req : Allocations]

ChunksOK(cs) ==
    /\ cs \in Seq(ChunkType)
    /\ \A i \in DOMAIN cs : AR!ChunkHeader <= cs[i].pos /\ cs[i].pos <= cs[i].size

InChunk(b, c) ==
    /\ AR!ChunkHeader <= b.from /\ b.to <= c.pos /\ c.pos <= c.size
    /\ b.start + Prefix(b.req) + Bytes(b.req) <= b.to
    /\ (c.residue + b.start + Prefix(b.req)) % b.req.align = 0
    /\ b.req.managed => /\ b.start - AR!ObjectHeader >= b.from
                        /\ (c.residue + b.start) % PointerSize = 0

BlocksApart(bs) ==
    \A i \in DOMAIN bs : \A j \in 1 .. i - 1 : bs[j].chunk = bs[i].chunk => bs[j].to <= bs[i].from

BlocksOK(cs, bs) ==
    /\ bs \in Seq(BlockType)
    /\ \A i \in DOMAIN bs : bs[i].chunk \in DOMAIN cs /\ InChunk(bs[i], cs[bs[i].chunk])
    /\ BlocksApart(bs)

SpaceInv ==
    /\ nextChunkSize \in 1 .. SizeRange
    /\ ChunksOK(chunks) /\ BlocksOK(chunks, blocks)

\* That is enough for every allocation to have bytes of its own.
LEMMA SpaceInvDisjoint == SpaceInv => AR!Disjoint
<1> SUFFICES ASSUME SpaceInv, NEW i \in DOMAIN blocks
             PROVE  InChunk(blocks[i], chunks[blocks[i].chunk])
                    /\ \A j \in 1 .. i - 1 : blocks[j].chunk = blocks[i].chunk
                                             => blocks[j].to <= blocks[i].from
  BY DEF AR!Disjoint, InChunk, Prefix, Bytes
<1> QED  BY DEF SpaceInv, BlocksOK, BlocksApart

LEMMA SpaceInit == ASSUME AR!Init  PROVE SpaceInv
<1>1. nextChunkSize \in 1 .. SizeRange
  <2>1. CASE \E hint \in Hints : nextChunkSize = AR!Larger(AR!ChunkHeader, hint)
    <3>1. PICK hint \in Hints : nextChunkSize = AR!Larger(AR!ChunkHeader, hint)
      BY <2>1
    <3>2. hint \in 0 .. SizeRange - 1
      BY ArenaAssumption
    <3> QED  BY <3>1, <3>2, HeaderFacts, ArenaAssumption DEF AR!Larger
  <2>2. CASE \E scratch \in Scratches : nextChunkSize = AR!Larger(AR!ChunkHeader, scratch.size)
    <3>1. PICK scratch \in Scratches : nextChunkSize = AR!Larger(AR!ChunkHeader, scratch.size)
      BY <2>2
    <3>2. scratch.size \in 0 .. SizeRange - 1
      BY ArenaAssumption
    <3> QED  BY <3>1, <3>2, HeaderFacts, ArenaAssumption DEF AR!Larger
  <2> QED  BY <2>1, <2>2 DEF AR!Init
<1>2. ChunksOK(chunks)
  <2>1. CASE chunks = << >>
    BY <2>1 DEF ChunksOK
  <2>2. CASE \E scratch \in Scratches :
                /\ scratch.size > AR!ChunkHeader
                /\ chunks = << [size |-> scratch.size, pos |-> AR!ChunkHeader,
                                residue |-> scratch.residue, ours |-> FALSE] >>
    <3>1. PICK scratch \in Scratches :
                /\ scratch.size > AR!ChunkHeader
                /\ chunks = << [size |-> scratch.size, pos |-> AR!ChunkHeader,
                                residue |-> scratch.residue, ours |-> FALSE] >>
      BY <2>2
    <3>2. scratch.size \in Nat /\ scratch.residue \in Nat
      BY ArenaAssumption
    <3> DEFINE c == [size |-> scratch.size, pos |-> AR!ChunkHeader,
                     residue |-> scratch.residue, ours |-> FALSE]
    <3>3. c \in ChunkType /\ AR!ChunkHeader <= c.pos /\ c.pos <= c.size
      BY <3>1, <3>2, HeaderFacts DEF ChunkType
    <3>4. chunks = << c >>
      BY <3>1
    <3> HIDE DEF c
    <3> QED  BY <3>3, <3>4 DEF ChunksOK
  <2> QED  BY <2>1, <2>2 DEF AR!Init
<1>3. blocks = << >>
  BY DEF AR!Init
<1>4. BlocksOK(chunks, blocks)
  BY <1>3 DEF BlocksOK, BlocksApart
<1> QED  BY <1>1, <1>2, <1>4 DEF SpaceInv

\* Chunks that stay where they are and fill up keep their allocations.
LEMMA ChunksFill ==
  ASSUME NEW cs, NEW ds, NEW bs, ChunksOK(cs), ChunksOK(ds), BlocksOK(cs, bs),
         \A i \in DOMAIN cs : /\ i \in DOMAIN ds
                              /\ ds[i].residue = cs[i].residue /\ cs[i].pos <= ds[i].pos
  PROVE  BlocksOK(ds, bs)
<1> SUFFICES ASSUME NEW i \in DOMAIN bs
             PROVE  bs[i].chunk \in DOMAIN ds /\ InChunk(bs[i], ds[bs[i].chunk])
  BY DEF BlocksOK
<1> DEFINE b == bs[i]
           n == b.chunk
<1>1. n \in DOMAIN cs /\ InChunk(b, cs[n])
  BY DEF BlocksOK
<1>2. n \in DOMAIN ds /\ ds[n].residue = cs[n].residue /\ cs[n].pos <= ds[n].pos
  BY <1>1
<1>3. b \in BlockType
  BY DEF BlocksOK
<1>4. cs[n] \in ChunkType /\ ds[n] \in ChunkType /\ ds[n].pos <= ds[n].size
  BY <1>1, <1>2 DEF ChunksOK
<1> HIDE DEF b, n
<1>5. b.to <= ds[n].pos
  <2>1. b.to <= cs[n].pos
    BY <1>1 DEF InChunk
  <2>2. b.to \in Nat /\ cs[n].pos \in Nat /\ ds[n].pos \in Nat
    BY <1>3, <1>4 DEF BlockType, ChunkType
  <2> QED  BY <1>2, <2>1, <2>2
<1>6. InChunk(b, ds[n])
  BY <1>1, <1>2, <1>4, <1>5 DEF InChunk
<1> QED  BY <1>2, <1>6 DEF b, n

\* An allocation behind those that its chunk has.
LEMMA BlockAdded ==
  ASSUME NEW cs, NEW bs, NEW b \in BlockType, BlocksOK(cs, bs),
         b.chunk \in DOMAIN cs, InChunk(b, cs[b.chunk]),
         \A j \in DOMAIN bs : bs[j].chunk = b.chunk => bs[j].to <= b.from
  PROVE  BlocksOK(cs, Append(bs, b))
<1> DEFINE as == Append(bs, b)
<1>1. bs \in Seq(BlockType)
  BY DEF BlocksOK
<1>2. /\ as \in Seq(BlockType) /\ DOMAIN as = 1 .. Len(bs) + 1 /\ DOMAIN bs = 1 .. Len(bs)
      /\ Len(bs) \in Nat
      /\ \A i \in 1 .. Len(bs) : as[i] = bs[i]
      /\ as[Len(bs) + 1] = b
  BY <1>1
<1> DEFINE n == Len(bs)
<1> HIDE DEF as, n
<1>a. /\ as \in Seq(BlockType) /\ DOMAIN as = 1 .. n + 1 /\ DOMAIN bs = 1 .. n
      /\ n \in Nat /\ as[n + 1] = b
      /\ \A i \in 1 .. n : as[i] = bs[i]
  BY <1>2 DEF n
<1>3. ASSUME NEW i \in 1 .. n + 1
      PROVE  as[i].chunk \in DOMAIN cs /\ InChunk(as[i], cs[as[i].chunk])
  <2>1. CASE i = n + 1
    BY <1>a, <2>1
  <2>2. CASE i # n + 1
    <3>1. i \in 1 .. n
      BY <1>a, <2>2
    <3>2. bs[i].chunk \in DOMAIN cs /\ InChunk(bs[i], cs[bs[i].chunk])
      BY <1>a, <3>1, Zenon DEF BlocksOK
    <3>3. as[i] = bs[i]
      BY <1>a, <3>1
    <3> QED  BY <3>2, <3>3
  <2> QED  BY <2>1, <2>2
<1>4. ASSUME NEW i \in 1 .. n + 1, NEW j \in 1 .. i - 1, as[j].chunk = as[i].chunk
      PROVE  as[j].to <= as[i].from
  <2>0. j \in 1 .. n
    BY <1>a
  <2>1. j \in DOMAIN bs /\ as[j] = bs[j]
    BY <1>a, <2>0
  <2>2. CASE i = n + 1
    BY <1>a, <1>4, <2>1, <2>2
  <2>3. CASE i # n + 1
    <3>0. i \in 1 .. n
      BY <1>a, <2>3
    <3>1. i \in DOMAIN bs /\ as[i] = bs[i]
      BY <1>a, <3>0
    <3> QED  BY <1>4, <2>1, <3>1 DEF BlocksOK, BlocksApart
  <2> QED  BY <2>2, <2>3
<1>5. \A i \in DOMAIN as : as[i].chunk \in DOMAIN cs /\ InChunk(as[i], cs[as[i].chunk])
  BY <1>a, <1>3, Zenon
<1>6. BlocksApart(as)
  BY <1>a, <1>4, Zenon DEF BlocksApart
<1> QED  BY <1>a, <1>5, <1>6 DEF BlocksOK, as

\* The step that every allocation ends with, for what allocateBytesInternal() returned.
LEMMA Placed ==
  ASSUME SpaceInv, NEW req \in Allocations, NEW r, ChunksOK(r.chunks), r.from \in Nat,
         \A i \in DOMAIN chunks : /\ i \in DOMAIN r.chunks
                                  /\ r.chunks[i].residue = chunks[i].residue
                                  /\ chunks[i].pos <= r.chunks[i].pos,
         NEW n \in DOMAIN r.chunks, n = Len(r.chunks),
         (r.chunks[n].residue + r.from) % AR!Alignment(req) = 0,
         AR!ChunkHeader <= r.from, r.from + AR!Amount(req) <= r.chunks[n].pos,
         \A j \in DOMAIN blocks : blocks[j].chunk = n => blocks[j].to <= r.from,
         AR!Place(req, r)
  PROVE  ChunksOK(chunks') /\ BlocksOK(chunks', blocks')
<1> DEFINE cs == r.chunks
           c == cs[n]
           s == AR!Start(c, r.from, req)
           b == [chunk |-> n, from |-> r.from, req |-> req, start |-> s,
                 to |-> r.from + AR!Amount(req)]
<1>1. chunks' = cs /\ blocks' = Append(blocks, b)
  BY DEF AR!Place
<1>2. c \in ChunkType /\ c.residue \in Nat /\ c.pos <= c.size /\ n \in Nat
  <2>1. c \in ChunkType /\ c.pos <= c.size
    BY DEF ChunksOK
  <2>2. n \in Nat
    BY DEF ChunksOK
  <2> QED  BY <2>1, <2>2 DEF ChunkType
<1>3. /\ s \in Nat /\ s + Prefix(req) + Bytes(req) <= r.from + AR!Amount(req)
      /\ (c.residue + s + Prefix(req)) % req.align = 0
      /\ req.managed => /\ s - AR!ObjectHeader >= r.from
                        /\ (c.residue + s) % PointerSize = 0
  BY <1>2, ObjectPlaced
<1>4. AR!Amount(req) \in Nat
  BY RequestFacts
<1>5. b \in BlockType /\ b.chunk = n /\ b.from = r.from
  BY <1>2, <1>3, <1>4 DEF BlockType
<1>6. InChunk(b, c)
  <2>1. b.from = r.from /\ b.req = req /\ b.start = s /\ b.to = r.from + AR!Amount(req)
    OBVIOUS
  <2> HIDE DEF c, s, b
  <2>2. AR!ChunkHeader <= b.from /\ b.to <= c.pos /\ c.pos <= c.size
    BY <1>2, <2>1 DEF c
  <2> QED  BY <1>3, <2>1, <2>2, Zenon DEF InChunk
<1>7. BlocksOK(cs, blocks)
  <2> HIDE DEF c, s, b
  <2> QED  BY ChunksFill DEF SpaceInv
<1>8. \A j \in DOMAIN blocks : blocks[j].chunk = b.chunk => blocks[j].to <= b.from
  BY <1>5
<1> HIDE DEF b
<1>9. BlocksOK(cs, Append(blocks, b))
  BY <1>5, <1>6, <1>7, <1>8, BlockAdded
<1> QED  BY <1>1, <1>9

LEMMA AlignmentFacts ==
  ASSUME NEW req \in Allocations
  PROVE  /\ AR!Alignment(req) \in Nat \ {0} /\ AR!Alignment(req) <= NewAlign
         /\ Widest(req) % AR!Alignment(req) = 0
         /\ AR!Larger(AR!Alignment(req), PointerSize) = Widest(req)
<1>1. /\ req.align \in Nat \ {0} /\ Widest(req) \in Nat \ {0} /\ Widest(req) <= NewAlign
      /\ Widest(req) % req.align = 0
      /\ AR!Larger(Widest(req), PointerSize) = Widest(req)
      /\ AR!Alignment(req) = IF req.managed THEN Widest(req) ELSE req.align
  BY RequestFacts
<1>2. CASE req.managed
  BY <1>1, <1>2
<1>3. CASE ~req.managed
  <2>1. AR!Larger(req.align, PointerSize) = Widest(req) /\ req.align <= Widest(req)
    BY <1>1, HeaderFacts DEF Widest, AR!Larger
  <2> QED  BY <1>1, <1>3, <2>1, HeaderFacts
<1> QED  BY <1>2, <1>3

\* A chunk that ends where its last allocation does, or before the new one begins.
LEMMA BlocksEnd ==
  ASSUME SpaceInv
  PROVE  \A j \in DOMAIN blocks : /\ blocks[j].chunk \in DOMAIN chunks /\ blocks[j].to \in Nat
                                  /\ blocks[j].to <= chunks[blocks[j].chunk].pos
<1> TAKE j \in DOMAIN blocks
<1>1. blocks[j] \in BlockType
  BY DEF SpaceInv, BlocksOK
<1>2. blocks[j].to \in Nat
  BY <1>1 DEF BlockType
<1> QED  BY <1>2 DEF SpaceInv, BlocksOK, InChunk

LEMMA SpaceInCurrent ==
  ASSUME SpaceInv, NEW req \in Allocations, AR!HasRoom(req),
         AR!Place(req, AR!InCurrentChunk(AR!Amount(req), AR!Alignment(req)))
  PROVE  SpaceInv'
<1> DEFINE n == Len(chunks)
           c == chunks[n]
           a == AR!Alignment(req)
           m == AR!Amount(req)
           at == AR!AlignPos(c, c.pos, a)
           cs == [chunks EXCEPT ![n].pos = at + m]
           r == AR!InCurrentChunk(m, a)
<1>1. chunks \in Seq(ChunkType) /\ n \in DOMAIN chunks /\ n \in Nat
  BY DEF SpaceInv, ChunksOK, AR!HasRoom
<1>2. /\ c \in ChunkType /\ c.size \in Nat /\ c.pos \in Nat /\ c.residue \in Nat
      /\ AR!ChunkHeader <= c.pos /\ c.pos <= c.size
  <2>1. c \in ChunkType /\ AR!ChunkHeader <= c.pos /\ c.pos <= c.size
    BY <1>1 DEF SpaceInv, ChunksOK
  <2> QED  BY <2>1 DEF ChunkType
<1>3. /\ a \in Nat \ {0} /\ m \in Nat /\ a <= NewAlign
      /\ 2 * (m + AR!ChunkHeader + NewAlign) <= SizeRange
  BY AlignmentFacts, RequestFacts
<1>4. (m + (at - c.pos)) % SizeRange <= c.size - c.pos
  BY DEF AR!HasRoom, AR!Fits
<1>5. r.from = at /\ r.chunks = cs /\ r.next = nextChunkSize
  BY DEF AR!InCurrentChunk
<1>6. at \in Nat /\ c.pos <= at /\ at < c.pos + a /\ (c.residue + at) % a = 0
  <2> HIDE DEF c, a
  <2> QED  BY <1>2, <1>3, AlignPosFacts
<1> HIDE DEF at, a, m, c, n, r
<1>7. m + (at - c.pos) \in 0 .. SizeRange - 1
  BY <1>2, <1>3, <1>6, HeaderFacts
<1>8. at + m <= c.size
  <2> DEFINE t == m + (at - c.pos)
  <2>1. t \in Nat /\ t < SizeRange
    BY <1>2, <1>3, <1>6, <1>7, HeaderFacts
  <2>2. t % SizeRange <= c.size - c.pos
    BY <1>4
  <2> HIDE DEF t
  <2>3. t <= c.size - c.pos
    BY <2>1, <2>2, HeaderFacts
  <2> QED  BY <1>2, <1>3, <1>6, <2>3 DEF t
<1>9. /\ cs \in Seq(ChunkType) /\ Len(cs) = n /\ DOMAIN cs = DOMAIN chunks
      /\ cs[n] = [c EXCEPT !.pos = at + m] /\ \A i \in DOMAIN chunks : i # n => cs[i] = chunks[i]
  <2> DEFINE d == [c EXCEPT !.pos = at + m]
  <2>1. d \in ChunkType
    BY <1>2, <1>3, <1>6 DEF ChunkType
  <2>2. cs = [chunks EXCEPT ![n] = d]
    BY DEF c
  <2> HIDE DEF d, cs
  <2>3. cs \in Seq(ChunkType) /\ Len(cs) = n /\ DOMAIN cs = DOMAIN chunks
    BY <1>1, <2>1, <2>2 DEF n
  <2>4. cs[n] = d /\ \A i \in DOMAIN chunks : i # n => cs[i] = chunks[i]
    BY <1>1, <2>2
  <2> QED  BY <2>3, <2>4 DEF d
<1> HIDE DEF cs
<1>10. cs[n].pos = at + m /\ cs[n].size = c.size /\ cs[n].residue = c.residue
  BY <1>2, <1>9 DEF ChunkType
<1>11. ChunksOK(cs)
  <2>1. ASSUME NEW i \in DOMAIN cs  PROVE AR!ChunkHeader <= cs[i].pos /\ cs[i].pos <= cs[i].size
    <3>1. CASE i = n
      <4>1. AR!ChunkHeader <= at + m
        BY <1>2, <1>3, <1>6, HeaderFacts
      <4> QED  BY <1>8, <1>10, <3>1, <4>1
    <3>2. CASE i # n
      BY <1>9, <3>2 DEF SpaceInv, ChunksOK
    <3> QED  BY <3>1, <3>2
  <2> QED  BY <1>9, <2>1 DEF ChunksOK
<1>12. ASSUME NEW i \in DOMAIN chunks
       PROVE  i \in DOMAIN cs /\ cs[i].residue = chunks[i].residue /\ chunks[i].pos <= cs[i].pos
  <2>1. CASE i = n
    <3>1. c.pos <= at + m
      BY <1>2, <1>3, <1>6
    <3> QED  BY <1>9, <1>10, <2>1, <3>1 DEF c
  <2>2. CASE i # n
    <3>0. chunks[i] \in ChunkType
      BY <1>1
    <3>1. chunks[i].pos \in Nat
      BY <3>0 DEF ChunkType
    <3> QED  BY <1>9, <2>2, <3>1
  <2> QED  BY <2>1, <2>2
<1>13. ASSUME NEW j \in DOMAIN blocks, blocks[j].chunk = n  PROVE blocks[j].to <= at
  <2>1. blocks[j].to \in Nat /\ blocks[j].to <= c.pos
    BY <1>13, BlocksEnd DEF c
  <2> QED  BY <1>2, <1>6, <2>1
<1>14. AR!ChunkHeader <= at
  BY <1>2, <1>6, HeaderFacts
<1>15. ChunksOK(chunks') /\ BlocksOK(chunks', blocks')
  <2>1. AR!Place(req, r)
    BY DEF r, a, m
  <2>2. at + m <= cs[n].pos /\ n \in DOMAIN cs
    BY <1>1, <1>3, <1>6, <1>9, <1>10
  <2>3. (cs[n].residue + at) % a = 0
    BY <1>6, <1>10
  <2> QED
    BY <1>5, <1>6, <1>9, <1>11, <1>12, <1>13, <1>14, <2>1, <2>2, <2>3, Placed DEF a, m
<1>16. nextChunkSize' = nextChunkSize
  BY <1>5 DEF AR!Place, r, a, m
<1> QED  BY <1>15, <1>16 DEF SpaceInv

\* A new chunk, as allocateBytesInternal() makes it.
LEMMA NewChunkFacts ==
  ASSUME SpaceInv, NEW req \in Allocations, NEW residue \in {0, NewAlign}
  PROVE  LET r == AR!InNewChunk(AR!Amount(req), AR!Alignment(req), residue)
             n == Len(chunks) + 1
             c == r.chunks[n]
         IN  /\ r.chunks = Append(chunks, c) /\ n \in Nat /\ AR!Last(r.chunks) = c
             /\ c \in ChunkType /\ c.residue = residue /\ c.size \in 1 .. SizeRange
             /\ c.pos <= c.size /\ r.next = (2 * c.size) % SizeRange
             /\ r.from \in Nat /\ AR!ChunkHeader <= r.from /\ c.pos = r.from + AR!Amount(req)
             /\ (residue + r.from) % AR!Alignment(req) = 0
<1> DEFINE L == Widest(req)
           h == Up(AR!ChunkHeader, L)
           m == AR!Amount(req)
           a == AR!Alignment(req)
           r == AR!InNewChunk(m, a, residue)
           total == (m + AR!AlignSize(AR!ChunkHeader, L)) % SizeRange
           size == AR!Doubled(total)
           c == [size |-> size, pos |-> total, residue |-> residue, ours |-> TRUE]
           n == Len(chunks) + 1
<1>1. /\ L \in Nat \ {0} /\ L <= NewAlign /\ NewAlign % L = 0 /\ m \in Nat
      /\ 2 * (m + AR!ChunkHeader + NewAlign) <= SizeRange
      /\ a \in Nat \ {0} /\ L % a = 0 /\ AR!Larger(a, PointerSize) = L
  BY RequestFacts, AlignmentFacts
<1>2. chunks \in Seq(ChunkType) /\ n \in Nat
  BY DEF SpaceInv, ChunksOK
<1>3. /\ r.chunks = Append(chunks, c) /\ r.next = (2 * size) % SizeRange
      /\ r.from = AR!AlignPos(c, AR!ChunkHeader, L)
  BY <1>1 DEF AR!InNewChunk
<1>4. residue \in Nat /\ residue % L = 0
  <2>1. 0 % L = 0
    BY <1>1
  <2> QED  BY <1>1, <2>1, HeaderFacts
<1>5. h \in Nat /\ AR!ChunkHeader <= h /\ h < AR!ChunkHeader + L /\ h % L = 0
  <2> HIDE DEF L
  <2> QED  BY <1>1, HeaderFacts, UpFacts
<1>6. AR!AlignSize(AR!ChunkHeader, L) = h
  <2> HIDE DEF L, m, a
  <2>1. AR!ChunkHeader + L <= SizeRange
    BY <1>1, HeaderFacts
  <2> QED  BY <1>1, <2>1, HeaderFacts, AlignSizeFacts
<1>7. total = m + h /\ total \in Nat /\ 2 * total <= SizeRange
  <2>1. total = (m + h) % SizeRange
    BY <1>6
  <2> HIDE DEF L, m, a, h, total
  <2>2. m + h \in Nat /\ 2 * (m + h) <= SizeRange /\ m + h < SizeRange
    BY <1>1, <1>5, HeaderFacts
  <2> DEFINE t == m + h
  <2>3. t \in Nat /\ t < SizeRange
    BY <2>2
  <2> HIDE DEF t
  <2>4. t % SizeRange = t
    BY <2>3, HeaderFacts
  <2> QED  BY <2>1, <2>2, <2>4 DEF t
<1>8. size \in 1 .. SizeRange /\ total <= size
  <2> HIDE DEF total
  <2> QED  BY <1>7, DoubledFacts DEF SpaceInv
<1> HIDE DEF L, h, m, a, total, size
<1>9. c \in ChunkType /\ c.residue = residue /\ c.size = size /\ c.pos = total
  BY <1>4, <1>7, <1>8, HeaderFacts DEF ChunkType
<1> HIDE DEF c
<1>10. /\ r.from = Up(c.residue + AR!ChunkHeader, L) - c.residue
       /\ r.from \in Nat /\ (c.residue + r.from) % L = 0
  <2> DEFINE p == AR!AlignPos(c, AR!ChunkHeader, L)
  <2>1. /\ p = Up(c.residue + AR!ChunkHeader, L) - c.residue
        /\ p \in Nat /\ (c.residue + p) % L = 0
    BY <1>1, <1>4, <1>9, HeaderFacts, AlignPosFacts
  <2>2. r.from = p
    BY <1>3
  <2> HIDE DEF p, r
  <2> QED  BY <2>1, <2>2
<1>11. Up(residue + AR!ChunkHeader, L) = residue + h
  BY <1>1, <1>4, HeaderFacts, UpShifts DEF h
<1>12. r.from = h
  <2>1. r.from = (residue + h) - residue
    BY <1>9, <1>10, <1>11
  <2> QED  BY <1>4, <1>5, <2>1
<1> HIDE DEF r
<1>13. (residue + r.from) % a = 0
  <2> DEFINE x == residue + r.from
  <2>1. x \in Nat /\ x % L = 0
    BY <1>4, <1>9, <1>10
  <2> HIDE DEF x
  <2>2. x % a = 0
    BY <1>1, <2>1, Divides
  <2> QED  BY <2>2 DEF x
<1>14. r.chunks[n] = c /\ AR!Last(r.chunks) = c
  <2>1. Len(r.chunks) = n /\ r.chunks[n] = c
    BY <1>2, <1>3
  <2> QED  BY <2>1 DEF AR!Last
<1>15. c.pos = r.from + m
  BY <1>1, <1>5, <1>7, <1>9, <1>12
<1> QED
  BY <1>2, <1>3, <1>5, <1>8, <1>9, <1>10, <1>12, <1>13, <1>14, <1>15 DEF r, m, a

LEMMA SpaceInNew ==
  ASSUME SpaceInv, NEW req \in Allocations, NEW residue \in {0, NewAlign},
         AR!Last(AR!InNewChunk(AR!Amount(req), AR!Alignment(req), residue).chunks).size <= Memory,
         AR!Place(req, AR!InNewChunk(AR!Amount(req), AR!Alignment(req), residue))
  PROVE  SpaceInv'
<1> DEFINE r == AR!InNewChunk(AR!Amount(req), AR!Alignment(req), residue)
           n == Len(chunks) + 1
           cs == r.chunks
           c == cs[n]
<1>1. /\ cs = Append(chunks, c) /\ n \in Nat /\ AR!Last(cs) = c
      /\ c \in ChunkType /\ c.residue = residue /\ c.size \in 1 .. SizeRange
      /\ c.pos <= c.size /\ r.next = (2 * c.size) % SizeRange
      /\ r.from \in Nat /\ AR!ChunkHeader <= r.from /\ c.pos = r.from + AR!Amount(req)
      /\ (residue + r.from) % AR!Alignment(req) = 0
  BY NewChunkFacts
<1>2. c.size <= Memory /\ AR!Place(req, r)
  BY <1>1
<1> HIDE DEF r
<1>3. chunks \in Seq(ChunkType)
  BY DEF SpaceInv, ChunksOK
<1>4. /\ cs \in Seq(ChunkType) /\ Len(cs) = n /\ n \in DOMAIN cs
      /\ DOMAIN cs = DOMAIN chunks \cup {n} /\ n \notin DOMAIN chunks
      /\ \A i \in DOMAIN chunks : cs[i] = chunks[i]
  <2> HIDE DEF cs, c
  <2> QED  BY <1>1, <1>3
<1>5. AR!Amount(req) \in Nat
  BY RequestFacts
<1>6. ChunksOK(cs)
  <2>1. AR!ChunkHeader <= c.pos
    <3> DEFINE m == AR!Amount(req)
               f == r.from
               p == c.pos
    <3>1. m \in Nat /\ f \in Nat /\ AR!ChunkHeader <= f /\ p = f + m
      BY <1>1, <1>5
    <3> HIDE DEF m, f, p
    <3>2. AR!ChunkHeader <= p
      BY <3>1, HeaderFacts
    <3> QED  BY <3>2 DEF p
  <2>2. ASSUME NEW i \in DOMAIN cs  PROVE AR!ChunkHeader <= cs[i].pos /\ cs[i].pos <= cs[i].size
    <3>1. CASE i = n
      BY <1>1, <2>1, <3>1
    <3>2. CASE i # n
      BY <1>4, <3>2 DEF SpaceInv, ChunksOK
    <3> QED  BY <3>1, <3>2
  <2> QED  BY <1>4, <2>2 DEF ChunksOK
<1>7. ASSUME NEW i \in DOMAIN chunks
      PROVE  i \in DOMAIN cs /\ cs[i].residue = chunks[i].residue /\ chunks[i].pos <= cs[i].pos
  <2>1. chunks[i] \in ChunkType
    BY <1>3
  <2>2. chunks[i].pos \in Nat
    BY <2>1 DEF ChunkType
  <2> QED  BY <1>4, <2>2
<1>8. \A j \in DOMAIN blocks : blocks[j].chunk # n
  BY <1>4, BlocksEnd
<1>9. r.from + AR!Amount(req) <= c.pos
  BY <1>1, <1>5
<1>10. ChunksOK(chunks') /\ BlocksOK(chunks', blocks')
  BY <1>1, <1>2, <1>4, <1>6, <1>7, <1>8, <1>9, Placed
<1>11. nextChunkSize' \in 1 .. SizeRange
  <2>1. nextChunkSize' = (2 * c.size) % SizeRange
    BY <1>1, <1>2 DEF AR!Place
  <2> DEFINE x == 2 * c.size
  <2>2. x \in Nat /\ 0 < x /\ x < SizeRange
    <3> DEFINE z == c.size
    <3>1. z \in 1 .. SizeRange /\ z <= Memory
      BY <1>1, <1>2
    <3>2. Memory \in Nat /\ 2 * Memory < SizeRange /\ SizeRange \in Nat
      BY ArenaAssumption
    <3> HIDE DEF z
    <3>3. 2 * z \in Nat /\ 0 < 2 * z /\ 2 * z < SizeRange
      BY <3>1, <3>2
    <3> QED  BY <3>3 DEF z
  <2> HIDE DEF x
  <2>3. x % SizeRange = x
    BY <2>2, HeaderFacts
  <2> QED  BY <2>1, <2>2, <2>3, HeaderFacts DEF x
<1> QED  BY <1>10, <1>11 DEF SpaceInv

LEMMA SpaceOutOfMemory ==
  ASSUME SpaceInv, NEW req \in Allocations, AR!OutOfMemory(req)
  PROVE  SpaceInv'
<1> DEFINE r == AR!InNewChunk(AR!Amount(req), AR!Alignment(req), 0)
<1>1. nextChunkSize' = AR!Last(r.chunks).size /\ chunks' = chunks /\ blocks' = blocks
  BY DEF AR!OutOfMemory
<1>2. AR!Last(r.chunks).size \in 1 .. SizeRange
  BY NewChunkFacts
<1> QED  BY <1>1, <1>2 DEF SpaceInv

LEMMA SpaceDeleteChunks ==
  ASSUME SpaceInv, AR!DeleteChunks
  PROVE  SpaceInv'
<1> DEFINE ours(i) == chunks[i].ours /\ ~AR!Contains(chunkList, i)
<1>1. /\ chunks' = [i \in DOMAIN chunks |-> [chunks[i] EXCEPT !.ours = ours(i)]]
      /\ blocks' = blocks /\ nextChunkSize' = nextChunkSize
  BY DEF AR!DeleteChunks
<1>2. \A i \in DOMAIN chunks : ours(i) \in BOOLEAN
  BY DEF AR!Contains
<1> HIDE DEF ours
<1>3. chunks \in Seq(ChunkType)
  BY DEF SpaceInv, ChunksOK
<1>4. \A i \in DOMAIN chunks : /\ chunks'[i] \in ChunkType
                               /\ chunks'[i].size = chunks[i].size
                               /\ chunks'[i].pos = chunks[i].pos
                               /\ chunks'[i].residue = chunks[i].residue
  <2> TAKE i \in DOMAIN chunks
  <2>1. chunks[i] \in ChunkType
    BY <1>3
  <2>2. chunks'[i] = [chunks[i] EXCEPT !.ours = ours(i)]
    BY <1>1
  <2> QED  BY <1>2, <2>1, <2>2 DEF ChunkType
<1>5. DOMAIN chunks' = DOMAIN chunks
  BY <1>1
<1>6. chunks' \in Seq(ChunkType)
  <2>1. chunks' = [i \in 1 .. Len(chunks) |-> chunks'[i]] /\ Len(chunks) \in Nat
    <3>1. DOMAIN chunks = 1 .. Len(chunks) /\ Len(chunks) \in Nat
      BY <1>3
    <3> QED  BY <1>1, <3>1
  <2>2. \A i \in 1 .. Len(chunks) : chunks'[i] \in ChunkType
    BY <1>3, <1>4
  <2> QED  BY <2>1, <2>2
<1>7. ChunksOK(chunks')
  BY <1>4, <1>5, <1>6 DEF SpaceInv, ChunksOK
<1>8. \A i \in DOMAIN chunks : /\ i \in DOMAIN chunks' /\ chunks'[i].residue = chunks[i].residue
                               /\ chunks[i].pos <= chunks'[i].pos
  <2> TAKE i \in DOMAIN chunks
  <2>1. chunks[i] \in ChunkType
    BY <1>3
  <2>2. chunks[i].pos \in Nat
    BY <2>1 DEF ChunkType
  <2> QED  BY <1>4, <1>5, <2>2
<1>9. BlocksOK(chunks', blocks)
  BY <1>7, <1>8, ChunksFill DEF SpaceInv
<1> QED  BY <1>1, <1>7, <1>9 DEF SpaceInv

LEMMA SpaceNext ==
  ASSUME SpaceInv, [AR!Next]_arena
  PROVE  SpaceInv'
<1>1. ASSUME NEW req \in Allocations, NEW residue \in {0, NewAlign}, AR!Allocate(req, residue)
      PROVE  SpaceInv'
  <2>1. CASE AR!HasRoom(req)
    <3>1. AR!Place(req, AR!InCurrentChunk(AR!Amount(req), AR!Alignment(req)))
      BY <1>1, <2>1 DEF AR!Allocate
    <3> QED  BY <2>1, <3>1, SpaceInCurrent
  <2>2. CASE ~AR!HasRoom(req)
    <3> DEFINE r == AR!InNewChunk(AR!Amount(req), AR!Alignment(req), residue)
    <3>1. AR!Last(r.chunks).size <= Memory /\ AR!Place(req, r)
      BY <1>1, <2>2 DEF AR!Allocate
    <3> QED  BY <3>1, SpaceInNew
  <2> QED  BY <2>1, <2>2
<1>2. ASSUME UNCHANGED << nextChunkSize, chunks, blocks >>  PROVE SpaceInv'
  BY <1>2 DEF SpaceInv
<1>3. CASE AR!Constructed \/ AR!ConstructorThrows
  BY <1>2, <1>3 DEF AR!Constructed, AR!ConstructorThrows
<1>4. CASE AR!Destroy \/ AR!TakeObject \/ AR!ObjectGone \/ AR!CleanupThrows
  BY <1>2, <1>4 DEF AR!Destroy, AR!TakeObject, AR!ObjectGone, AR!CleanupThrows
<1>5. ASSUME NEW throws \in BOOLEAN, AR!DestroyElement(throws)  PROVE SpaceInv'
  BY <1>2, <1>5 DEF AR!DestroyElement
<1>6. CASE UNCHANGED arena
  BY <1>2, <1>6 DEF arena
<1> QED
  BY <1>1, <1>3, <1>4, <1>5, <1>6, SpaceOutOfMemory, SpaceDeleteChunks DEF AR!Next

\* A list with one more in front.
LEMMA Behind ==
  ASSUME NEW l \in Seq(Nat), NEW id \in Nat
  PROVE  LET m == << id >> \o l
         IN  /\ m \in Seq(Nat) /\ m # << >> /\ m[1] = id /\ Len(m) = Len(l) + 1
             /\ \A k \in DOMAIN l : k + 1 \in DOMAIN m /\ m[k + 1] = l[k]
             /\ \A k \in DOMAIN m : k # 1 => k - 1 \in DOMAIN l /\ m[k] = l[k - 1]
  OBVIOUS

\* Which chunks are to be deleted: those of operator new, and no others.
Listed(i, cl) == \E k \in DOMAIN cl : cl[k] = i

OursInv ==
    /\ chunkList \in Seq(Nat)
    /\ \A i \in DOMAIN chunks : chunks[i].ours => Listed(i, chunkList)
    /\ phase = "gone" => chunkList = << >>

LEMMA OursInit == ASSUME AR!Init  PROVE OursInv
<1>1. chunkList = << >> /\ phase = "alive"
  BY DEF AR!Init
<1>2. ASSUME NEW i \in DOMAIN chunks  PROVE ~chunks[i].ours
  <2>1. CASE chunks = << >>
    BY <2>1
  <2>2. CASE \E scratch \in Scratches :
                chunks = << [size |-> scratch.size, pos |-> AR!ChunkHeader,
                             residue |-> scratch.residue, ours |-> FALSE] >>
    BY <2>2
  <2> QED  BY <2>1, <2>2 DEF AR!Init
<1> QED  BY <1>1, <1>2 DEF OursInv

LEMMA OursNext ==
  ASSUME SpaceInv, OursInv, [AR!Next]_arena
  PROVE  OursInv'
<1>0. chunks \in Seq(ChunkType)
  BY DEF SpaceInv, ChunksOK
<1>1. ASSUME NEW req \in Allocations, NEW residue \in {0, NewAlign}, AR!Allocate(req, residue)
      PROVE  OursInv'
  <2>0. phase = "alive" /\ phase' = phase
    BY <1>1 DEF AR!Allocate, AR!Allocates, AR!Unchanged
  <2>1. CASE AR!HasRoom(req)
    <3> DEFINE n == Len(chunks)
    <3>1. PICK at : chunks' = [chunks EXCEPT ![n].pos = at] /\ chunkList' = chunkList
      BY <1>1, <2>1 DEF AR!Allocate, AR!Place, AR!InCurrentChunk
    <3>2. DOMAIN chunks' = DOMAIN chunks
      BY <3>1
    <3>3. ASSUME NEW i \in DOMAIN chunks  PROVE chunks'[i].ours = chunks[i].ours
      <4>1. chunks[i] \in ChunkType
        BY <1>0
      <4>2. CASE i = n
        <5>1. chunks'[i] = [chunks[i] EXCEPT !.pos = at]
          BY <3>1, <4>2
        <5> QED  BY <4>1, <5>1 DEF ChunkType
      <4>3. CASE i # n
        BY <3>1, <4>3
      <4> QED  BY <4>2, <4>3
    <3> QED  BY <2>0, <3>1, <3>2, <3>3 DEF OursInv
  <2>2. CASE ~AR!HasRoom(req)
    <3> DEFINE r == AR!InNewChunk(AR!Amount(req), AR!Alignment(req), residue)
               n == Len(chunks) + 1
    <3>1. chunks' = r.chunks /\ chunkList' = r.list
      BY <1>1, <2>2 DEF AR!Allocate, AR!Place
    <3>2. r.list = << n >> \o chunkList
      BY DEF AR!InNewChunk
    <3>3. r.chunks = Append(chunks, r.chunks[n]) /\ n \in Nat
      BY NewChunkFacts
    <3>4. /\ DOMAIN chunks' = DOMAIN chunks \cup {n}
          /\ \A i \in DOMAIN chunks : chunks'[i] = chunks[i]
      <4> DEFINE c == r.chunks[n]
      <4>1. chunks' = Append(chunks, c)
        BY <3>1, <3>3
      <4> HIDE DEF c
      <4> QED  BY <1>0, <4>1
    <3> HIDE DEF r, n
    <3>5. /\ chunkList' \in Seq(Nat) /\ chunkList'[1] = n /\ 1 \in DOMAIN chunkList'
          /\ \A k \in DOMAIN chunkList : /\ k + 1 \in DOMAIN chunkList'
                                         /\ chunkList'[k + 1] = chunkList[k]
      <4>1. chunkList \in Seq(Nat) /\ n \in Nat /\ chunkList' = << n >> \o chunkList
        BY <3>1, <3>2, <3>3 DEF OursInv
      <4>2. /\ chunkList' \in Seq(Nat) /\ chunkList'[1] = n /\ chunkList' # << >>
            /\ \A k \in DOMAIN chunkList : /\ k + 1 \in DOMAIN chunkList'
                                           /\ chunkList'[k + 1] = chunkList[k]
        BY <4>1, Behind
      <4> QED  BY <4>2
    <3>6. ASSUME NEW i \in DOMAIN chunks', chunks'[i].ours  PROVE Listed(i, chunkList')
      <4>1. CASE i = n
        BY <3>5, <4>1 DEF Listed
      <4>2. CASE i # n
        <5>1. Listed(i, chunkList)
          BY <3>4, <3>6, <4>2 DEF OursInv
        <5> QED  BY <3>5, <5>1 DEF Listed
      <4> QED  BY <4>1, <4>2
    <3> QED  BY <2>0, <3>5, <3>6 DEF OursInv
  <2> QED  BY <2>1, <2>2
<1>2. ASSUME UNCHANGED << chunks, chunkList >>, phase' = "gone" => phase = "gone"  PROVE OursInv'
  BY <1>2 DEF OursInv
<1>3. CASE AR!Constructed \/ AR!ConstructorThrows
  BY <1>2, <1>3 DEF AR!Constructed, AR!ConstructorThrows, AR!Unchanged
<1>4. CASE AR!Destroy \/ AR!TakeObject \/ AR!ObjectGone \/ AR!CleanupThrows
  BY <1>2, <1>4 DEF AR!Destroy, AR!TakeObject, AR!ObjectGone, AR!CleanupThrows
<1>5. ASSUME NEW throws \in BOOLEAN, AR!DestroyElement(throws)  PROVE OursInv'
  BY <1>2, <1>5 DEF AR!DestroyElement
<1>6. ASSUME NEW req \in Allocations, AR!OutOfMemory(req)  PROVE OursInv'
  BY <1>2, <1>6 DEF AR!OutOfMemory, AR!Unchanged
<1>7. CASE UNCHANGED arena
  BY <1>2, <1>7 DEF arena
<1>8. CASE AR!DeleteChunks
  <2>1. chunkList' = << >>
    BY <1>8 DEF AR!DeleteChunks
  <2>2. chunks' = [i \in DOMAIN chunks |->
                      [chunks[i] EXCEPT !.ours = @ /\ ~AR!Contains(chunkList, i)]]
    BY <1>8 DEF AR!DeleteChunks
  <2>3. ASSUME NEW i \in DOMAIN chunks'  PROVE ~chunks'[i].ours
    <3>1. i \in DOMAIN chunks
      BY <2>2
    <3>2. chunks[i] \in ChunkType
      BY <1>0, <3>1
    <3>3. chunks'[i].ours = (chunks[i].ours /\ ~AR!Contains(chunkList, i))
      BY <2>2, <3>1, <3>2 DEF ChunkType
    <3>4. chunks[i].ours => AR!Contains(chunkList, i)
      BY <3>1 DEF OursInv, Listed, AR!Contains
    <3> QED  BY <3>3, <3>4
  <2> QED  BY <2>1, <2>3 DEF OursInv
<1> QED
  BY <1>1, <1>3, <1>4, <1>5, <1>6, <1>7, <1>8 DEF AR!Next

\* What is destroyed, and when.  Line is the object list with the object in front that
\* cleanup() has taken off it.
Line == IF dying = 0 THEN objectList ELSE << dying >> \o objectList

Element == Nat \X Nat

\* The n-th object of an allocation was completed, was destroyed, is neither.
Made(id, n) == Listed(<< id, n >>, built)
Undone(id, n) == Listed(<< id, n >>, destroyed)
Alive(id, n) == id \in DOMAIN blocks /\ blocks[id].req.managed /\ n \in Nat /\ 1 <= n /\ n <= count[id]

\* x is newer on the list than y may be, though it was completed before an element of y.
Around(y, x) == blocks[y].req.elements > 0 /\ y < x

\* The objects of an allocation are completed one after another.
Numbered ==
    \A i, j \in DOMAIN built : i < j =>
       \A id, u, v \in Nat : built[i] = << id, u >> /\ built[j] = << id, v >> => u < v

HistoryOK ==
    /\ built \in Seq(Element) /\ destroyed \in Seq(Element)
    /\ \A id, u \in Nat : /\ Made(id, u) <=> (Alive(id, u) \/ Undone(id, u))
                          /\ ~(Alive(id, u) /\ Undone(id, u))
    /\ \A k, m \in DOMAIN destroyed : destroyed[k] = destroyed[m] => k = m
    /\ Numbered

\* Of two on the list, the newer was completed later, or the older is an array around it.
Stacked ==
    \A p, q \in DOMAIN Line : p < q /\ Line[p] # Line[q] =>
       \A i, j \in DOMAIN built : i < j =>
          \A u, v \in Nat : built[i] = << Line[p], u >> /\ built[j] = << Line[q], v >>
                            => Around(Line[q], Line[p])

LineOK ==
    /\ Line \in Seq(Nat)
    /\ \A k \in DOMAIN Line : Line[k] \in DOMAIN blocks /\ blocks[Line[k]].req.managed
    /\ \A id \in DOMAIN blocks : blocks[id].req.managed /\ count[id] > 0 => Listed(id, Line)
    /\ Stacked

\* An object under construction is not on the list, an array is, and what is newer there
\* is of a later allocation.
FramesOK ==
    /\ frames \in Seq(Nat)
    /\ \A k \in DOMAIN frames : frames[k] \in DOMAIN blocks
    /\ \A j, k \in DOMAIN frames : j < k => frames[j] < frames[k]
    /\ \A k \in DOMAIN frames : blocks[frames[k]].req.managed =>
          IF blocks[frames[k]].req.elements = 0
          THEN count[frames[k]] = 0 /\ ~Listed(frames[k], Line)
          ELSE Listed(frames[k], Line)
    /\ \A p, q \in DOMAIN Line : p < q /\ Listed(Line[q], frames) => Line[q] < Line[p]

OrderOK ==
    /\ \A i, j \in DOMAIN built : i < j =>
          \A x, u, y, v \in Nat :
             built[i] = << x, u >> /\ Undone(x, u) /\ built[j] = << y, v >> /\ Alive(y, v)
             => Around(y, x)
    /\ \A k, l \in DOMAIN destroyed, i, j \in DOMAIN built : k < l /\ i < j =>
          \A x, u, y, v \in Nat :
             /\ built[i] = << x, u >> /\ destroyed[k] = << x, u >>
             /\ built[j] = << y, v >> /\ destroyed[l] = << y, v >>
             => Around(y, x)

LifeInv ==
    /\ count \in Seq(Nat) /\ Len(count) = Len(blocks)
    /\ objectList \in Seq(Nat) /\ dying \in Nat
    /\ HistoryOK /\ LineOK /\ FramesOK /\ OrderOK
    /\ phase = "alive" => dying = 0 /\ destroyed = << >>
    /\ phase # "alive" => frames = << >>
    /\ phase = "gone" => dying = 0 /\ objectList = << >>

LEMMA LifeInit == ASSUME AR!Init  PROVE LifeInv
<1>1. /\ objectList = << >> /\ blocks = << >> /\ count = << >> /\ frames = << >>
      /\ phase = "alive" /\ dying = 0 /\ built = << >> /\ destroyed = << >>
  BY DEF AR!Init
<1>2. Line = << >>
  BY <1>1 DEF Line
<1>3. HistoryOK
  BY <1>1 DEF HistoryOK, Numbered, Made, Undone, Alive, Listed, Element
<1>4. LineOK /\ FramesOK /\ OrderOK
  BY <1>1, <1>2 DEF LineOK, Stacked, FramesOK, OrderOK, Listed
<1> QED  BY <1>1, <1>3, <1>4 DEF LifeInv

\* A block's id is a number.
LEMMA BlockIds ==
  ASSUME SpaceInv
  PROVE  /\ blocks \in Seq(BlockType) /\ Len(blocks) \in Nat /\ DOMAIN blocks = 1 .. Len(blocks)
         /\ \A k \in DOMAIN blocks : /\ k \in Nat \ {0} /\ blocks[k].req \in Allocations
                                     /\ blocks[k].req.managed \in BOOLEAN
                                     /\ blocks[k].req.elements \in Nat
<1>1. blocks \in Seq(BlockType)
  BY DEF SpaceInv, BlocksOK
<1>2. ASSUME NEW k \in DOMAIN blocks
      PROVE  /\ k \in Nat \ {0} /\ blocks[k].req \in Allocations
             /\ blocks[k].req.managed \in BOOLEAN /\ blocks[k].req.elements \in Nat
  <2>1. blocks[k] \in BlockType /\ k \in Nat \ {0}
    BY <1>1
  <2>2. blocks[k].req \in Allocations
    BY <2>1 DEF BlockType
  <2> QED  BY <2>1, <2>2, RequestFacts
<1> QED  BY <1>1, <1>2

\* A sequence with one more behind it.
LEMMA OneMore ==
  ASSUME NEW S, NEW s \in Seq(S), NEW e \in S
  PROVE  LET t == Append(s, e)
             n == Len(s) + 1
         IN  /\ t \in Seq(S) /\ n \in Nat /\ n \notin DOMAIN s /\ n \in DOMAIN t /\ t[n] = e
             /\ DOMAIN t = DOMAIN s \cup {n} /\ \A i \in DOMAIN s : t[i] = s[i] /\ i < n
             /\ \A i \in DOMAIN t : i \in Nat /\ (i < n => i \in DOMAIN s) /\ i <= n
             /\ \A x : Listed(x, t) <=> (Listed(x, s) \/ x = e)
<1> DEFINE t == Append(s, e)
           n == Len(s) + 1
<1>1. /\ t \in Seq(S) /\ n \in Nat /\ n \notin DOMAIN s /\ n \in DOMAIN t /\ t[n] = e
      /\ DOMAIN t = DOMAIN s \cup {n} /\ \A i \in DOMAIN s : t[i] = s[i] /\ i < n
      /\ \A i \in DOMAIN t : i \in Nat /\ (i < n => i \in DOMAIN s) /\ i <= n
  OBVIOUS
<1> HIDE DEF t, n
<1>2. ASSUME NEW x  PROVE Listed(x, t) <=> (Listed(x, s) \/ x = e)
  BY <1>1 DEF Listed
<1> QED  BY <1>1, <1>2 DEF t, n

\* One more in front, and what is on the list then.
LEMMA InFront ==
  ASSUME NEW l \in Seq(Nat), NEW id \in Nat
  PROVE  LET m == << id >> \o l
         IN  /\ m \in Seq(Nat) /\ 1 \in DOMAIN m /\ m[1] = id
             /\ \A k \in DOMAIN m : k \in Nat /\ k >= 1
             /\ \A k \in DOMAIN m : k # 1 => k - 1 \in DOMAIN l /\ m[k] = l[k - 1]
             /\ \A x : Listed(x, m) <=> (x = id \/ Listed(x, l))
<1> DEFINE m == << id >> \o l
<1>1. /\ m \in Seq(Nat) /\ 1 \in DOMAIN m /\ m[1] = id
      /\ \A k \in DOMAIN m : k \in Nat /\ k >= 1
      /\ \A k \in DOMAIN m : k # 1 => k - 1 \in DOMAIN l /\ m[k] = l[k - 1]
      /\ \A k \in DOMAIN l : k + 1 \in DOMAIN m /\ m[k + 1] = l[k]
  OBVIOUS
<1> HIDE DEF m
<1>2. ASSUME NEW x  PROVE Listed(x, m) <=> (x = id \/ Listed(x, l))
  <2>1. ASSUME Listed(x, m)  PROVE x = id \/ Listed(x, l)
    <3>1. PICK k \in DOMAIN m : m[k] = x
      BY <2>1 DEF Listed
    <3> QED  BY <1>1, <3>1 DEF Listed
  <2>2. ASSUME x = id  PROVE Listed(x, m)
    BY <1>1, <2>2 DEF Listed
  <2>3. ASSUME Listed(x, l)  PROVE Listed(x, m)
    <3>1. PICK k \in DOMAIN l : l[k] = x
      BY <2>3 DEF Listed
    <3>2. k + 1 \in DOMAIN m /\ m[k + 1] = x
      BY <1>1, <3>1
    <3> QED  BY <3>2 DEF Listed
  <2> QED  BY <2>1, <2>2, <2>3
<1> QED  BY <1>1, <1>2 DEF m

\* What an element of a history is.
LEMMA Pairs ==
  ASSUME NEW s \in Seq(Element), NEW i \in DOMAIN s
  PROVE  s[i] = << s[i][1], s[i][2] >> /\ s[i][1] \in Nat /\ s[i][2] \in Nat
<1>1. s[i] \in Element
  OBVIOUS
<1> QED  BY <1>1 DEF Element

\* Where the elements of what was built belong, while nothing is destroyed.
LEMMA BuiltInBlocks ==
  ASSUME HistoryOK, destroyed = << >>, NEW i \in DOMAIN built
  PROVE  Alive(built[i][1], built[i][2])
<1>1. built[i] = << built[i][1], built[i][2] >> /\ built[i][1] \in Nat /\ built[i][2] \in Nat
  BY Pairs DEF HistoryOK
<1>2. Made(built[i][1], built[i][2])
  BY <1>1 DEF Made, Listed
<1>3. ~Undone(built[i][1], built[i][2])
  BY DEF Undone, Listed
<1> QED  BY <1>1, <1>2, <1>3 DEF HistoryOK

\* What is made, destroyed and alive is the same when the histories, the blocks and the
\* counts are.
LEMMA SameHistory ==
  ASSUME UNCHANGED << blocks, count, built, destroyed >>
  PROVE  /\ \A id, n : (Made(id, n)' <=> Made(id, n)) /\ (Undone(id, n)' <=> Undone(id, n))
                       /\ (Alive(id, n)' <=> Alive(id, n))
         /\ \A y, x : Around(y, x)' <=> Around(y, x)
         /\ HistoryOK => HistoryOK'
         /\ HistoryOK /\ OrderOK => OrderOK'
  BY DEF Made, Undone, Alive, Around, HistoryOK, Numbered, OrderOK, Listed

LEMMA LifeSame ==
  ASSUME LifeInv, UNCHANGED << blocks, count, frames, built, destroyed >>,
         Line' = Line, objectList' \in Seq(Nat), dying' \in Nat,
         phase' = "alive" => dying' = 0 /\ destroyed = << >>,
         phase' # "alive" => frames = << >>,
         phase' = "gone" => dying' = 0 /\ objectList' = << >>
  PROVE  LifeInv'
<1> DEFINE l == Line
<1>1. HistoryOK' /\ OrderOK'
  BY SameHistory DEF LifeInv
<1>2. Line' = l
  OBVIOUS
<1>3. LineOK /\ FramesOK
  BY DEF LifeInv
<1>4. \A y, x : Around(y, x)' <=> Around(y, x)
  BY SameHistory
<1>5. LineOK'
  BY <1>2, <1>3, <1>4 DEF LineOK, Stacked
<1>6. FramesOK'
  BY <1>2, <1>3 DEF FramesOK
<1> QED  BY <1>1, <1>5, <1>6 DEF LifeInv

LEMMA LifeTakeObject ==
  ASSUME SpaceInv, LifeInv, AR!TakeObject
  PROVE  LifeInv'
<1>1. /\ AR!Cleaning /\ dying = 0 /\ objectList # << >> /\ phase' = phase
      /\ dying' = Head(objectList) /\ objectList' = Tail(objectList)
      /\ UNCHANGED << blocks, count, frames, built, destroyed >>
  BY DEF AR!TakeObject
<1>2. phase # "alive" /\ phase # "gone"
  BY <1>1 DEF AR!Cleaning
<1>3. objectList \in Seq(Nat) /\ Line = objectList
  BY <1>1 DEF LifeInv, Line
<1>4. 1 \in DOMAIN Line /\ Line[1] = Head(objectList)
  BY <1>1, <1>3
<1>5. Head(objectList) \in Nat \ {0}
  <2>1. Line[1] \in DOMAIN blocks
    BY <1>4 DEF LifeInv, LineOK
  <2> QED  BY <1>4, <2>1, BlockIds
<1>6. << Head(objectList) >> \o Tail(objectList) = objectList /\ Tail(objectList) \in Seq(Nat)
  BY <1>1, <1>3
<1>7. Line' = Line
  BY <1>1, <1>3, <1>5, <1>6 DEF Line
<1>8. frames = << >>
  BY <1>2 DEF LifeInv
<1> QED  BY <1>1, <1>2, <1>5, <1>6, <1>7, <1>8, LifeSame

\* The object that is being destroyed is the first of the list.
LEMMA Dying ==
  ASSUME SpaceInv, LifeInv, dying # 0
  PROVE  /\ phase # "alive" /\ phase # "gone" /\ frames = << >>
         /\ dying \in Nat /\ objectList \in Seq(Nat) /\ Line = << dying >> \o objectList
         /\ dying \in DOMAIN blocks /\ blocks[dying].req.managed /\ DOMAIN count = DOMAIN blocks
         /\ 1 \in DOMAIN Line /\ Line[1] = dying
         /\ \A x : Listed(x, Line) => x = dying \/ Listed(x, objectList)
         /\ \A k \in DOMAIN objectList : k \in Nat /\ k >= 1 /\ k + 1 \in DOMAIN Line
                                         /\ Line[k + 1] = objectList[k]
<1>1. /\ phase # "alive" /\ phase # "gone" /\ dying \in Nat /\ objectList \in Seq(Nat)
      /\ Line = << dying >> \o objectList /\ frames = << >>
  BY DEF LifeInv, Line
<1> DEFINE l == << dying >> \o objectList
<1>2. /\ 1 \in DOMAIN l /\ l[1] = dying
      /\ \A x : Listed(x, l) => x = dying \/ Listed(x, objectList)
  BY <1>1, InFront
<1>3. \A k \in DOMAIN objectList : k \in Nat /\ k >= 1 /\ k + 1 \in DOMAIN l
                                   /\ l[k + 1] = objectList[k]
  BY <1>1
<1> HIDE DEF l
<1>4. Line = l
  BY <1>1 DEF l
<1>5. dying \in DOMAIN blocks /\ blocks[dying].req.managed
  BY <1>2, <1>4 DEF LifeInv, LineOK
<1>6. DOMAIN count = DOMAIN blocks
  BY BlockIds DEF LifeInv
<1> QED  BY <1>1, <1>2, <1>3, <1>4, <1>5, <1>6

LEMMA LifeObjectGone ==
  ASSUME SpaceInv, LifeInv, AR!ObjectGone
  PROVE  LifeInv'
<1> DEFINE l == objectList
<1>1. /\ dying # 0 /\ count[dying] = 0 /\ dying' = 0 /\ phase' = phase /\ l' = l
      /\ UNCHANGED << blocks, count, frames, built, destroyed >>
  BY DEF AR!ObjectGone
<1>2. /\ phase # "alive" /\ phase # "gone" /\ frames = << >> /\ l \in Seq(Nat)
      /\ \A x : Listed(x, Line) => x = dying \/ Listed(x, l)
      /\ \A k \in DOMAIN l : k \in Nat /\ k >= 1 /\ k + 1 \in DOMAIN Line
                             /\ Line[k + 1] = l[k]
  BY <1>1, Dying
<1>3. Line' = l
  BY <1>1 DEF Line
<1>4. HistoryOK' /\ OrderOK' /\ \A y, x : Around(y, x)' <=> Around(y, x)
  BY <1>1, SameHistory DEF LifeInv
<1>5. LineOK
  BY DEF LifeInv
<1>6. LineOK'
  <2>1. \A k \in DOMAIN l : l[k] \in DOMAIN blocks /\ blocks[l[k]].req.managed
    BY <1>2, <1>5 DEF LineOK
  <2>2. \A id \in DOMAIN blocks : blocks[id].req.managed /\ count[id] > 0 => Listed(id, l)
    <3> TAKE id \in DOMAIN blocks
    <3> HAVE blocks[id].req.managed /\ count[id] > 0
    <3>1. Listed(id, Line) /\ id # dying
      BY <1>1, <1>5 DEF LineOK
    <3> QED  BY <1>2, <3>1
  <2>3. ASSUME NEW p \in DOMAIN l, NEW q \in DOMAIN l, p < q, l[p] # l[q],
               NEW i \in DOMAIN built, NEW j \in DOMAIN built, i < j,
               NEW u \in Nat, NEW v \in Nat, built[i] = << l[p], u >>, built[j] = << l[q], v >>
        PROVE  Around(l[q], l[p])
    <3>1. p + 1 < q + 1 /\ p + 1 \in DOMAIN Line /\ q + 1 \in DOMAIN Line
          /\ Line[p + 1] = l[p] /\ Line[q + 1] = l[q]
      BY <1>2, <2>3
    <3> QED  BY <1>5, <2>3, <3>1 DEF LineOK, Stacked
  <2>4. Stacked'
    BY <1>1, <1>3, <1>4, <2>3 DEF Stacked
  <2> QED  BY <1>1, <1>2, <1>3, <2>1, <2>2, <2>4 DEF LineOK
<1>7. FramesOK'
  BY <1>1, <1>2, <1>3 DEF FramesOK, Listed
<1> QED  BY <1>1, <1>2, <1>4, <1>6, <1>7 DEF LifeInv

LEMMA LifeDestroyElement ==
  ASSUME SpaceInv, LifeInv, NEW throws \in BOOLEAN, AR!DestroyElement(throws)
  PROVE  LifeInv'
<1> DEFINE c == count[dying]
           e == << dying, c >>
           n == Len(destroyed) + 1
<1>1. /\ dying # 0 /\ c > 0 /\ dying' = dying /\ phase' = phase
      /\ count' = [count EXCEPT ![dying] = @ - 1]
      /\ destroyed' = Append(destroyed, e)
      /\ UNCHANGED << blocks, frames, built, objectList >>
  BY DEF AR!DestroyElement
<1>2. /\ phase # "alive" /\ phase # "gone" /\ frames = << >>
      /\ dying \in Nat /\ objectList \in Seq(Nat) /\ Line = << dying >> \o objectList
      /\ dying \in DOMAIN blocks /\ blocks[dying].req.managed /\ DOMAIN count = DOMAIN blocks
      /\ 1 \in DOMAIN Line /\ Line[1] = dying
  BY <1>1, Dying
<1>3. /\ count \in Seq(Nat) /\ Len(count) = Len(blocks) /\ HistoryOK /\ LineOK /\ OrderOK
      /\ built \in Seq(Element) /\ destroyed \in Seq(Element) /\ Line \in Seq(Nat)
  BY DEF LifeInv, HistoryOK, LineOK
<1>4. Line' = Line
  BY <1>1 DEF Line
<1>5. /\ count' \in Seq(Nat) /\ Len(count') = Len(blocks') /\ DOMAIN count' = DOMAIN count
      /\ c \in Nat \ {0} /\ count'[dying] = c - 1 /\ e \in Element
      /\ \A k \in DOMAIN count : k # dying => count'[k] = count[k]
      /\ \A k \in DOMAIN count : count[k] \in Nat
  BY <1>1, <1>2, <1>3 DEF Element
<1> HIDE DEF c, e
<1>6. /\ destroyed' \in Seq(Element) /\ n \in Nat /\ n \notin DOMAIN destroyed
      /\ n \in DOMAIN destroyed' /\ destroyed'[n] = e
      /\ \A i \in DOMAIN destroyed : destroyed'[i] = destroyed[i] /\ i < n
      /\ \A i \in DOMAIN destroyed' : i \in Nat /\ (i < n => i \in DOMAIN destroyed) /\ i <= n
      /\ \A x : Listed(x, destroyed') <=> (Listed(x, destroyed) \/ x = e)
  <2>1. destroyed' = Append(destroyed, e) /\ destroyed \in Seq(Element) /\ e \in Element
    BY <1>1, <1>3, <1>5
  <2> QED  BY <2>1, OneMore
<1> HIDE DEF n
\* What this changes: e was alive and is destroyed.
<1>7. \A id, u \in Nat : /\ Made(id, u)' <=> Made(id, u)
                         /\ Undone(id, u)' <=> (Undone(id, u) \/ << id, u >> = e)
                         /\ Alive(id, u)' <=> (Alive(id, u) /\ << id, u >> # e)
  <2> TAKE id, u \in Nat
  <2>1. (Made(id, u)' <=> Made(id, u)) /\ (Undone(id, u)' <=> (Undone(id, u) \/ << id, u >> = e))
    BY <1>1, <1>6 DEF Made, Undone, Listed
  <2>2. CASE id = dying
    <3>1. << id, u >> # e <=> u # c
      BY <2>2 DEF e
    <3>2. u <= c - 1 <=> u <= c /\ u # c
      BY <1>5
    <3> QED  BY <1>1, <1>2, <1>5, <2>1, <2>2, <3>1, <3>2 DEF Alive, c
  <2>3. CASE id # dying
    BY <1>1, <1>2, <1>5, <2>1, <2>3 DEF Alive, e
  <2> QED  BY <2>2, <2>3
<1>8. Alive(dying, c) /\ ~Undone(dying, c)
  <2>1. Alive(dying, c)
    BY <1>2, <1>5 DEF Alive, c
  <2> QED  BY <1>2, <1>3, <1>5, <2>1 DEF HistoryOK
<1>9. \A y, x : Around(y, x)' <=> Around(y, x)
  BY <1>1 DEF Around
<1>10. \A i \in DOMAIN built : /\ built[i] = << built[i][1], built[i][2] >>
                               /\ built[i][1] \in Nat /\ built[i][2] \in Nat
  BY <1>3, Pairs
<1>11. HistoryOK'
  <2>1. ASSUME NEW k \in DOMAIN destroyed', NEW m \in DOMAIN destroyed',
               destroyed'[k] = destroyed'[m]
        PROVE  k = m
    <3>1. ASSUME NEW h \in DOMAIN destroyed  PROVE destroyed[h] # e
      BY <1>8, <3>1 DEF Undone, Listed, e
    <3>2. (k = n <=> k \notin DOMAIN destroyed) /\ (m = n <=> m \notin DOMAIN destroyed)
      BY <1>6
    <3>3. CASE k = n /\ m = n
      BY <3>3
    <3>4. CASE k = n /\ m # n
      <4>1. destroyed'[k] = e /\ m \in DOMAIN destroyed /\ destroyed'[m] = destroyed[m]
        BY <1>6, <3>2, <3>4
      <4> QED  BY <2>1, <3>1, <4>1
    <3>5. CASE k # n /\ m = n
      <4>1. destroyed'[m] = e /\ k \in DOMAIN destroyed /\ destroyed'[k] = destroyed[k]
        BY <1>6, <3>2, <3>5
      <4> QED  BY <2>1, <3>1, <4>1
    <3>6. CASE k # n /\ m # n
      <4>1. /\ m \in DOMAIN destroyed /\ destroyed'[m] = destroyed[m]
            /\ k \in DOMAIN destroyed /\ destroyed'[k] = destroyed[k]
        BY <1>6, <3>2, <3>6
      <4> QED  BY <1>3, <2>1, <4>1 DEF HistoryOK
    <3> QED  BY <3>3, <3>4, <3>5, <3>6
  <2>2. \A id, u \in Nat : /\ Made(id, u)' <=> (Alive(id, u)' \/ Undone(id, u)')
                           /\ ~(Alive(id, u)' /\ Undone(id, u)')
    <3> TAKE id, u \in Nat
    <3>1. CASE << id, u >> = e
      BY <1>3, <1>5, <1>7, <1>8, <3>1 DEF HistoryOK, e
    <3>2. CASE << id, u >> # e
      BY <1>3, <1>7, <3>2 DEF HistoryOK
    <3> QED  BY <3>1, <3>2
  <2>3. Numbered' /\ built' \in Seq(Element)
    <3>1. built' = built /\ Numbered
      BY <1>1, <1>3 DEF HistoryOK
    <3>2. Numbered'
      BY <3>1 DEF Numbered
    <3>3. built' \in Seq(Element)
      BY <1>3, <3>1
    <3> QED  BY <3>2, <3>3
  <2>4. \A k, m \in DOMAIN destroyed' : destroyed'[k] = destroyed'[m] => k = m
    BY <2>1
  <2>5. destroyed' \in Seq(Element)
    BY <1>6
  <2> QED  BY <2>2, <2>3, <2>4, <2>5 DEF HistoryOK
<1>12. LineOK'
  <2>1. \A id \in DOMAIN blocks : count'[id] > 0 => count[id] > 0
    BY <1>1, <1>2, <1>5 DEF c
  <2>2. Stacked'
    <3>1. built' = built /\ Stacked
      BY <1>1, <1>3 DEF LineOK
    <3> QED  BY <1>4, <1>9, <3>1 DEF Stacked
  <2> QED  BY <1>1, <1>3, <1>4, <2>1, <2>2 DEF LineOK
<1>13. FramesOK'
  BY <1>1, <1>2 DEF FramesOK, Listed
<1>14. ASSUME NEW i \in DOMAIN built, NEW j \in DOMAIN built, i < j,
              NEW x \in Nat, NEW u \in Nat, built[i] = << x, u >>, Undone(x, u)',
              NEW y \in Nat, NEW v \in Nat, built[j] = << y, v >>, Alive(y, v)'
       PROVE  Around(y, x)
  <2>1. Alive(y, v) /\ built[j] # e
    BY <1>7, <1>14
  <2>2. CASE Undone(x, u)
    BY <1>3, <1>14, <2>1, <2>2 DEF OrderOK
  <2>3. CASE << x, u >> = e
    <3>1. x = dying /\ u = c
      BY <2>3 DEF e
    <3>2. y # dying
      <4> SUFFICES ASSUME y = dying  PROVE FALSE
        OBVIOUS
      <4>1. c < v
        <5>1. built[i] = << dying, c >> /\ built[j] = << dying, v >> /\ c \in Nat
          BY <1>5, <1>14, <3>1
        <5>2. Numbered
          BY <1>3 DEF HistoryOK
        <5> QED  BY <1>2, <1>14, <5>1, <5>2 DEF Numbered
      <4>2. v <= c
        BY <2>1 DEF Alive, c
      <4> QED  BY <1>5, <1>14, <4>1, <4>2
    <3>3. y \in DOMAIN blocks /\ blocks[y].req.managed /\ count[y] > 0
      BY <1>2, <1>5, <2>1 DEF Alive
    <3>4. PICK q \in DOMAIN Line : Line[q] = y
      BY <1>3, <3>3 DEF LineOK, Listed
    <3>5. 1 < q
      BY <1>2, <1>3, <3>2, <3>4
    <3>6. built[i] = << Line[1], u >> /\ built[j] = << Line[q], v >> /\ Line[1] # Line[q]
      BY <1>2, <1>14, <3>1, <3>2, <3>4
    <3>7. Around(Line[q], Line[1])
      BY <1>2, <1>3, <1>14, <3>5, <3>6 DEF LineOK, Stacked
    <3> QED  BY <1>2, <3>1, <3>4, <3>7
  <2> QED  BY <1>7, <1>14, <2>2, <2>3
<1>15. ASSUME NEW k \in DOMAIN destroyed', NEW l \in DOMAIN destroyed', k < l,
              NEW i \in DOMAIN built, NEW j \in DOMAIN built, i < j,
              NEW x \in Nat, NEW u \in Nat, built[i] = << x, u >>, destroyed'[k] = << x, u >>,
              NEW y \in Nat, NEW v \in Nat, built[j] = << y, v >>, destroyed'[l] = << y, v >>
       PROVE  Around(y, x)
  <2>1. k \in DOMAIN destroyed /\ destroyed[k] = << x, u >>
    BY <1>6, <1>15
  <2>2. CASE l \in DOMAIN destroyed
    <3>1. destroyed[l] = << y, v >>
      BY <1>6, <1>15, <2>2
    <3> QED  BY <1>3, <1>15, <2>1, <2>2, <3>1 DEF OrderOK
  <2>3. CASE l = n
    <3>1. Undone(x, u)
      BY <2>1 DEF Undone, Listed
    <3>2. Alive(y, v)
      BY <1>6, <1>8, <1>15, <2>3 DEF e
    <3> QED  BY <1>3, <1>15, <3>1, <3>2 DEF OrderOK
  <2> QED  BY <1>6, <1>15, <2>2, <2>3
<1>16. OrderOK'
  <2>1. built' = built
    BY <1>1
  <2>2. \A k, l \in DOMAIN destroyed', i, j \in DOMAIN built : k < l /\ i < j =>
          \A x, m, y, v \in Nat :
             /\ built[i] = << x, m >> /\ destroyed'[k] = << x, m >>
             /\ built[j] = << y, v >> /\ destroyed'[l] = << y, v >>
             => Around(y, x)
    BY <1>15
  <2>3. \A i, j \in DOMAIN built : i < j =>
          \A x, m, y, v \in Nat :
             built[i] = << x, m >> /\ Undone(x, m)' /\ built[j] = << y, v >> /\ Alive(y, v)'
             => Around(y, x)
    BY <1>14
  <2> QED  BY <1>9, <2>1, <2>2, <2>3 DEF OrderOK
<1> QED  BY <1>1, <1>2, <1>5, <1>11, <1>12, <1>13, <1>16 DEF LifeInv

\* The frames without the innermost.
LEMMA FramesFront ==
  ASSUME FramesOK, frames # << >>
  PROVE  LET f == AR!Front(frames)
         IN  /\ f \in Seq(Nat) /\ AR!Last(frames) \in DOMAIN blocks
             /\ AR!Last(frames) = frames[Len(frames)] /\ Len(frames) \in DOMAIN frames
             /\ \A k \in DOMAIN f : /\ k \in DOMAIN frames /\ f[k] = frames[k]
                                   /\ f[k] < AR!Last(frames)
             /\ \A x : Listed(x, f) => Listed(x, frames) /\ x # AR!Last(frames)
<1> DEFINE f == AR!Front(frames)
           n == Len(frames)
<1>1. frames \in Seq(Nat) /\ n \in Nat \ {0} /\ DOMAIN frames = 1 .. n
  BY DEF FramesOK
<1>2. f = SubSeq(frames, 1, n - 1)
  BY DEF AR!Front
<1>3. f \in Seq(Nat) /\ DOMAIN f = 1 .. n - 1 /\ \A k \in 1 .. n - 1 : f[k] = frames[k]
  BY <1>1, <1>2
<1>4. AR!Last(frames) = frames[n] /\ n \in DOMAIN frames
  BY <1>1 DEF AR!Last
<1>5. AR!Last(frames) \in DOMAIN blocks
  BY <1>4 DEF FramesOK
<1> HIDE DEF f
<1>6. \A k \in DOMAIN f : k \in DOMAIN frames /\ f[k] = frames[k] /\ f[k] < AR!Last(frames)
  <2> TAKE k \in DOMAIN f
  <2>1. k \in DOMAIN frames /\ k < n /\ f[k] = frames[k]
    <3> HIDE DEF n
    <3> QED  BY <1>1, <1>3
  <2>2. frames[k] < frames[n]
    BY <1>4, <2>1 DEF FramesOK
  <2> QED  BY <1>4, <2>1, <2>2
<1>7. \A k \in DOMAIN f : f[k] \in Nat /\ frames[n] \in Nat
  BY <1>1, <1>3, <1>4
<1>8. \A x : Listed(x, f) => Listed(x, frames) /\ x # AR!Last(frames)
  BY <1>4, <1>6, <1>7 DEF Listed
<1> QED  BY <1>3, <1>4, <1>5, <1>6, <1>8 DEF f

LEMMA LifeConstructorThrows ==
  ASSUME SpaceInv, LifeInv, AR!ConstructorThrows
  PROVE  LifeInv'
<1>1. /\ phase = "alive" /\ frames # << >> /\ frames' = AR!Front(frames)
      /\ UNCHANGED << phase, blocks, dying, destroyed, count, built, objectList >>
  BY DEF AR!ConstructorThrows, AR!Unchanged
<1>2. /\ HistoryOK /\ OrderOK /\ LineOK /\ FramesOK /\ dying = 0 /\ destroyed = << >>
      /\ objectList \in Seq(Nat) /\ count \in Seq(Nat) /\ Len(count) = Len(blocks)
  BY <1>1 DEF LifeInv
<1>3. Line' = Line
  BY <1>1 DEF Line
<1>4. HistoryOK' /\ OrderOK'
  BY <1>1, <1>2, SameHistory
<1>5. LineOK'
  <2>1. \A y, x : Around(y, x)' <=> Around(y, x)
    BY <1>1, SameHistory
  <2>2. Stacked' /\ built' = built
    BY <1>1, <1>2, <1>3, <2>1 DEF LineOK, Stacked
  <2> QED  BY <1>1, <1>2, <1>3, <2>2 DEF LineOK
<1>6. FramesOK'
  BY <1>1, <1>2, <1>3, FramesFront DEF FramesOK
<1> QED  BY <1>1, <1>2, <1>4, <1>5, <1>6 DEF LifeInv

LEMMA LifeAllocate ==
  ASSUME SpaceInv, LifeInv, NEW req \in Allocations, NEW residue \in {0, NewAlign},
         AR!Allocate(req, residue)
  PROVE  LifeInv'
<1> DEFINE id == Len(blocks) + 1
           l == objectList
           array == req.managed /\ req.elements > 0
<1>1. /\ phase = "alive" /\ phase' = phase /\ dying' = dying
      /\ built' = built /\ destroyed' = destroyed
      /\ frames' = Append(frames, id)
      /\ objectList' = IF array THEN << id >> \o l ELSE l
  BY DEF AR!Allocate, AR!Allocates, AR!Unchanged, AR!Register
<1>2. /\ dying = 0 /\ destroyed = << >> /\ Line = l /\ Line' = objectList'
      /\ HistoryOK /\ LineOK /\ FramesOK /\ l \in Seq(Nat) /\ frames \in Seq(Nat)
  BY <1>1 DEF LifeInv, Line, FramesOK
<1>3. count' = Append(count, 0)
  BY DEF AR!Allocate, AR!Place
<1>4. PICK b : blocks' = Append(blocks, b) /\ b.req = req
  <2>1. ASSUME NEW r, AR!Place(req, r)
        PROVE  \E b : blocks' = Append(blocks, b) /\ b.req = req
    <3> DEFINE n == Len(r.chunks)
               b == [chunk |-> n, from |-> r.from, req |-> req,
                     start |-> AR!Start(r.chunks[n], r.from, req),
                     to |-> r.from + AR!Amount(req)]
    <3>1. blocks' = Append(blocks, b) /\ b.req = req
      BY <2>1 DEF AR!Place
    <3> HIDE DEF b
    <3> QED  BY <3>1
  <2> QED  BY <2>1 DEF AR!Allocate
<1>5. /\ blocks \in Seq(BlockType) /\ Len(blocks) \in Nat /\ DOMAIN blocks = 1 .. Len(blocks)
      /\ count \in Seq(Nat) /\ Len(count) = Len(blocks)
      /\ req.managed \in BOOLEAN /\ req.elements \in Nat
  BY BlockIds, RequestFacts DEF LifeInv
<1>6. /\ id \in Nat /\ id \notin DOMAIN blocks
      /\ \A k \in DOMAIN blocks : k \in Nat /\ k < id /\ k \in DOMAIN count
  BY <1>5
<1>7. /\ DOMAIN blocks' = DOMAIN blocks \cup {id} /\ blocks'[id] = b /\ Len(blocks') = id
      /\ \A k \in DOMAIN blocks : blocks'[k] = blocks[k]
  BY <1>4, <1>5
<1>8. /\ count' \in Seq(Nat) /\ Len(count') = id /\ count'[id] = 0
      /\ \A k \in DOMAIN blocks : count'[k] = count[k]
  BY <1>3, <1>5
<1>9. /\ frames' \in Seq(Nat) /\ DOMAIN frames' = DOMAIN frames \cup {Len(frames) + 1}
      /\ frames'[Len(frames) + 1] = id
      /\ \A k \in DOMAIN frames : frames'[k] = frames[k] /\ k < Len(frames) + 1
      /\ \A x : Listed(x, frames') <=> (Listed(x, frames) \/ x = id)
  <2>1. frames' = Append(frames, id) /\ id \in Nat /\ frames \in Seq(Nat)
    BY <1>1, <1>2, <1>6
  <2> HIDE DEF id
  <2> QED  BY <2>1, OneMore
<1> HIDE DEF id
<1>10. /\ Line' \in Seq(Nat) /\ \A k \in DOMAIN Line' : k \in Nat /\ k >= 1
       /\ IF array
          THEN /\ 1 \in DOMAIN Line' /\ Line'[1] = id
               /\ \A k \in DOMAIN Line' : k # 1 => k - 1 \in DOMAIN l /\ Line'[k] = l[k - 1]
               /\ \A x : Listed(x, Line') <=> (x = id \/ Listed(x, l))
          ELSE Line' = l
  <2>1. \A k \in DOMAIN l : k \in Nat /\ k >= 1
    BY <1>2
  <2> QED  BY <1>1, <1>2, <1>6, <2>1, InFront
<1> HIDE DEF l, array
<1>11. \A k \in DOMAIN l : l[k] \in DOMAIN blocks /\ blocks[l[k]].req.managed /\ l[k] < id
  BY <1>2, <1>6 DEF LineOK
<1>12. \A x, u : Alive(x, u)' <=> Alive(x, u)
  <2> TAKE x, u
  <2>1. CASE x = id
    BY <1>6, <1>7, <1>8, <2>1 DEF Alive
  <2>2. CASE x # id
    BY <1>7, <1>8, <2>2 DEF Alive
  <2> QED  BY <2>1, <2>2
<1>13. HistoryOK'
  <2>1. \A x, u : (Made(x, u)' <=> Made(x, u)) /\ (Undone(x, u)' <=> Undone(x, u))
    BY <1>1 DEF Made, Undone
  <2>2. Numbered'
    <3>1. built' = built /\ Numbered
      BY <1>1, <1>2 DEF HistoryOK
    <3> QED  BY <3>1 DEF Numbered
  <2> QED  BY <1>1, <1>2, <1>12, <2>1, <2>2 DEF HistoryOK
<1>14. OrderOK'
  BY <1>1, <1>2 DEF OrderOK, Undone, Listed
\* Nothing of the new allocation has been built.
<1>15. \A i \in DOMAIN built : \A u \in Nat : built[i] # << id, u >>
  <2> SUFFICES ASSUME NEW i \in DOMAIN built, NEW u \in Nat, built[i] = << id, u >>  PROVE FALSE
    OBVIOUS
  <2>1. Made(id, u)
    BY DEF Made, Listed
  <2>2. ~Undone(id, u) /\ ~Alive(id, u)
    BY <1>2, <1>6 DEF Undone, Listed, Alive
  <2> QED  BY <1>2, <1>6, <2>1, <2>2 DEF HistoryOK
<1>16. Stacked'
  <2> SUFFICES ASSUME NEW p \in DOMAIN Line', NEW q \in DOMAIN Line', p < q, Line'[p] # Line'[q],
                      NEW i \in DOMAIN built, NEW j \in DOMAIN built, i < j,
                      NEW u \in Nat, NEW v \in Nat,
                      built[i] = << Line'[p], u >>, built[j] = << Line'[q], v >>
               PROVE  blocks'[Line'[q]].req.elements > 0 /\ Line'[q] < Line'[p]
    BY <1>1 DEF Stacked, Around
  <2>1. Stacked
    BY <1>2 DEF LineOK
  <2>2. CASE ~array
    <3>1. Line'[p] = l[p] /\ Line'[q] = l[q] /\ p \in DOMAIN l /\ q \in DOMAIN l
      BY <1>10, <2>2
    <3>2. Around(l[q], l[p])
      BY <1>2, <2>1, <3>1 DEF Stacked
    <3> QED  BY <1>7, <1>11, <3>1, <3>2 DEF Around
  <2>3. CASE array
    <3>1. p # 1
      BY <1>10, <1>15, <2>3
    <3>2. q # 1
      BY <1>10, <3>1
    <3>3. /\ p - 1 \in DOMAIN l /\ q - 1 \in DOMAIN l /\ p - 1 < q - 1
          /\ Line'[p] = l[p - 1] /\ Line'[q] = l[q - 1]
      BY <1>10, <2>3, <3>1, <3>2
    <3>4. Around(l[q - 1], l[p - 1])
      BY <1>2, <2>1, <3>3 DEF Stacked
    <3> QED  BY <1>7, <1>11, <3>3, <3>4 DEF Around
  <2> QED  BY <2>2, <2>3
<1>17. LineOK'
  <2>1. \A k \in DOMAIN Line' : Line'[k] \in DOMAIN blocks' /\ blocks'[Line'[k]].req.managed
    <3> TAKE k \in DOMAIN Line'
    <3>1. CASE array /\ k = 1
      BY <1>4, <1>7, <1>10, <3>1 DEF array
    <3>2. CASE array /\ k # 1
      BY <1>7, <1>10, <1>11, <3>2
    <3>3. CASE ~array
      BY <1>7, <1>10, <1>11, <3>3
    <3> QED  BY <3>1, <3>2, <3>3
  <2>2. ASSUME NEW x \in DOMAIN blocks', blocks'[x].req.managed, count'[x] > 0
        PROVE  Listed(x, Line')
    <3>1. x \in DOMAIN blocks /\ blocks[x].req.managed /\ count[x] > 0
      BY <1>7, <1>8, <2>2
    <3>2. Listed(x, l)
      BY <1>2, <3>1 DEF LineOK
    <3> QED  BY <1>10, <3>2
  <2> QED  BY <1>10, <1>16, <2>1, <2>2 DEF LineOK
<1>18. FramesOK'
  <2>1. \A k \in DOMAIN frames' : frames'[k] \in DOMAIN blocks'
    BY <1>2, <1>7, <1>9 DEF FramesOK
  <2>2. \A j, k \in DOMAIN frames' : j < k => frames'[j] < frames'[k]
    <3> TAKE j, k \in DOMAIN frames'
    <3> HAVE j < k
    <3>1. j \in DOMAIN frames /\ frames'[j] = frames[j] /\ frames[j] < id
      BY <1>2, <1>6, <1>9 DEF FramesOK
    <3> QED  BY <1>2, <1>9, <3>1 DEF FramesOK
  <2>3. ASSUME NEW k \in DOMAIN frames', blocks'[frames'[k]].req.managed
        PROVE  IF blocks'[frames'[k]].req.elements = 0
               THEN count'[frames'[k]] = 0 /\ ~Listed(frames'[k], Line')
               ELSE Listed(frames'[k], Line')
    <3>1. CASE k \in DOMAIN frames
      <4>1. frames'[k] = frames[k] /\ frames[k] \in DOMAIN blocks /\ frames[k] # id
        BY <1>2, <1>6, <1>9, <3>1 DEF FramesOK
      <4>2. Listed(frames[k], Line') <=> Listed(frames[k], l)
        BY <1>10, <4>1
      <4>3. /\ blocks'[frames[k]] = blocks[frames[k]] /\ count'[frames[k]] = count[frames[k]]
            /\ blocks[frames[k]].req.managed
        BY <1>7, <1>8, <2>3, <4>1
      <4>4. IF blocks[frames[k]].req.elements = 0
            THEN count[frames[k]] = 0 /\ ~Listed(frames[k], l)
            ELSE Listed(frames[k], l)
        BY <1>2, <3>1, <4>3 DEF FramesOK
      <4> QED  BY <4>1, <4>2, <4>3, <4>4
    <3>2. CASE k \notin DOMAIN frames
      <4>1. frames'[k] = id /\ blocks'[frames'[k]].req = req
        BY <1>4, <1>7, <1>9, <3>2
      <4>2. CASE req.elements = 0
        <5>1. ~array
          BY <4>2 DEF array
        <5>2. ~Listed(id, Line')
          BY <1>6, <1>10, <1>11, <5>1 DEF Listed
        <5> QED  BY <1>8, <4>1, <4>2, <5>2
      <4>3. CASE req.elements # 0
        <5>1. array
          BY <1>5, <2>3, <4>1, <4>3 DEF array
        <5> QED  BY <1>10, <4>1, <4>3, <5>1
      <4> QED  BY <4>2, <4>3
    <3> QED  BY <3>1, <3>2
  <2>4. ASSUME NEW p \in DOMAIN Line', NEW q \in DOMAIN Line', p < q, Listed(Line'[q], frames')
        PROVE  Line'[q] < Line'[p]
    <3>1. CASE array
      <4>1. q # 1
        BY <1>10, <2>4
      <4>2. q - 1 \in DOMAIN l /\ Line'[q] = l[q - 1] /\ l[q - 1] < id /\ l[q - 1] # id
        BY <1>6, <1>10, <1>11, <3>1, <4>1
      <4>3. Listed(l[q - 1], frames)
        BY <1>9, <2>4, <4>2
      <4>4. CASE p = 1
        BY <1>10, <3>1, <4>2, <4>4
      <4>5. CASE p # 1
        <5>1. p - 1 \in DOMAIN l /\ Line'[p] = l[p - 1] /\ p - 1 < q - 1
          BY <1>10, <2>4, <3>1, <4>1, <4>5
        <5> QED  BY <1>2, <4>2, <4>3, <5>1 DEF FramesOK
      <4> QED  BY <4>4, <4>5
    <3>2. CASE ~array
      <4>1. Line' = l /\ l[q] # id
        BY <1>6, <1>10, <1>11, <2>4, <3>2
      <4>2. Listed(l[q], frames)
        BY <1>9, <2>4, <4>1
      <4> QED  BY <1>2, <2>4, <4>1, <4>2 DEF FramesOK
    <3> QED  BY <3>1, <3>2
  <2> QED  BY <1>9, <2>1, <2>2, <2>3, <2>4 DEF FramesOK
<1>19. objectList' \in Seq(Nat) /\ dying' \in Nat /\ Len(count') = Len(blocks')
  BY <1>1, <1>2, <1>7, <1>8, <1>10 DEF LifeInv
<1> QED
  BY <1>1, <1>2, <1>8, <1>13, <1>14, <1>17, <1>18, <1>19 DEF LifeInv

LEMMA LifeConstructed ==
  ASSUME SpaceInv, LifeInv, AR!Constructed
  PROVE  LifeInv'
<1> DEFINE id == AR!Last(frames)
           c == count[id]
           b == blocks[id]
           e == << id, c + 1 >>
           n == Len(built) + 1
           l == objectList
           single == b.req.managed /\ b.req.elements = 0
<1>1. /\ phase = "alive" /\ frames # << >>
      /\ count' = [count EXCEPT ![id] = @ + 1]
      /\ frames' = IF count'[id] = AR!Elements(id) THEN AR!Front(frames) ELSE frames
      /\ objectList' = IF single THEN << id >> \o l ELSE l
      /\ built' = IF b.req.managed THEN Append(built, << id, count'[id] >>) ELSE built
      /\ UNCHANGED << blocks, phase, dying, destroyed >>
  BY DEF AR!Constructed, AR!Top
<1>2. /\ dying = 0 /\ destroyed = << >> /\ Line = l /\ Line' = objectList'
      /\ HistoryOK /\ LineOK /\ FramesOK /\ l \in Seq(Nat) /\ frames \in Seq(Nat)
      /\ count \in Seq(Nat) /\ Len(count) = Len(blocks) /\ built \in Seq(Element)
      /\ \A k \in DOMAIN l : l[k] \in DOMAIN blocks /\ blocks[l[k]].req.managed
  BY <1>1 DEF LifeInv, Line, FramesOK, HistoryOK, LineOK
<1>3. /\ DOMAIN count = DOMAIN blocks /\ \A k \in DOMAIN blocks : k \in Nat /\ count[k] \in Nat
      /\ \A k \in DOMAIN blocks : blocks[k].req.managed \in BOOLEAN /\ blocks[k].req.elements \in Nat
  BY <1>2, BlockIds
<1>4. /\ id \in DOMAIN blocks /\ id = frames[Len(frames)] /\ Len(frames) \in DOMAIN frames
      /\ id \in Nat /\ c \in Nat /\ b.req.managed \in BOOLEAN /\ b.req.elements \in Nat
  BY <1>1, <1>2, <1>3, FramesFront
<1>5. /\ count' \in Seq(Nat) /\ Len(count') = Len(blocks) /\ count'[id] = c + 1
      /\ \A k \in DOMAIN blocks : k # id => count'[k] = count[k]
  BY <1>1, <1>2, <1>3, <1>4
<1>6. /\ b.req.managed => built' = Append(built, e)
      /\ e \in Element
  <2>1. b.req.managed => built' = Append(built, << id, count'[id] >>)
    BY <1>1
  <2>2. count'[id] = c + 1
    BY <1>5
  <2>3. id \in Nat /\ c + 1 \in Nat
    BY <1>4
  <2> HIDE DEF id, c, b
  <2> QED  BY <2>1, <2>2, <2>3 DEF Element
\* An object of its own has not been there, and its construction is over.
<1>7. single => c = 0 /\ ~Listed(id, l) /\ frames' = AR!Front(frames)
  <2> SUFFICES ASSUME single  PROVE c = 0 /\ ~Listed(id, l) /\ frames' = AR!Front(frames)
    OBVIOUS
  <2>1. c = 0 /\ ~Listed(id, l)
    BY <1>2, <1>4 DEF FramesOK
  <2>2. AR!Elements(id) = 1
    BY DEF AR!Elements, AR!Larger
  <2> QED  BY <1>1, <1>5, <2>1, <2>2
<1>8. b.req.managed /\ ~single => Listed(id, l) /\ b.req.elements > 0
  BY <1>2, <1>4 DEF FramesOK
\* The frames after the step.
<1>9. /\ frames' \in Seq(Nat)
      /\ \A k \in DOMAIN frames' : k \in DOMAIN frames /\ frames'[k] = frames[k]
      /\ \A x : Listed(x, frames') => Listed(x, frames) /\ (single => x # id)
  <2>1. CASE frames' = AR!Front(frames)
    BY <1>1, <1>2, <2>1, FramesFront
  <2>2. CASE frames' = frames
    BY <1>1, <1>2, <1>7, <2>2, FramesFront
  <2> QED  BY <1>1, <2>1, <2>2
<1>10. \A x : Listed(x, frames) => x \in Nat /\ x <= id
  <2> SUFFICES ASSUME NEW k \in DOMAIN frames  PROVE frames[k] \in Nat /\ frames[k] <= id
    BY DEF Listed
  <2>1. k \in Nat /\ k <= Len(frames) /\ frames[k] \in Nat
    BY <1>2
  <2>2. CASE k = Len(frames)
    BY <1>4, <2>2
  <2>3. CASE k # Len(frames)
    <3>1. frames[k] < frames[Len(frames)]
      BY <1>2, <1>4, <2>1, <2>3 DEF FramesOK
    <3> QED  BY <1>4, <2>1, <3>1
  <2> QED  BY <2>2, <2>3
<1>11. built' \in Seq(Element)
  <2>1. CASE b.req.managed
    <3>1. built' = Append(built, e) /\ e \in Element /\ built \in Seq(Element)
      BY <1>2, <1>6, <2>1
    <3> HIDE DEF e
    <3> QED  BY <3>1, OneMore
  <2>2. CASE ~b.req.managed
    BY <1>1, <1>2, <2>2
  <2> QED  BY <1>4, <2>1, <2>2
<1>12. b.req.managed =>
         /\ n \in Nat /\ n \notin DOMAIN built /\ built'[n] = e
         /\ DOMAIN built' = DOMAIN built \cup {n}
         /\ \A i \in DOMAIN built : built'[i] = built[i] /\ i < n /\ i \in Nat
         /\ \A x : Listed(x, built') <=> (Listed(x, built) \/ x = e)
  <2> SUFFICES ASSUME b.req.managed
               PROVE  /\ n \in Nat /\ n \notin DOMAIN built /\ built'[n] = e
                      /\ DOMAIN built' = DOMAIN built \cup {n}
                      /\ \A i \in DOMAIN built : built'[i] = built[i] /\ i < n /\ i \in Nat
                      /\ \A x : Listed(x, built') <=> (Listed(x, built) \/ x = e)
    OBVIOUS
  <2>1. built' = Append(built, e)
    BY <1>6
  <2>2. \A i \in DOMAIN built : i \in Nat
    BY <1>2
  <2> HIDE DEF e
  <2> QED  BY <1>2, <1>6, <2>1, <2>2, OneMore
<1>13. ~b.req.managed => built' = built
  BY <1>1
<1>14. /\ objectList' \in Seq(Nat) /\ \A k \in DOMAIN Line' : k \in Nat /\ k >= 1
       /\ IF single
          THEN /\ 1 \in DOMAIN Line' /\ Line'[1] = id
               /\ \A k \in DOMAIN Line' : k # 1 => k - 1 \in DOMAIN l /\ Line'[k] = l[k - 1]
               /\ \A x : Listed(x, Line') <=> (x = id \/ Listed(x, l))
          ELSE Line' = l
  <2>1. \A k \in DOMAIN l : k \in Nat /\ k >= 1
    BY <1>2
  <2>2. /\ Line' = objectList' /\ l \in Seq(Nat) /\ id \in Nat
        /\ objectList' = IF single THEN << id >> \o l ELSE l
    BY <1>1, <1>2, <1>4
  <2> HIDE DEF l, id, single, b, c
  <2>3. CASE single
    <3>1. Line' = << id >> \o l /\ objectList' = << id >> \o l
      BY <2>2, <2>3
    <3> QED  BY <2>2, <2>3, <3>1, InFront
  <2>4. CASE ~single
    BY <2>1, <2>2, <2>4
  <2> QED  BY <2>3, <2>4
<1> HIDE DEF id, c, b, e, n, l, single
\* What it changes: e was not alive and is.
<1>15. \A x, u \in Nat : /\ ~Undone(x, u)' /\ ~Undone(x, u)
                         /\ Made(x, u)' <=> (Made(x, u) \/ (b.req.managed /\ << x, u >> = e))
                         /\ Alive(x, u)' <=> (Alive(x, u) \/ (b.req.managed /\ << x, u >> = e))
  <2> TAKE x, u \in Nat
  <2>1. ~Undone(x, u)' /\ ~Undone(x, u)
    BY <1>1, <1>2 DEF Undone, Listed
  <2>2. Made(x, u)' <=> (Made(x, u) \/ (b.req.managed /\ << x, u >> = e))
    <3>1. CASE b.req.managed
      BY <1>12, <3>1 DEF Made, Listed
    <3>2. CASE ~b.req.managed
      BY <1>13, <3>2 DEF Made
    <3> QED  BY <1>4, <3>1, <3>2
  <2>3. Alive(x, u)' <=> (Alive(x, u) \/ (b.req.managed /\ << x, u >> = e))
    <3>1. CASE x = id
      <4>1. << x, u >> = e <=> u = c + 1
        BY <3>1 DEF e
      <4>2. u <= c + 1 <=> u <= c \/ u = c + 1
        BY <1>4
      <4>3. c + 1 >= 1
        BY <1>4
      <4> QED  BY <1>1, <1>3, <1>4, <1>5, <3>1, <4>1, <4>2, <4>3 DEF Alive, b, c
    <3>2. CASE x # id
      BY <1>1, <1>3, <1>5, <3>2 DEF Alive, e
    <3> QED  BY <3>1, <3>2
  <2> QED  BY <2>1, <2>2, <2>3
\* What is built of the allocation is what is alive.
<1>16. \A i \in DOMAIN built, u \in Nat : built[i] = << id, u >> => u <= c
  <2> SUFFICES ASSUME NEW i \in DOMAIN built, NEW u \in Nat, built[i] = << id, u >>
               PROVE  u <= c
    OBVIOUS
  <2>1. Made(id, u)
    BY DEF Made, Listed
  <2>2. Alive(id, u)
    BY <1>2, <1>4, <1>15, <2>1 DEF HistoryOK
  <2> QED  BY <2>2 DEF Alive, c
<1>17. Numbered'
  <2>1. CASE ~b.req.managed
    <3>1. built' = built /\ Numbered
      BY <1>2, <1>13, <2>1 DEF HistoryOK
    <3> QED  BY <3>1 DEF Numbered
  <2>2. CASE b.req.managed
    <3> SUFFICES ASSUME NEW i \in DOMAIN built', NEW j \in DOMAIN built', i < j,
                        NEW x \in Nat, NEW u \in Nat, NEW v \in Nat,
                        built'[i] = << x, u >>, built'[j] = << x, v >>
                 PROVE  u < v
      BY DEF Numbered
    <3>1. i \in DOMAIN built /\ built[i] = << x, u >>
      BY <1>12, <2>2
    <3>2. CASE j \in DOMAIN built
      <4>1. built[j] = << x, v >> /\ Numbered
        BY <1>2, <1>12, <2>2, <3>2 DEF HistoryOK
      <4> QED  BY <3>1, <3>2, <4>1 DEF Numbered
    <3>3. CASE j = n
      <4>1. x = id /\ v = c + 1
        BY <1>12, <2>2, <3>3 DEF e
      <4> QED  BY <1>4, <1>16, <3>1, <4>1
    <3> QED  BY <1>12, <2>2, <3>2, <3>3
  <2> QED  BY <1>4, <2>1, <2>2
<1>18. HistoryOK'
  <2>1. \A x, u \in Nat : /\ Made(x, u)' <=> (Alive(x, u)' \/ Undone(x, u)')
                          /\ ~(Alive(x, u)' /\ Undone(x, u)')
    <3> TAKE x, u \in Nat
    <3> QED  BY <1>2, <1>15 DEF HistoryOK
  <2>2. destroyed' = << >>
    BY <1>1, <1>2
  <2> QED  BY <1>11, <1>17, <2>1, <2>2 DEF HistoryOK
<1>19. OrderOK'
  BY <1>1, <1>2 DEF OrderOK, Undone, Listed
<1>20. /\ b.req.managed \in BOOLEAN /\ single => b.req.managed
       /\ id \in DOMAIN blocks /\ b.req = blocks[id].req
       /\ single <=> (b.req.managed /\ blocks[id].req.elements = 0)
  BY <1>4 DEF single, b
<1>21. Stacked'
  <2> SUFFICES ASSUME NEW p \in DOMAIN Line', NEW q \in DOMAIN Line', p < q, Line'[p] # Line'[q],
                      NEW i \in DOMAIN built', NEW j \in DOMAIN built', i < j,
                      NEW u \in Nat, NEW v \in Nat,
                      built'[i] = << Line'[p], u >>, built'[j] = << Line'[q], v >>
               PROVE  Around(Line'[q], Line'[p])
    BY <1>1 DEF Stacked, Around
  <2>1. Stacked
    BY <1>2 DEF LineOK
  <2>2. i \in DOMAIN built /\ built[i] = << Line'[p], u >>
    <3>1. CASE b.req.managed
      BY <1>12, <3>1
    <3>2. CASE ~b.req.managed
      BY <1>13, <3>2
    <3> QED  BY <1>20, <3>1, <3>2
  <2>3. CASE single
    <3>1. p # 1
      <4> SUFFICES ASSUME p = 1  PROVE FALSE
        OBVIOUS
      <4>1. built[i] = << id, u >>
        BY <1>14, <2>2, <2>3
      <4>2. u <= c /\ c = 0
        BY <1>7, <1>16, <2>2, <2>3, <4>1
      <4>3. Made(id, u)
        BY <2>2, <4>1 DEF Made, Listed
      <4>4. Alive(id, u)
        BY <1>2, <1>4, <1>15, <4>3 DEF HistoryOK
      <4> QED  BY <4>2, <4>4 DEF Alive
    <3>2. q # 1
      BY <1>14, <3>1
    <3>3. /\ p - 1 \in DOMAIN l /\ q - 1 \in DOMAIN l /\ p - 1 < q - 1
          /\ Line'[p] = l[p - 1] /\ Line'[q] = l[q - 1]
      BY <1>14, <2>3, <3>1, <3>2
    <3>4. l[q - 1] # id
      BY <1>7, <2>3, <3>3 DEF Listed
    <3>5. j \in DOMAIN built /\ built[j] = << l[q - 1], v >>
      BY <1>12, <1>20, <2>3, <3>3, <3>4 DEF e
    <3> QED  BY <1>2, <2>1, <2>2, <3>3, <3>5 DEF Stacked
  <2>4. CASE ~single
    <3>1. Line' = l /\ Line = l
      BY <1>2, <1>14, <2>4
    <3>2. CASE j \in DOMAIN built
      <4>1. built[j] = << Line'[q], v >>
        BY <1>12, <1>13, <1>20, <3>2
      <4> QED  BY <2>1, <2>2, <3>1, <3>2, <4>1 DEF Stacked
    <3>3. CASE j \notin DOMAIN built
      <4>1. b.req.managed
        BY <1>13, <1>20, <3>3
      <4>2. Line'[q] = id
        BY <1>12, <3>3, <4>1 DEF e
      <4>3. blocks[id].req.elements > 0
        BY <1>8, <1>20, <2>4, <4>1
      <4>4. Listed(id, frames)
        BY <1>4 DEF Listed
      <4>5. id < Line'[p]
        BY <1>2, <3>1, <4>2, <4>4 DEF FramesOK
      <4> QED  BY <4>2, <4>3, <4>5 DEF Around
    <3> QED  BY <3>2, <3>3
  <2> QED  BY <2>3, <2>4
<1>22. LineOK'
  <2>1. \A k \in DOMAIN Line' : Line'[k] \in DOMAIN blocks /\ blocks[Line'[k]].req.managed
    <3> TAKE k \in DOMAIN Line'
    <3>1. CASE single /\ k = 1
      BY <1>14, <1>20, <3>1
    <3>2. CASE single /\ k # 1
      BY <1>2, <1>14, <3>2
    <3>3. CASE ~single
      BY <1>2, <1>14, <3>3
    <3> QED  BY <3>1, <3>2, <3>3
  <2>2. ASSUME NEW x \in DOMAIN blocks, blocks[x].req.managed, count'[x] > 0
        PROVE  Listed(x, Line')
    <3>1. CASE x = id
      BY <1>8, <1>14, <1>20, <2>2, <3>1
    <3>2. CASE x # id
      <4>1. count[x] > 0
        BY <1>5, <2>2, <3>2
      <4>2. Listed(x, l)
        BY <1>2, <2>2, <4>1 DEF LineOK
      <4> QED  BY <1>14, <4>2
    <3> QED  BY <3>1, <3>2
  <2>3. Line' \in Seq(Nat) /\ blocks' = blocks
    BY <1>1, <1>2, <1>14
  <2> QED  BY <1>21, <2>1, <2>2, <2>3 DEF LineOK
<1>23. FramesOK'
  <2>1. \A k \in DOMAIN frames' : frames'[k] \in DOMAIN blocks
    BY <1>2, <1>9 DEF FramesOK
  <2>2. \A j, k \in DOMAIN frames' : j < k => frames'[j] < frames'[k]
    BY <1>2, <1>9 DEF FramesOK
  <2>3. ASSUME NEW k \in DOMAIN frames', blocks[frames'[k]].req.managed
        PROVE  IF blocks[frames'[k]].req.elements = 0
               THEN count'[frames'[k]] = 0 /\ ~Listed(frames'[k], Line')
               ELSE Listed(frames'[k], Line')
    <3>1. /\ k \in DOMAIN frames /\ frames'[k] = frames[k] /\ frames[k] \in DOMAIN blocks
          /\ single => frames[k] # id
      BY <1>2, <1>9 DEF FramesOK, Listed
    <3>2. IF blocks[frames[k]].req.elements = 0
          THEN count[frames[k]] = 0 /\ ~Listed(frames[k], l)
          ELSE Listed(frames[k], l)
      BY <1>2, <2>3, <3>1 DEF FramesOK
    <3>3. Listed(frames[k], Line') <=> Listed(frames[k], l)
      BY <1>14, <3>1
    <3>4. CASE blocks[frames[k]].req.elements = 0
      <4>1. frames[k] # id
        BY <1>20, <2>3, <3>1, <3>4
      <4> QED  BY <1>5, <3>1, <3>2, <3>3, <3>4, <4>1
    <3>5. CASE blocks[frames[k]].req.elements # 0
      BY <3>1, <3>2, <3>3, <3>5
    <3> QED  BY <3>4, <3>5
  <2>4. ASSUME NEW p \in DOMAIN Line', NEW q \in DOMAIN Line', p < q, Listed(Line'[q], frames')
        PROVE  Line'[q] < Line'[p]
    <3>1. Listed(Line'[q], frames) /\ (single => Line'[q] # id)
      BY <1>9, <2>4
    <3>2. CASE single
      <4>1. q # 1
        BY <1>14, <2>4
      <4>2. q - 1 \in DOMAIN l /\ Line'[q] = l[q - 1]
        BY <1>14, <3>2, <4>1
      <4>3. CASE p = 1
        <5>1. Line'[q] \in Nat /\ Line'[q] <= id /\ Line'[q] # id /\ Line'[p] = id
          BY <1>10, <1>14, <3>1, <3>2, <4>3
        <5> QED  BY <1>4, <5>1
      <4>4. CASE p # 1
        <5>1. p - 1 \in DOMAIN l /\ Line'[p] = l[p - 1] /\ p - 1 < q - 1
          BY <1>14, <2>4, <3>2, <4>1, <4>4
        <5> QED  BY <1>2, <3>1, <4>2, <5>1 DEF FramesOK
      <4> QED  BY <4>3, <4>4
    <3>3. CASE ~single
      BY <1>2, <1>14, <2>4, <3>1, <3>3 DEF FramesOK
    <3> QED  BY <3>2, <3>3
  <2>5. blocks' = blocks
    BY <1>1
  <2> QED  BY <1>9, <2>1, <2>2, <2>3, <2>4, <2>5 DEF FramesOK
<1> QED
  BY <1>1, <1>2, <1>5, <1>14, <1>18, <1>19, <1>22, <1>23 DEF LifeInv

LEMMA LifeNext ==
  ASSUME SpaceInv, LifeInv, [AR!Next]_arena
  PROVE  LifeInv'
<1>0. objectList \in Seq(Nat) /\ dying \in Nat
  BY DEF LifeInv
<1>1. CASE AR!Destroy
  BY <1>0, <1>1, LifeSame DEF AR!Destroy, LifeInv, Line
<1>2. CASE AR!CleanupThrows
  BY <1>0, <1>2, LifeSame DEF AR!CleanupThrows, LifeInv, Line
<1>3. CASE AR!DeleteChunks
  <2>1. phase # "alive"
    BY <1>3 DEF AR!DeleteChunks, AR!Cleaning
  <2> QED  BY <1>0, <1>3, <2>1, LifeSame DEF AR!DeleteChunks, LifeInv, Line
<1>4. ASSUME NEW req \in Allocations, AR!OutOfMemory(req)  PROVE LifeInv'
  BY <1>0, <1>4, LifeSame DEF AR!OutOfMemory, AR!Unchanged, LifeInv, Line
<1>5. CASE UNCHANGED arena
  BY <1>0, <1>5, LifeSame DEF arena, LifeInv, Line
<1> QED
  BY <1>1, <1>2, <1>3, <1>4, <1>5, LifeAllocate, LifeConstructed, LifeConstructorThrows,
     LifeTakeObject, LifeObjectGone, LifeDestroyElement DEF AR!Next

\* What has been built and what has been destroyed, as pairs.
LEMMA BuiltAndDestroyed ==
  ASSUME HistoryOK
  PROVE  /\ \A i \in DOMAIN built : /\ built[i] = << built[i][1], built[i][2] >>
                                    /\ built[i][1] \in Nat /\ built[i][2] \in Nat
                                    /\ Made(built[i][1], built[i][2])
         /\ \A k \in DOMAIN destroyed : /\ destroyed[k] = << destroyed[k][1], destroyed[k][2] >>
                                        /\ destroyed[k][1] \in Nat /\ destroyed[k][2] \in Nat
                                        /\ Undone(destroyed[k][1], destroyed[k][2])
<1>1. built \in Seq(Element) /\ destroyed \in Seq(Element)
  BY DEF HistoryOK
<1>2. ASSUME NEW i \in DOMAIN built
      PROVE  /\ built[i] = << built[i][1], built[i][2] >>
             /\ built[i][1] \in Nat /\ built[i][2] \in Nat
             /\ Made(built[i][1], built[i][2])
  <2>1. /\ built[i] = << built[i][1], built[i][2] >>
        /\ built[i][1] \in Nat /\ built[i][2] \in Nat
    BY <1>1, Pairs
  <2> QED  BY <2>1 DEF Made, Listed
<1>3. ASSUME NEW k \in DOMAIN destroyed
      PROVE  /\ destroyed[k] = << destroyed[k][1], destroyed[k][2] >>
             /\ destroyed[k][1] \in Nat /\ destroyed[k][2] \in Nat
             /\ Undone(destroyed[k][1], destroyed[k][2])
  <2>1. /\ destroyed[k] = << destroyed[k][1], destroyed[k][2] >>
        /\ destroyed[k][1] \in Nat /\ destroyed[k][2] \in Nat
    BY <1>1, Pairs
  <2> QED  BY <2>1 DEF Undone, Listed
<1> QED  BY <1>2, <1>3

\* Once each, the younger first, and in the end nothing is left.
LEMMA LifeInvDestroyed ==
  ASSUME SpaceInv, OursInv, LifeInv
  PROVE  AR!AllDestroyed
<1>0. HistoryOK /\ OrderOK
  BY DEF LifeInv
<1>1. AR!IsInjective(destroyed)
  BY <1>0 DEF HistoryOK, AR!IsInjective
<1>2. ASSUME NEW x \in AR!Range(destroyed)  PROVE x \in AR!Range(built)
  <2>1. PICK k \in DOMAIN destroyed : x = destroyed[k]
    BY <1>2 DEF AR!Range
  <2>2. /\ x = << x[1], x[2] >> /\ x[1] \in Nat /\ x[2] \in Nat /\ Undone(x[1], x[2])
    BY <1>0, <2>1, BuiltAndDestroyed
  <2>3. Made(x[1], x[2])
    BY <1>0, <2>2 DEF HistoryOK
  <2> QED  BY <2>2, <2>3 DEF Made, Listed, AR!Range
<1>3. ASSUME NEW k \in DOMAIN destroyed, NEW m \in DOMAIN destroyed, k < m,
             NEW i \in DOMAIN built, NEW j \in DOMAIN built, i < j,
             built[i] = destroyed[k], built[j] = destroyed[m]
      PROVE  AR!ArrayAround(built[j], built[i])
  <2>1. /\ built[i] = << built[i][1], built[i][2] >> /\ built[i][1] \in Nat /\ built[i][2] \in Nat
        /\ built[j] = << built[j][1], built[j][2] >> /\ built[j][1] \in Nat /\ built[j][2] \in Nat
    BY <1>0, BuiltAndDestroyed
  <2>2. Around(built[j][1], built[i][1])
    BY <1>0, <1>3, <2>1 DEF OrderOK
  <2> QED  BY <2>2 DEF Around, AR!ArrayAround
<1>4. ASSUME phase = "gone"
      PROVE  /\ AR!Range(destroyed) = AR!Range(built)
             /\ \A i \in DOMAIN chunks : ~chunks[i].ours
  <2>1. Line = << >> /\ LineOK /\ count \in Seq(Nat)
    BY <1>4 DEF LifeInv, Line
  <2>2. ASSUME NEW x \in AR!Range(built)  PROVE x \in AR!Range(destroyed)
    <3>1. PICK i \in DOMAIN built : x = built[i]
      BY <2>2 DEF AR!Range
    <3>2. /\ x = << x[1], x[2] >> /\ x[1] \in Nat /\ x[2] \in Nat /\ Made(x[1], x[2])
      BY <1>0, <3>1, BuiltAndDestroyed
    <3>3. ~Alive(x[1], x[2])
      <4> SUFFICES ASSUME Alive(x[1], x[2])  PROVE FALSE
        OBVIOUS
      <4>1. x[1] \in DOMAIN blocks /\ blocks[x[1]].req.managed /\ 1 <= x[2] /\ x[2] <= count[x[1]]
        BY DEF Alive
      <4>2. count[x[1]] \in Nat
        BY <4>1, BlockIds DEF LifeInv
      <4>3. Listed(x[1], Line)
        BY <2>1, <3>2, <4>1, <4>2 DEF LineOK
      <4> QED  BY <2>1, <4>3 DEF Listed
    <3>4. Undone(x[1], x[2])
      BY <1>0, <3>2, <3>3 DEF HistoryOK
    <3> QED  BY <3>2, <3>4 DEF Undone, Listed, AR!Range
  <2>3. \A i \in DOMAIN chunks : ~chunks[i].ours
    BY <1>4 DEF OursInv, Listed
  <2>4. \A x \in AR!Range(destroyed) : x \in AR!Range(built)
    BY <1>2
  <2>5. \A x \in AR!Range(built) : x \in AR!Range(destroyed)
    BY <2>2
  <2> QED  BY <2>3, <2>4, <2>5
<1>5. AR!Range(destroyed) \subseteq AR!Range(built)
  BY <1>2
<1> QED  BY <1>1, <1>3, <1>4, <1>5 DEF AR!AllDestroyed

\* The chunks and allocations, the chunks to delete and the objects to destroy.
ArenaInv == SpaceInv /\ OursInv /\ LifeInv

\* kj::Arena (arena.cpp:46-153): whatever is asked for, whatever constructor or destructor
\* throws and whenever memory runs out, the allocations are aligned, inside their chunks
\* and apart from each other, each object that was completed is destroyed once, after those
\* completed later (but what was allocated while the elements of an array were made goes
\* before them), and the caller's scratch space is never deleted.
THEOREM ArenaAlwaysSound == MemorySpec => []ArenaIsSound
<1>1. MemoryInit => ArenaInv
  BY SpaceInit, OursInit, LifeInit DEF MemoryInit, ArenaInv
<1>2. ArenaInv /\ [MemoryNext]_memory => ArenaInv'
  <2> SUFFICES ASSUME ArenaInv, [MemoryNext]_memory  PROVE ArenaInv'
    OBVIOUS
  <2>1. [AR!Next]_arena
    BY DEF MemoryNext, memory
  <2> QED  BY <2>1, SpaceNext, OursNext, LifeNext DEF ArenaInv
<1>3. ArenaInv => ArenaIsSound
  BY SpaceInvDisjoint, LifeInvDestroyed DEF ArenaInv, ArenaIsSound
<1> QED  BY <1>1, <1>2, <1>3, PTL DEF MemorySpec
=============================================================================
