----------------------------- MODULE IoVecProofs ----------------------------
(***************************************************************************)
(* Proofs about IoVec, for objects of any number and size.                 *)
(*                                                                         *)
(* Every conversion makes a vector that is inside its object, or that ends *)
(* where the text does; every step that could make the object shorter      *)
(* takes the vector away; and one that writes to the object makes its      *)
(* texts stale.  What the kernel does to objects, and what it is sent of   *)
(* them, follow.                                                           *)
(***************************************************************************)
EXTENDS IoVec, SequenceTheorems, TLAPS

VectorRecord == [at : Place, from : Nat, size : Nat, writable : BOOLEAN, text : Text]

Shape ==
  /\ object \in [Place -> Object \cup {None}]
  /\ vector \in [Vector -> VectorRecord \cup {None}]

(* The vector v of object x is inside it, or a text that ends where x's    *)
(* does; and an iovec is no text.                                          *)
FitsIn(x, v) ==
  /\ x \in Object
  /\ v.text = "no" => v.from + v.size <= Len(x.bytes)
  /\ v.text = "fresh" => v.from + v.size \in TextEnd(x, v.from)
  /\ v.writable => ~x.const /\ v.text = "no"

Fits(o, v) == FitsIn(o[v.at], v)

IInv == Shape /\ \A i \in Vector : vector[i] # None => Fits(object, vector[i])

-----------------------------------------------------------------------------
(* Objects.                                                                *)

LEMMA BytesAreSequences ==
  ASSUME NEW x
  PROVE  x \in Bytes <=> x \in Seq(Byte) /\ Len(x) <= MaxSize
BY MaxSizeAssumption DEF Bytes, BoundedSeq, SeqOf

LEMMA ObjectParts ==
  ASSUME NEW x \in Object
  PROVE  /\ x.kind \in Kind /\ x.const \in BOOLEAN /\ x.bytes \in Bytes
         /\ x.bytes \in Seq(Byte) /\ Len(x.bytes) \in Nat
         /\ DOMAIN x.bytes = 1 .. Len(x.bytes)
         /\ x.kind = "char" => Len(x.bytes) = 1
         /\ x.kind = "array" => Len(x.bytes) > 0
<1>1. /\ x.kind \in Kind /\ x.const \in BOOLEAN /\ x.bytes \in Bytes
      /\ x.kind = "char" => Len(x.bytes) = 1
      /\ x.kind = "array" => Len(x.bytes) > 0
  BY DEF Object
<1>2. x.bytes \in Seq(Byte)
  BY <1>1, BytesAreSequences
<1> QED
  BY <1>1, <1>2

(* Other bytes of the same length make another object of the same kind.    *)
LEMMA WithBytes ==
  ASSUME NEW x \in Object, NEW bytes \in Bytes,
         x.kind \in {"string", "container"} \/ Len(bytes) = Len(x.bytes)
  PROVE  [x EXCEPT !.bytes = bytes] \in Object
<1>1. x \in [kind : Kind, const : BOOLEAN, bytes : Bytes]
  BY DEF Object
<1> DEFINE y == [x EXCEPT !.bytes = bytes]
<1>2. y \in [kind : Kind, const : BOOLEAN, bytes : Bytes] /\ y.kind = x.kind /\ y.bytes = bytes
  BY <1>1
<1>3. x.kind = "char" => x.kind \notin {"string", "container"}
  OBVIOUS
<1>4. x.kind = "array" => x.kind \notin {"string", "container"}
  OBVIOUS
<1> QED
  BY <1>2, <1>3, <1>4, ObjectParts DEF Object

(* An object that is in the place of a declared one is an object.          *)
LEMMA Declared ==
  ASSUME Shape, NEW p \in Place, object[p] # None
  PROVE  object[p] \in Object
BY DEF Shape

-----------------------------------------------------------------------------
(* Steps that make or copy a vector.                                       *)

LEMMA ConvertFits ==
  ASSUME IInv, NEW i \in Vector, NEW p \in Place, NEW from \in Nat, NEW size \in Nat,
         NEW writable \in BOOLEAN, NEW text \in Text, object[p] \in Object,
         text = "no" => from + size <= Len(object[p].bytes),
         text = "fresh" => from + size \in TextEnd(object[p], from),
         writable => ~object[p].const /\ text = "no",
         Convert(i, p, from, size, writable, text)
  PROVE  IInv'
<1> DEFINE v == [at |-> p, from |-> from, size |-> size, writable |-> writable, text |-> text]
<1>1. /\ v \in VectorRecord /\ v.at = p /\ v.from = from /\ v.size = size
      /\ v.writable = writable /\ v.text = text
  BY DEF VectorRecord
<1>2. object' = object /\ vector' = [vector EXCEPT ![i] = v]
  BY DEF Convert
<1>3. Fits(object, v)
  BY <1>1 DEF Fits, FitsIn
<1> HIDE DEF v
<1>4. Shape'
  BY <1>1, <1>2 DEF IInv, Shape
<1>5. \A j \in Vector : vector'[j] = IF j = i THEN v ELSE vector[j]
  BY <1>2 DEF IInv, Shape
<1>6. \A j \in Vector : vector'[j] # None => Fits(object', vector'[j])
  BY <1>2, <1>3, <1>5 DEF IInv
<1> QED
  BY <1>4, <1>6 DEF IInv, Fits

(* Taking away the vectors of the one object that changes.                 *)
LEMMA WithoutFits ==
  ASSUME IInv, NEW p \in Place, NEW y \in Object \cup {None},
         object' = [object EXCEPT ![p] = y], vector' = Without(p)
  PROVE  IInv'
<1>1. \A i \in Vector : vector'[i] = IF vector[i] # None /\ vector[i].at = p THEN None ELSE vector[i]
  BY DEF Without
<1>2. Shape'
  <2>1. object' \in [Place -> Object \cup {None}]
    BY DEF IInv, Shape
  <2>2. vector' \in [Vector -> VectorRecord \cup {None}]
    BY DEF IInv, Shape, Without
  <2> QED BY <2>1, <2>2 DEF Shape
<1>3. ASSUME NEW i \in Vector, vector'[i] # None
      PROVE  Fits(object', vector'[i])
  <2>1. vector'[i] = vector[i] /\ vector[i] # None /\ vector[i].at # p
    BY <1>1, <1>3
  <2>2. vector[i].at \in Place
    BY <2>1 DEF IInv, Shape, VectorRecord
  <2>3. object'[vector[i].at] = object[vector[i].at]
    BY <2>1, <2>2 DEF IInv, Shape
  <2> QED
    BY <2>1, <2>3 DEF IInv, Fits
<1> QED
  BY <1>2, <1>3 DEF IInv, Fits

(* The program's part of a range: from b to e.                             *)
LEMMA PartFits ==
  ASSUME NEW b \in Nat, NEW e \in Nat, NEW n \in Nat, b <= e, e <= n
  PROVE  PartLength(b, e) \in Nat /\ b + PartLength(b, e) <= n
BY DEF PartLength

LEMMA TextEndIs ==
  ASSUME NEW x \in Object, NEW b \in Nat, b <= Len(x.bytes), NEW n \in TextEnd(x, b)
  PROVE  /\ n \in Nat /\ b <= n
         /\ Zeros(x, b) # {} => n \in Zeros(x, b) /\ n <= Len(x.bytes)
         /\ \A m \in Zeros(x, b) : n <= m
         /\ Zeros(x, b) = {} => Len(x.bytes) <= n
<1>1. Len(x.bytes) \in Nat
  BY ObjectParts
<1>2. CASE Zeros(x, b) # {}
  <2>1. n \in Zeros(x, b) /\ \A m \in Zeros(x, b) : n <= m
    BY <1>2 DEF TextEnd
  <2>2. n \in b .. Len(x.bytes)
    BY <2>1 DEF Zeros
  <2> QED
    BY <1>1, <1>2, <2>1, <2>2
<1>3. CASE Zeros(x, b) = {}
  <2>1. n \in Len(x.bytes) .. Len(x.bytes) + MaxOverrun
    BY <1>3 DEF TextEnd
  <2> QED
    BY <1>1, <1>3, <2>1, MaxOverrunAssumption
<1> QED
  BY <1>2, <1>3

-----------------------------------------------------------------------------
(* The kernel writes through a vector.                                     *)

LEMMA ReadChanges ==
  ASSUME IInv, NEW i \in Vector, NEW bytes \in Bytes, read(i, bytes)
  PROVE  LET v == vector[i]  x == object[v.at]  y == object'[v.at]
         IN /\ v.at \in Place /\ v.writable /\ ~x.const /\ x \in Object
            /\ \A p \in Place \ {v.at} : object'[p] = object[p]
            /\ y \in Object /\ y.kind = x.kind /\ y.const = x.const
            /\ Len(y.bytes) = Len(x.bytes)
            /\ \A n \in DOMAIN x.bytes :
                 n \notin v.from + 1 .. v.from + v.size => y.bytes[n] = x.bytes[n]
<1> DEFINE v == vector[i]
           x == object[v.at]
           new == [n \in DOMAIN x.bytes |-> IF n - v.from \in DOMAIN bytes
                                            THEN bytes[n - v.from] ELSE x.bytes[n]]
           y == [x EXCEPT !.bytes = new]
<1>1. v # None /\ v.writable /\ Len(bytes) <= v.size
  BY DEF read
<1>2. v \in VectorRecord /\ v.at \in Place /\ v.from \in Nat /\ v.size \in Nat
  BY <1>1 DEF IInv, Shape, VectorRecord
<1>3. x \in Object /\ ~x.const /\ v.from + v.size <= Len(x.bytes)
  BY <1>1 DEF IInv, Fits, FitsIn
<1>4. object' = [object EXCEPT ![v.at] = y]
  BY DEF read
<1>5. bytes \in Seq(Byte) /\ DOMAIN bytes = 1 .. Len(bytes) /\ Len(bytes) \in Nat
  BY BytesAreSequences
<1>6. /\ x.bytes \in Seq(Byte) /\ Len(x.bytes) \in Nat
      /\ DOMAIN x.bytes = 1 .. Len(x.bytes) /\ Len(x.bytes) <= MaxSize
  BY <1>3, ObjectParts, BytesAreSequences
<1>7. new \in Bytes /\ Len(new) = Len(x.bytes)
  <2>1. \A n \in 1 .. Len(x.bytes) : x.bytes[n] \in Byte
    BY <1>6
  <2>2. \A m \in DOMAIN bytes : bytes[m] \in Byte
    BY <1>5
  <2>3. new \in [1 .. Len(x.bytes) -> Byte]
    BY <1>6, <2>1, <2>2
  <2>4. new \in Seq(Byte) /\ Len(new) = Len(x.bytes)
    BY <1>6, <2>3
  <2> QED
    BY <1>6, <2>4, BytesAreSequences
<1>8. y \in Object
  BY <1>3, <1>7, WithBytes
<1>9. y.kind = x.kind /\ y.const = x.const /\ y.bytes = new
  BY <1>3 DEF Object
<1>10. \A n \in DOMAIN x.bytes : n \notin v.from + 1 .. v.from + v.size => new[n] = x.bytes[n]
  BY <1>1, <1>2, <1>5, <1>6
<1> HIDE DEF y, new
<1>11. object'[v.at] = y /\ \A p \in Place \ {v.at} : object'[p] = object[p]
  BY <1>2, <1>4 DEF IInv, Shape
<1> QED
  BY <1>1, <1>2, <1>3, <1>7, <1>8, <1>9, <1>10, <1>11

LEMMA ReadFits ==
  ASSUME IInv, NEW i \in Vector, NEW bytes \in Bytes, read(i, bytes)
  PROVE  IInv'
<1> DEFINE q == vector[i].at
           stale(j) == [vector[j] EXCEPT !.text = "stale"]
<1>1. /\ q \in Place /\ object[q] \in Object /\ object'[q] \in Object
      /\ \A p \in Place \ {q} : object'[p] = object[p]
      /\ object'[q].const = object[q].const
      /\ Len(object'[q].bytes) = Len(object[q].bytes)
  BY ReadChanges
<1>2. /\ \E z : object' = [object EXCEPT ![q] = z]
      /\ vector' = [j \in Vector |->
           IF vector[j] # None /\ vector[j].at = q /\ vector[j].text = "fresh"
           THEN stale(j) ELSE vector[j]]
  BY DEF read
<1>3. object' \in [Place -> Object \cup {None}]
  BY <1>1, <1>2 DEF IInv, Shape
<1>4. ASSUME NEW j \in Vector, vector[j] # None, vector[j].at = q, vector[j].text = "fresh"
      PROVE  stale(j) \in VectorRecord /\ Fits(object', stale(j))
  <2>1. vector[j] \in VectorRecord /\ Fits(object, vector[j])
    BY <1>4 DEF IInv, Shape
  <2>2. /\ stale(j) \in VectorRecord /\ stale(j).at = q /\ stale(j).text = "stale"
        /\ stale(j).writable = vector[j].writable
    BY <1>4, <2>1 DEF VectorRecord, Text
  <2>3. ~vector[j].writable
    BY <1>4, <2>1 DEF Fits, FitsIn
  <2> HIDE DEF stale
  <2> QED
    BY <1>1, <2>2, <2>3 DEF Fits, FitsIn
<1>5. ASSUME NEW j \in Vector, vector[j] # None, ~(vector[j].at = q /\ vector[j].text = "fresh")
      PROVE  Fits(object', vector[j])
  <2>1. Fits(object, vector[j]) /\ vector[j].at \in Place
    BY <1>5 DEF IInv, Shape, VectorRecord
  <2>2. CASE vector[j].at = q
    BY <1>1, <1>5, <2>1, <2>2 DEF Fits, FitsIn
  <2>3. CASE vector[j].at # q
    BY <1>1, <2>1, <2>3 DEF Fits
  <2> QED
    BY <2>2, <2>3
<1> HIDE DEF q, stale
<1>6. Shape'
  BY <1>2, <1>3, <1>4 DEF IInv, Shape
<1>7. \A j \in Vector : vector'[j] # None => Fits(object', vector'[j])
  BY <1>2, <1>4, <1>5
<1> QED
  BY <1>6, <1>7 DEF IInv, Fits

-----------------------------------------------------------------------------
(* The invariant.                                                          *)

LEMMA InitFits == Init => IInv
BY DEF Init, IInv, Shape

LEMMA NextFits ==
  ASSUME IInv, [Next]_vars
  PROVE  IInv'
<1>1. ASSUME NEW p \in Place, NEW x \in Object, declare(p, x)
      PROVE  IInv'
  <2>1. \A i \in Vector : ~(vector[i] # None /\ vector[i].at = p)
    BY <1>1, NoneAssumption DEF declare, IInv, Fits, FitsIn
  <2>2. vector' = Without(p)
    <3>1. vector' = vector
      BY <1>1 DEF declare
    <3>2. vector = [i \in Vector |-> vector[i]]
      BY DEF IInv, Shape
    <3> QED
      BY <2>1, <3>1, <3>2 DEF Without
  <2>3. object' = [object EXCEPT ![p] = x]
    BY <1>1 DEF declare
  <2> QED
    BY <2>2, <2>3, WithoutFits
<1>2. ASSUME NEW p \in Place, destroy(p)
      PROVE  IInv'
  BY <1>2, WithoutFits DEF destroy
<1>3. ASSUME NEW p \in Place, NEW bytes \in Bytes, resize(p, bytes)
      PROVE  IInv'
  <2> DEFINE y == [object[p] EXCEPT !.bytes = bytes]
  <2>1. object[p] \in Object /\ object[p].kind \in {"string", "container"}
    BY <1>3, Declared DEF resize, IInv
  <2>2. y \in Object
    BY <2>1, WithBytes
  <2>3. object' = [object EXCEPT ![p] = y] /\ vector' = Without(p)
    BY <1>3 DEF resize
  <2> HIDE DEF y
  <2> QED
    BY <2>2, <2>3, WithoutFits
<1>4. ASSUME NEW i \in Vector, NEW p \in Place, iovec(i, p) \/ ciovec(i, p)
      PROVE  IInv'
  <2>1. object[p] \in Object
    BY <1>4, Declared DEF iovec, ciovec, Whole, IInv
  <2> DEFINE n == Len(object[p].bytes)
  <2>2. n \in Nat /\ 0 \in Nat /\ 0 + n <= n /\ "no" \in Text /\ "no" # "fresh"
    BY <2>1, ObjectParts DEF Text
  <2>3. CASE iovec(i, p)
    BY <2>1, <2>2, <2>3, ConvertFits DEF iovec, Writable
  <2>4. CASE ciovec(i, p)
    BY <2>1, <2>2, <2>4, ConvertFits DEF ciovec
  <2> QED
    BY <1>4, <2>3, <2>4
<1>5. ASSUME NEW i \in Vector, NEW p \in Place, NEW b \in 0 .. MaxSize, NEW e \in 0 .. MaxSize,
             object[p] # None, b <= e, e <= Len(object[p].bytes),
             iovec_part(i, p, b, e) \/ ciovec_part(i, p, b, e) \/ ciovec_text(i, p, b)
      PROVE  IInv'
  <2>1. /\ object[p] \in Object /\ Len(object[p].bytes) \in Nat /\ b \in Nat /\ e \in Nat
        /\ "no" \in Text /\ "fresh" \in Text /\ "no" # "fresh"
    BY <1>5, Declared, ObjectParts, MaxSizeAssumption DEF IInv, Text
  <2>2. PartLength(b, e) \in Nat /\ b + PartLength(b, e) <= Len(object[p].bytes)
    BY <1>5, <2>1, PartFits
  <2>3. CASE iovec_part(i, p, b, e)
    BY <2>1, <2>2, <2>3, ConvertFits DEF iovec_part, Writable
  <2>4. CASE ciovec_part(i, p, b, e)
    BY <2>1, <2>2, <2>4, ConvertFits DEF ciovec_part
  <2>5. CASE ciovec_text(i, p, b)
    <3>1. PICK n \in TextEnd(object[p], b) : Convert(i, p, b, n - b, FALSE, "fresh")
      BY <2>5 DEF ciovec_text
    <3>2. n \in Nat /\ b <= n
      BY <1>5, <2>1, TextEndIs
    <3>3. n - b \in Nat /\ b + (n - b) = n
      BY <2>1, <3>2
    <3>4. b + (n - b) \in TextEnd(object[p], b)
      BY <3>3
    <3> QED
      BY <2>1, <3>1, <3>3, <3>4, ConvertFits
  <2> QED
    BY <1>5, <2>3, <2>4, <2>5
<1>6. ASSUME NEW i \in Vector, NEW j \in Vector, ciovec_vector(i, j) \/ iovec_iovec(i, j)
      PROVE  IInv'
  <2> DEFINE v == vector[j]
  <2>1. v # None
    BY <1>6 DEF ciovec_vector, iovec_iovec
  <2>2. /\ v.at \in Place /\ v.from \in Nat /\ v.size \in Nat /\ v.text \in Text
        /\ "no" \in Text /\ "no" # "fresh"
    BY <2>1 DEF IInv, Shape, VectorRecord, Text
  <2>3. FitsIn(object[v.at], v)
    BY <2>1 DEF IInv, Fits
  <2>4. CASE ciovec_vector(i, j)
    BY <2>2, <2>3, <2>4, ConvertFits DEF ciovec_vector, FitsIn
  <2>5. CASE iovec_iovec(i, j)
    BY <2>2, <2>3, <2>5, ConvertFits DEF iovec_iovec, FitsIn
  <2> QED
    BY <1>6, <2>4, <2>5
<1>7. ASSUME NEW i \in Vector, NEW bytes \in Bytes, read(i, bytes)
      PROVE  IInv'
  BY <1>7, ReadFits
<1>8. ASSUME NEW i \in Vector, NEW n \in 0 .. MaxSize + MaxOverrun, write(i, n)
      PROVE  IInv'
  BY <1>8 DEF write, IInv, Shape, Fits
<1>9. CASE UNCHANGED vars
  BY <1>9 DEF vars, IInv, Shape, Fits
<1> QED
  BY <1>1, <1>2, <1>3, <1>4, <1>5, <1>6, <1>7, <1>8, <1>9 DEF Next

LEMMA Invariance == Spec => []IInv
BY InitFits, NextFits, PTL DEF Spec

(* What the invariant says of a vector implies what the property does.     *)
LEMMA FitsImplies ==
  ASSUME NEW x, NEW v \in VectorRecord, FitsIn(x, v)
  PROVE  /\ x \in Object
         /\ v.writable => ~x.const
         /\ \/ v.from + v.size <= Len(x.bytes)
            \/ v.text = "stale" /\ ~v.writable
            \/ v.text = "fresh" /\ ~v.writable /\ Zeros(x, v.from) = {}
<1>1. /\ v.text \in {"no", "fresh", "stale"} /\ v.from \in Nat /\ v.size \in Nat
      /\ x \in Object /\ (v.writable => ~x.const)
  BY DEF VectorRecord, Text, FitsIn
<1>2. v.text # "no" => ~v.writable
  BY DEF FitsIn
<1>3. CASE v.text = "fresh"
  <2>1. v.from + v.size \in TextEnd(x, v.from)
    BY <1>3 DEF FitsIn
  <2>2. Zeros(x, v.from) # {} => v.from + v.size \in v.from .. Len(x.bytes)
    BY <2>1 DEF TextEnd, Zeros
  <2>3. Len(x.bytes) \in Nat
    BY <1>1, ObjectParts
  <2>4. Zeros(x, v.from) = {} \/ v.from + v.size <= Len(x.bytes)
    BY <1>1, <2>2, <2>3
  <2> QED
    BY <1>1, <1>2, <1>3, <2>4
<1>4. CASE v.text = "no"
  <2>1. v.from + v.size <= Len(x.bytes)
    BY <1>4 DEF FitsIn
  <2> QED
    BY <1>1, <2>1
<1> QED
  BY <1>1, <1>2, <1>3, <1>4

(* A vector that may be used lies inside an object that exists, and an     *)
(* iovec inside one that may be written, after whatever conversions,       *)
(* transfers and resizes, unless it is a ciovec of a text that has no zero *)
(* in its object, or had none before the kernel wrote to that.             *)
THEOREM VectorsStayInside == Spec => []InsideItsObject
<1>1. IInv => \A i \in Vector : vector[i] # None =>
                vector[i] \in VectorRecord /\ FitsIn(object[vector[i].at], vector[i])
  BY DEF IInv, Shape, Fits
<1>2. IInv => InsideItsObject
  BY <1>1, FitsImplies DEF InsideItsObject
<1> QED
  BY <1>2, Invariance, PTL

-----------------------------------------------------------------------------
(* What steps do.                                                          *)

(* Of two steps of the same place, only these change it and leave it.      *)
LEMMA Changes ==
  ASSUME IInv, [Next]_vars, NEW p \in Place,
         object[p] # None, object'[p] # None, object'[p] # object[p]
  PROVE  \/ \E bytes \in Bytes : resize(p, bytes)
         \/ \E i \in Vector, bytes \in Bytes : read(i, bytes) /\ vector[i].at = p
<1>1. object' # object
  OBVIOUS
<1>2. Next
  BY <1>1 DEF vars
<1>3. ASSUME NEW q \in Place, NEW x \in Object, declare(q, x)
      PROVE  FALSE
  BY <1>3 DEF declare, IInv, Shape
<1>4. ASSUME NEW q \in Place, destroy(q)
      PROVE  FALSE
  BY <1>4 DEF destroy, IInv, Shape
<1>5. ASSUME NEW q \in Place, NEW bytes \in Bytes, resize(q, bytes)
      PROVE  q = p
  BY <1>5 DEF resize, IInv, Shape
<1>6. ASSUME NEW i \in Vector, NEW bytes \in Bytes, read(i, bytes)
      PROVE  vector[i].at = p
  BY <1>6, ReadChanges
<1>7. ASSUME NEW i \in Vector, NEW q \in Place, NEW b \in 0 .. MaxSize, NEW e \in 0 .. MaxSize
      PROVE  /\ ~iovec(i, q) /\ ~ciovec(i, q) /\ ~iovec_part(i, q, b, e)
             /\ ~ciovec_part(i, q, b, e) /\ ~ciovec_text(i, q, b)
  BY <1>1 DEF iovec, ciovec, iovec_part, ciovec_part, ciovec_text, Convert
<1>8. ASSUME NEW i \in Vector, NEW j \in Vector
      PROVE  ~ciovec_vector(i, j) /\ ~iovec_iovec(i, j)
  BY <1>1 DEF ciovec_vector, iovec_iovec, Convert
<1>9. \A i \in Vector, n \in 0 .. MaxSize + MaxOverrun : ~write(i, n)
  BY <1>1 DEF write
<1>10. 0 \in 0 .. MaxSize
  BY MaxSizeAssumption
<1> QED
  BY <1>2, <1>3, <1>4, <1>5, <1>6, <1>7, <1>8, <1>9, <1>10 DEF Next

(* The kernel changes an object only where an iovec leads, and none leads  *)
(* into what is const, however it was converted.                           *)
THEOREM KernelWritesThroughIovecs == Spec => OnlyIovecsAreWritten
<1> DEFINE Good(p) ==
      object[p] # None /\ object'[p] # None /\ object'[p] # object[p] =>
        /\ ~object[p].const
        /\ \/ \A i \in Vector : vector'[i] # None => vector'[i].at # p
           \/ \E i \in Vector :
                /\ vector[i] # None /\ vector[i].at = p /\ vector[i].writable
                /\ \A n \in DOMAIN object[p].bytes :
                     n \notin vector[i].from + 1 .. vector[i].from + vector[i].size
                       => object'[p].bytes[n] = object[p].bytes[n]
<1>1. ASSUME IInv, [Next]_vars, NEW p \in Place,
             object[p] # None, object'[p] # None, object'[p] # object[p]
      PROVE  Good(p)
  <2>1. CASE \E bytes \in Bytes : resize(p, bytes)
    BY <2>1 DEF resize, Without
  <2>2. ASSUME NEW i \in Vector, NEW bytes \in Bytes, read(i, bytes), vector[i].at = p
        PROVE  Good(p)
    <3>1. vector[i] # None
      BY <2>2 DEF read
    <3> QED
      BY <1>1, <2>2, <3>1, ReadChanges
  <2> QED
    BY <1>1, <2>1, <2>2, Changes
<1>2. IInv /\ [Next]_vars => [\A p \in Place : Good(p)]_vars
  BY <1>1
<1> QED
  BY <1>2, Invariance, PTL DEF Spec, OnlyIovecsAreWritten

(* The k-th byte of a text, for k up to its length: the object's and not   *)
(* zero, or if the object has no zero perhaps one that is not its own.     *)
LEMMA TextByte ==
  ASSUME IInv, NEW i \in Vector, vector[i] # None, vector[i].text = "fresh",
         NEW k \in 1 .. vector[i].size
  PROVE  LET v == vector[i]
             x == object[v.at]
             c == Covered(v)[k]
         IN /\ c \in Byte \cup {Foreign} /\ c # 0
            /\ c = Foreign => Zeros(x, v.from) = {}
<1> DEFINE v == vector[i]
           x == object[v.at]
           n == v.from + v.size
           m == v.from + k
<1>1. v.from \in Nat /\ v.size \in Nat /\ k \in Nat /\ k > 0 /\ k <= v.size
  BY DEF IInv, Shape, VectorRecord
<1>2. x \in Object /\ n \in TextEnd(x, v.from)
  BY DEF IInv, Fits, FitsIn
<1>3. Covered(v)[k] = IF m <= Len(x.bytes) THEN x.bytes[m] ELSE Foreign
  BY DEF Covered
<1> HIDE DEF v, x
<1>4. x.bytes \in Seq(Byte) /\ Len(x.bytes) \in Nat
  BY <1>2, ObjectParts
<1>5. 0 \in Byte /\ Foreign # 0 /\ Foreign \notin Byte
  BY ForeignAssumption DEF Byte
<1>6. CASE m <= Len(x.bytes)
  <2>1. x.bytes[m] \in Byte
    BY <1>1, <1>4, <1>6
  <2>2. \A z \in Zeros(x, v.from) : n <= z
    <3>1. CASE Zeros(x, v.from) # {}
      BY <1>2, <3>1 DEF TextEnd
    <3> QED
      BY <3>1
  <2>3. m - 1 \in v.from .. Len(x.bytes) /\ m - 1 # Len(x.bytes) /\ (m - 1) + 1 = m
    BY <1>1, <1>4, <1>6
  <2>4. x.bytes[m] = 0 => m - 1 \in Zeros(x, v.from)
    BY <2>3 DEF Zeros
  <2>5. ~(n <= m - 1)
    BY <1>1
  <2> QED
    BY <1>3, <1>5, <1>6, <2>1, <2>2, <2>4, <2>5 DEF v, x
<1>7. CASE ~(m <= Len(x.bytes))
  <2>1. Zeros(x, v.from) # {} => n \in v.from .. Len(x.bytes)
    BY <1>2 DEF TextEnd, Zeros
  <2>2. Zeros(x, v.from) = {}
    BY <1>1, <1>4, <1>7, <2>1
  <2> QED
    BY <1>3, <1>5, <1>7, <2>2 DEF v, x
<1> QED
  BY <1>6, <1>7

(* What is written of a text, or of a vector converted from one, ends at   *)
(* the first zero: none is among it, and it leaves the object only if that *)
(* holds none.                                                             *)
THEOREM TextsEndAtTheirZero == Spec => TextsAreSentToTheirZero
<1> DEFINE Good(i, n) ==
      write(i, n) /\ vector[i].text = "fresh" =>
        LET v == vector[i]
            zeros == Zeros(object[v.at], v.from)
        IN /\ 0 \notin ToSet(sent')
           /\ Foreign \in ToSet(sent') => zeros = {}
           /\ n = v.size /\ zeros # {} => v.from + Len(sent') \in zeros
<1>1. ASSUME IInv, NEW i \in Vector, NEW n \in 0 .. MaxSize + MaxOverrun,
             write(i, n), vector[i].text = "fresh"
      PROVE  Good(i, n)
  <2> DEFINE v == vector[i]
             x == object[v.at]
             c == Covered(v)
             S == Byte \cup {Foreign}
  <2>1. v # None /\ n <= v.size /\ sent' = SubSeq(c, 1, n)
    BY <1>1 DEF write
  <2>2. v.from \in Nat /\ v.size \in Nat /\ n \in Nat
    BY <1>1, <2>1, MaxSizeAssumption, MaxOverrunAssumption DEF IInv, Shape, VectorRecord
  <2>3. x \in Object /\ v.from + v.size \in TextEnd(x, v.from)
    BY <1>1, <2>1 DEF IInv, Fits, FitsIn
  <2>4. \A k \in 1 .. v.size : /\ c[k] \in S /\ c[k] # 0
                               /\ c[k] = Foreign => Zeros(x, v.from) = {}
    BY <1>1, <2>1, TextByte
  <2>5. c \in Seq(S) /\ Len(c) = v.size
    <3>1. c \in [1 .. v.size -> S]
      BY <2>4 DEF Covered
    <3> HIDE DEF c, S
    <3> QED
      BY <2>2, <3>1
  <2> HIDE DEF v, x, c, S
  <2>6. /\ sent' \in Seq(S) /\ Len(sent') = n
        /\ \A k \in 1 .. n : sent'[k] = c[k]
    <3>1. \A k \in 1 .. n : c[k] \in S
      BY <2>1, <2>2, <2>4
    <3>2. QED
      BY <2>1, <2>2, <2>5, <3>1
  <2>7. \A b \in ToSet(sent') : \E k \in 1 .. v.size : b = c[k]
    BY <2>1, <2>2, <2>6 DEF ToSet
  <2>8. 0 \notin ToSet(sent') /\ (Foreign \in ToSet(sent') => Zeros(x, v.from) = {})
    BY <2>4, <2>7
  <2>9. Zeros(x, v.from) # {} => v.from + v.size \in Zeros(x, v.from)
    BY <2>3 DEF TextEnd
  <2>10. n = v.size /\ Zeros(x, v.from) # {} => v.from + Len(sent') \in Zeros(x, v.from)
    BY <2>6, <2>9
  <2> QED
    BY <2>8, <2>10 DEF v, x
<1>2. IInv /\ [Next]_vars =>
        [\A i \in Vector, n \in 0 .. MaxSize + MaxOverrun : Good(i, n)]_vars
  BY <1>1
<1> QED
  BY <1>2, Invariance, PTL DEF Spec, TextsAreSentToTheirZero
=============================================================================
