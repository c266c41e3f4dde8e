------------------------- MODULE ScanBufferProofs -------------------------
(* Proofs about the scanner's byte arena: IInv is inductive, so the strings *)
(* that finishString and scanIdent cast without copying never change, for   *)
(* every set of bytes, array length and number of inputs.                   *)
EXTENDS ScanBuffer, TLAPS

USE ByteAssumption, BoundAssumption

\* What Store does: a cell inside the stored range takes the new byte, any
\* other cell keeps its value, and memory keeps its type.
LEMMA StoreLemma ==
  ASSUME mem \in [Cell -> Byte],
         NEW a \in Arr, NEW off \in Nat, NEW n \in Nat, off + n <= MaxLen,
         NEW bytes \in [0 .. n - 1 -> Byte]
  PROVE  /\ Store(a, off, n, bytes) \in [Cell -> Byte]
         /\ \A i \in 0 .. n - 1 : Store(a, off, n, bytes)[<<a, off + i>>] = bytes[i]
         /\ \A c \in Cell : ~(c[1] = a /\ off <= c[2] /\ c[2] < off + n)
              => Store(a, off, n, bytes)[c] = mem[c]
<1>1. ASSUME NEW c \in Cell, c[1] = a, off <= c[2], c[2] < off + n
      PROVE  bytes[c[2] - off] \in Byte
  BY <1>1 DEF Cell
<1>2. Store(a, off, n, bytes) \in [Cell -> Byte]
  BY <1>1 DEF Store
<1>3. ASSUME NEW i \in 0 .. n - 1
      PROVE  Store(a, off, n, bytes)[<<a, off + i>>] = bytes[i]
  <2>1. <<a, off + i>> \in Cell
    BY DEF Cell
  <2>2. (off + i) - off = i
    OBVIOUS
  <2> QED
    BY <2>1, <2>2 DEF Store
<1>4. ASSUME NEW c \in Cell, ~(c[1] = a /\ off <= c[2] /\ c[2] < off + n)
      PROVE  Store(a, off, n, bytes)[c] = mem[c]
  BY <1>4 DEF Store
<1> QED
  BY <1>2, <1>3, <1>4

\* Storing into cells that no finished string owns keeps every string.
LEMMA StoreKeepsStrings ==
  ASSUME TypeOK, StringsImmutable,
         NEW a \in Arr, NEW off \in Nat, NEW n \in Nat, off + n <= MaxLen,
         NEW bytes \in [0 .. n - 1 -> Byte],
         \A s \in strs : \A c \in Cell :
           Owns(s, c) => ~(c[1] = a /\ off <= c[2] /\ c[2] < off + n)
  PROVE  \A s \in strs : \A i \in 0 .. s.len - 1 :
           Store(a, off, n, bytes)[<<s.arr, s.off + i>>] = s.bytes[i]
<1> SUFFICES ASSUME NEW s \in strs, NEW i \in 0 .. s.len - 1
             PROVE  Store(a, off, n, bytes)[<<s.arr, s.off + i>>] = s.bytes[i]
  OBVIOUS
<1> DEFINE c == <<s.arr, s.off + i>>
<1>1. /\ s.arr < nextArr /\ nextArr \in 0 .. MaxArr /\ s.arr \in Nat
      /\ s.off \in Nat /\ s.len \in Nat /\ s.off + s.len <= MaxLen /\ s.cap = s.len
  BY DEF TypeOK, StringOK
<1>2. c \in Cell /\ c[1] = s.arr /\ c[2] = s.off + i
  <2>1. s.arr \in Arr
    BY <1>1, BoundAssumption DEF Arr
  <2>2. s.off + i \in 0 .. MaxLen - 1
    BY <1>1, BoundAssumption
  <2> QED
    BY <2>1, <2>2, Zenon DEF Cell
<1>3. Owns(s, c)
  BY <1>1, <1>2 DEF Owns
<1>4. Store(a, off, n, bytes)[c] = mem[c]
  BY <1>2, <1>3, StoreLemma DEF TypeOK
<1>5. mem[c] = s.bytes[i]
  BY DEF StringsImmutable
<1> QED
  BY <1>4, <1>5

\* A slice or a string of n arrays is one of any larger number of arrays.
LEMMA MoreArrays ==
  ASSUME NEW n \in Nat, NEW m \in Nat, n <= m
  PROVE  /\ \A s : SliceOK(s, n) => SliceOK(s, m)
         /\ \A s : StringOK(s, n) => StringOK(s, m)
  BY DEF SliceOK, StringOK, Slice

\* The nil slice is a slice, is empty, and owns no cell.
LEMMA NilSliceLemma ==
  /\ \A n \in Nat : SliceOK(NilSlice, n)
  /\ NilSlice.len = 0
  /\ Empty \in [0 .. NilSlice.len - 1 -> Byte]
  /\ \A c \in Cell : ~Owns(NilSlice, c)
  BY DEF SliceOK, Slice, NilSlice, Owns, Cell, Empty

\* Before any input there is no string and no buffer.
LEMMA InitIInv == Init => IInv
<1> SUFFICES ASSUME Init PROVE IInv
  OBVIOUS
<1>1. TypeOK
  <2>1. mem \in [Cell -> Byte] /\ nextArr \in 0 .. MaxArr
    BY DEF Init
  <2>4. scanning \in BOOLEAN
    BY DEF Init
  <2>2. SliceOK(prealloc, nextArr) /\ SliceOK(buf, nextArr)
    BY NilSliceLemma, 0 \in Nat DEF Init
  <2>3. want \in [0 .. buf.len - 1 -> Byte]
    BY NilSliceLemma DEF Init
  <2> QED
    BY <2>1, <2>2, <2>3, <2>4 DEF Init, TypeOK
<1>2. StringsImmutable /\ NoSharedCell /\ BufferIntact
  BY NilSliceLemma DEF Init, StringsImmutable, NoSharedCell, BufferIntact
<1> QED
  BY <1>1, <1>2 DEF IInv

\* scanner.init and cleanup only replace the tail: a fresh array is owned by
\* no string.
LEMMA InitCleanupIInv ==
  ASSUME IInv, (\E n \in 0 .. MaxLen : ScannerInit(n)) \/ Cleanup
  PROVE  IInv'
<1>1. /\ nextArr \in Nat /\ nextArr' \in Nat /\ nextArr <= nextArr' /\ nextArr' <= MaxArr
      /\ SliceOK(prealloc', nextArr') /\ ~scanning
      /\ (prealloc'.cap > 0 => prealloc'.arr = nextArr)
      /\ UNCHANGED <<mem, scanning, buf, want, strs>>
  <2>1. CASE Cleanup
    BY <2>1, NilSliceLemma DEF IInv, TypeOK, Cleanup, NilSlice
  <2>2. ASSUME NEW n \in 0 .. MaxLen, ScannerInit(n)
        PROVE  SliceOK(Make(nextArr, n), nextArr + 1) /\ Make(nextArr, n).arr = nextArr
    BY <2>2 DEF IInv, TypeOK, Make, Slice, SliceOK
  <2>3. CASE \E n \in 0 .. MaxLen : ScannerInit(n)
    BY <2>2, <2>3 DEF IInv, TypeOK, ScannerInit
  <2> QED
    BY <2>1, <2>3
<1>2. TypeOK'
  BY <1>1, MoreArrays DEF IInv, TypeOK
<1>3. StringsImmutable'
  BY <1>1 DEF IInv, StringsImmutable
<1>4. BufferIntact'
  BY <1>1 DEF IInv, BufferIntact
<1>5. ASSUME NEW s \in strs, NEW c \in Cell, Owns(s, c)
      PROVE  ~Owns(prealloc', c)
  <2>1. s.arr < nextArr /\ c[1] = s.arr /\ s.arr \in Nat
    BY <1>5 DEF IInv, TypeOK, StringOK, Owns, Cell, Arr
  <2> QED
    BY <1>1, <2>1 DEF Owns, SliceOK, Slice, Cell
<1>6. NoSharedCell'
  BY <1>1, <1>5 DEF IInv, NoSharedCell
<1> QED
  BY <1>2, <1>3, <1>4, <1>6 DEF IInv

\* buffer() moves the tail to the buffer; an abandoned buffer is owned by
\* nobody.
LEMMA BufferAbandonIInv ==
  ASSUME IInv, Buffer \/ Abandon
  PROVE  IInv'
<1>0. nextArr \in Nat /\ SliceOK(NilSlice, nextArr)
  BY NilSliceLemma DEF IInv, TypeOK
<1>1. CASE Buffer
  <2>0. want \in [0 .. -1 -> Byte]
    BY <1>1, NilSliceLemma DEF Buffer, IInv, TypeOK, BufferIntact
  <2>1. /\ SliceOK(buf', nextArr) /\ buf'.len = 0
        /\ \A c \in Cell : Owns(buf', c) => Owns(prealloc, c)
    <3>1. prealloc \in Slice /\ prealloc.off + prealloc.cap <= MaxLen
          /\ (prealloc.cap > 0 => prealloc.arr < nextArr)
      BY DEF IInv, TypeOK, SliceOK
    <3>2. buf' = [arr |-> prealloc.arr, off |-> prealloc.off, len |-> 0, cap |-> prealloc.cap]
      BY <1>1, <3>1 DEF Buffer, Slice
    <3> QED
      BY <3>1, <3>2 DEF SliceOK, Slice, Owns
  <2>2. TypeOK'
    BY <1>0, <1>1, <2>0, <2>1 DEF Buffer, IInv, TypeOK
  <2>3. StringsImmutable' /\ BufferIntact'
    BY <1>1, <2>1 DEF Buffer, IInv, StringsImmutable, BufferIntact
  <2>4. NoSharedCell'
    BY NilSliceLemma, <1>1, <2>1 DEF Buffer, IInv, NoSharedCell
  <2> QED
    BY <2>2, <2>3, <2>4 DEF IInv
<1>2. CASE Abandon
  <2>1. TypeOK'
    BY NilSliceLemma, <1>0, <1>2 DEF Abandon, IInv, TypeOK
  <2>2. StringsImmutable' /\ BufferIntact'
    BY NilSliceLemma, <1>2 DEF Abandon, IInv, StringsImmutable, BufferIntact
  <2>3. NoSharedCell'
    BY NilSliceLemma, <1>2 DEF Abandon, IInv, NoSharedCell
  <2> QED
    BY <2>1, <2>2, <2>3 DEF IInv
<1> QED
  BY <1>1, <1>2

\* finishString: the string and the tail split the buffer at its length.
LEMMA FinishStringIInv ==
  ASSUME IInv, FinishString
  PROVE  IInv'
<1> DEFINE str == StringOf(buf, want)
<1>1. /\ buf \in Slice /\ buf.len <= buf.cap /\ buf.off + buf.cap <= MaxLen
      /\ (buf.cap > 0 => buf.arr < nextArr) /\ want \in [0 .. buf.len - 1 -> Byte]
      /\ nextArr \in Nat
  BY DEF IInv, TypeOK, SliceOK
<1>2. /\ strs' = strs \cup {str} /\ prealloc' = ReturnBuffer(buf) /\ buf' = NilSlice
      /\ mem' = mem /\ nextArr' = nextArr /\ scanning' = FALSE
      /\ want' = Empty
  BY DEF FinishString
<1>3. /\ str.arr = buf.arr /\ str.off = buf.off /\ str.len = buf.len
      /\ str.cap = buf.len /\ str.bytes = want
  BY DEF StringOf
<1>a. StringOK(str, nextArr)
  BY <1>1, <1>3 DEF StringOK, Slice
<1> HIDE DEF str
<1>4. TypeOK'
  <2>1. SliceOK(ReturnBuffer(buf), nextArr)
    BY <1>1 DEF ReturnBuffer, NilSlice, Slice, SliceOK
  <2> QED
    BY NilSliceLemma, <1>1, <1>2, <1>a, <2>1 DEF IInv, TypeOK
<1>5. StringsImmutable'
  BY <1>2, <1>3, ZenonT(30) DEF IInv, StringsImmutable, BufferIntact
<1>6. NoSharedCell'
  <2>1. ASSUME NEW c \in Cell, Owns(ReturnBuffer(buf), c)
        PROVE  Owns(buf, c) /\ ~Owns(str, c)
    BY <1>1, <1>3, <2>1, SMTT(20) DEF ReturnBuffer, NilSlice, Owns, Slice, Cell
  <2> QED
    BY NilSliceLemma, <1>2, <2>1 DEF IInv, NoSharedCell
<1>7. BufferIntact'
  BY NilSliceLemma, <1>2 DEF BufferIntact
<1> QED
  BY <1>4, <1>5, <1>6, <1>7 DEF IInv

\* allocBytes: the identifier and the rest of the tail split it at n, or the
\* identifier is the only owner of a fresh array.
LEMMA AllocBytesIInv ==
  ASSUME IInv, NEW n \in 1 .. MaxLen, NEW bytes \in [0 .. n - 1 -> Byte],
         AllocBytes(n, bytes)
  PROVE  IInv'
<1>1. /\ nextArr \in Nat /\ SliceOK(prealloc, nextArr)
      /\ \A s \in strs : StringOK(s, nextArr)
      /\ nextArr <= MaxArr /\ mem \in [Cell -> Byte]
      /\ ~scanning /\ buf = NilSlice /\ UNCHANGED <<scanning, buf, want>>
  BY DEF IInv, TypeOK, AllocBytes, BufferIntact
<1>2. PICK a \in Arr, off \in Nat :
        /\ off + n <= MaxLen /\ a < nextArr'
        /\ mem' = Store(a, off, n, bytes)
        /\ strs' = strs \cup {[arr |-> a, off |-> off, len |-> n, cap |-> n, bytes |-> bytes]}
        /\ nextArr' \in Nat /\ nextArr <= nextArr' /\ nextArr' <= MaxArr
        /\ SliceOK(prealloc', nextArr')
        /\ \A c \in Cell : Owns(prealloc', c) => Owns(prealloc, c)
        /\ \A c \in Cell : Owns(prealloc', c) => ~(c[1] = a /\ off <= c[2] /\ c[2] < off + n)
        /\ \A s \in strs : \A c \in Cell :
             Owns(s, c) => ~(c[1] = a /\ off <= c[2] /\ c[2] < off + n)
  <2>1. CASE AllocPrealloc(n, bytes)
    <3>1. /\ prealloc.arr \in Arr /\ prealloc.arr < nextArr
          /\ prealloc.off \in Nat /\ prealloc.off + n <= MaxLen
          /\ nextArr' = nextArr
      BY <1>1, <2>1 DEF AllocPrealloc, SliceOK, Slice, Arr
    <3>2. SliceOK(prealloc', nextArr)
      <4>1. /\ prealloc.off + n \in 0 .. MaxLen /\ prealloc.len - n \in 0 .. MaxLen
            /\ prealloc.cap - n \in 0 .. MaxLen /\ prealloc.len - n <= prealloc.cap - n
            /\ (prealloc.off + n) + (prealloc.cap - n) <= MaxLen
        <5>1. prealloc.len >= n
          BY <2>1 DEF AllocPrealloc
        <5>2. /\ prealloc.off \in 0 .. MaxLen /\ prealloc.len \in 0 .. MaxLen
              /\ prealloc.cap \in 0 .. MaxLen /\ prealloc.len <= prealloc.cap
              /\ prealloc.off + prealloc.cap <= MaxLen
          BY <1>1 DEF SliceOK, Slice
        <5>3. ASSUME NEW o \in 0 .. MaxLen, NEW l \in 0 .. MaxLen, NEW c \in 0 .. MaxLen,
                     l <= c, o + c <= MaxLen, l >= n
              PROVE  /\ o + n \in 0 .. MaxLen /\ l - n \in 0 .. MaxLen
                     /\ c - n \in 0 .. MaxLen /\ l - n <= c - n
                     /\ (o + n) + (c - n) <= MaxLen
          BY <5>3
        <5> QED
          BY <5>1, <5>2, <5>3
      <4> QED
        BY <1>1, <2>1, <3>1, <4>1 DEF AllocPrealloc, SliceOK, Slice, Arr
    <3>3. ASSUME NEW c \in Cell, Owns(prealloc', c)
          PROVE  /\ Owns(prealloc, c)
                 /\ ~(c[1] = prealloc.arr /\ prealloc.off <= c[2] /\ c[2] < prealloc.off + n)
      BY <1>1, <2>1, <3>3, SMTT(20) DEF AllocPrealloc, SliceOK, Slice, Owns, Cell
    <3>4. ASSUME NEW c \in Cell, c[1] = prealloc.arr, prealloc.off <= c[2],
                 c[2] < prealloc.off + n
          PROVE  Owns(prealloc, c)
      BY <1>1, <2>1, <3>4, SMTT(20) DEF AllocPrealloc, SliceOK, Slice, Owns, Cell
    <3>5. strs' = strs \cup {[arr |-> prealloc.arr, off |-> prealloc.off,
                              len |-> n, cap |-> n, bytes |-> bytes]}
      BY <1>1, <2>1 DEF AllocPrealloc, StringOf, SliceOK, Slice
    <3>6. \A s \in strs : \A c \in Cell : Owns(s, c) => ~(c[1] = prealloc.arr
            /\ prealloc.off <= c[2] /\ c[2] < prealloc.off + n)
      BY <3>4 DEF IInv, NoSharedCell
    <3>7. mem' = Store(prealloc.arr, prealloc.off, n, bytes)
      BY <2>1 DEF AllocPrealloc
    <3> HIDE DEF Owns
    <3> QED
      BY <1>1, <3>1, <3>2, <3>3, <3>5, <3>6, <3>7
  <2>2. CASE AllocMake(n, bytes)
    <3>1. nextArr \in Arr /\ nextArr' = nextArr + 1 /\ prealloc' = prealloc
      BY <1>1, <2>2 DEF AllocMake, Arr
    <3>2. ASSUME NEW s, NEW c \in Cell, Owns(s, c), SliceOK(s, nextArr) \/ StringOK(s, nextArr)
          PROVE  c[1] # nextArr
      <4>1. CASE SliceOK(s, nextArr)
        BY <1>1, <3>2, <4>1, SMTT(20) DEF Owns, SliceOK, Slice, Cell
      <4>2. CASE StringOK(s, nextArr)
        BY <1>1, <3>2, <4>2 DEF Owns, StringOK, Cell
      <4> QED
        BY <3>2, <4>1, <4>2
    <3>3. SliceOK(prealloc', nextArr')
      BY <1>1, <3>1, MoreArrays
    <3>4. strs' = strs \cup {[arr |-> nextArr, off |-> 0,
                              len |-> n, cap |-> n, bytes |-> bytes]}
      BY <2>2 DEF AllocMake, StringOf, Make
    <3> QED
      BY <1>1, <2>2, <3>1, <3>2, <3>3, <3>4 DEF AllocMake
  <2> QED
    BY <2>1, <2>2 DEF AllocBytes
<1> DEFINE str == [arr |-> a, off |-> off, len |-> n, cap |-> n, bytes |-> bytes]
<1>3. StringOK(str, nextArr')
  BY <1>2 DEF StringOK, Arr
<1>4. mem' \in [Cell -> Byte] /\ \A i \in 0 .. n - 1 : mem'[<<a, off + i>>] = bytes[i]
  BY <1>1, <1>2, StoreLemma
<1>5. str.arr = a /\ str.off = off /\ str.len = n /\ str.cap = n /\ str.bytes = bytes
  OBVIOUS
<1>6. strs' = strs \cup {str}
  BY <1>2
<1> HIDE DEF str
<1>7. TypeOK'
  BY <1>1, <1>2, <1>3, <1>4, <1>6, MoreArrays DEF IInv, TypeOK
<1>8. StringsImmutable'
  <2>1. \A s \in strs : \A i \in 0 .. s.len - 1 : mem'[<<s.arr, s.off + i>>] = s.bytes[i]
    <3>1. \A s \in strs : \A i \in 0 .. s.len - 1 :
            Store(a, off, n, bytes)[<<s.arr, s.off + i>>] = s.bytes[i]
      <4>1. TypeOK /\ StringsImmutable /\ n \in Nat
        BY DEF IInv
      <4>2. \A s \in strs : \A c \in Cell :
              Owns(s, c) => ~(c[1] = a /\ off <= c[2] /\ c[2] < off + n)
        BY <1>2
      <4> QED
        BY <1>2, <4>1, <4>2, StoreKeepsStrings, ZenonT(30)
    <3> QED
      BY <1>2, <3>1
  <2> QED
    BY <1>4, <1>5, <1>6, <2>1 DEF StringsImmutable
<1>9. NoSharedCell'
  BY <1>1, <1>2, <1>5, <1>6, NilSliceLemma DEF IInv, NoSharedCell, Owns
<1>10. BufferIntact'
  BY <1>1, NilSliceLemma DEF IInv, BufferIntact
<1> QED
  BY <1>7, <1>8, <1>9, <1>10 DEF IInv

\* append: the bytes go to cells only the buffer owns, or to a fresh array.
LEMMA AppendIInv ==
  ASSUME IInv, NEW k \in 1 .. MaxLen, NEW bytes \in [0 .. k - 1 -> Byte],
         AppendBytes(k, bytes)
  PROVE  IInv'
<1>1. /\ nextArr \in Nat /\ nextArr <= MaxArr /\ mem \in [Cell -> Byte]
      /\ SliceOK(buf, nextArr) /\ SliceOK(prealloc, nextArr)
      /\ want \in [0 .. buf.len - 1 -> Byte]
      /\ \A s \in strs : StringOK(s, nextArr)
      /\ scanning /\ prealloc = NilSlice /\ UNCHANGED <<prealloc, scanning, strs>>
      /\ buf.len + k <= MaxLen /\ want' = Extended(k, bytes)
  BY DEF IInv, TypeOK, AppendBytes, BufferIntact
<1>2. /\ buf.arr \in Nat /\ buf.off \in 0 .. MaxLen /\ buf.len \in 0 .. MaxLen
      /\ buf.cap \in 0 .. MaxLen /\ buf.len <= buf.cap /\ buf.off + buf.cap <= MaxLen
      /\ (buf.cap > 0 => buf.arr < nextArr)
  BY <1>1 DEF SliceOK, Slice
<1>3. want' \in [0 .. (buf.len + k) - 1 -> Byte]
  <2>1. ASSUME NEW l \in 0 .. MaxLen, want \in [0 .. l - 1 -> Byte]
        PROVE  [i \in 0 .. l + k - 1 |-> IF i < l THEN want[i] ELSE bytes[i - l]]
                 \in [0 .. (l + k) - 1 -> Byte]
    <3>1. ASSUME NEW i \in 0 .. (l + k) - 1
          PROVE  (i < l /\ i \in 0 .. l - 1) \/ (~(i < l) /\ i - l \in 0 .. k - 1)
      OBVIOUS
    <3> QED
      BY <2>1, <3>1
  <2> QED
    BY <1>1, <1>2, <2>1 DEF Extended
<1>4. ASSUME NEW i \in 0 .. buf.len - 1
      PROVE  mem[<<buf.arr, buf.off + i>>] = want[i] /\ <<buf.arr, buf.off + i>> \in Cell
  <2>1. buf.cap > 0 /\ buf.off + i \in 0 .. MaxLen - 1
    BY <1>2
  <2> QED
    BY <1>1, <1>2, <2>1, SMTT(20) DEF IInv, BufferIntact, Cell, Arr
<1>5. CASE AppendInPlace(k, bytes)
  <2>1. /\ buf.len + k <= buf.cap /\ nextArr' = nextArr
        /\ mem' = Store(buf.arr, buf.off + buf.len, k, bytes)
        /\ buf' = [arr |-> buf.arr, off |-> buf.off, len |-> buf.len + k, cap |-> buf.cap]
    BY <1>1, <1>5 DEF AppendInPlace, SliceOK, Slice
  <2>2. /\ buf.arr \in Arr /\ buf.off + buf.len \in Nat
        /\ (buf.off + buf.len) + k <= MaxLen
    <3>1. buf.cap > 0
      BY <1>2, <2>1
    <3>2. ASSUME NEW o \in 0 .. MaxLen, NEW l \in 0 .. MaxLen, NEW c \in 0 .. MaxLen,
                 l + k <= c, o + c <= MaxLen
          PROVE  o + l \in Nat /\ (o + l) + k <= MaxLen
      BY <3>2
    <3>3. buf.arr \in Arr
      BY <1>1, <1>2, <3>1 DEF Arr
    <3> QED
      BY <1>2, <2>1, <3>2, <3>3
  <2>3. /\ SliceOK(buf', nextArr')
        /\ \A c \in Cell : Owns(buf', c) <=> Owns(buf, c)
    BY <1>1, <1>2, <2>1, SMTT(20) DEF SliceOK, Slice, Owns
  <2>4. TypeOK'
    <3>1. mem' \in [Cell -> Byte]
      BY <1>1, <2>1, <2>2, StoreLemma
    <3>2. buf'.len = buf.len + k
      BY <2>1
    <3>3. scanning' \in BOOLEAN
      BY <1>1 DEF IInv, TypeOK
    <3> QED
      BY <1>1, <1>3, <2>1, <2>3, <3>1, <3>2, <3>3 DEF TypeOK
  <2>5. StringsImmutable'
    <3>1. ASSUME NEW c \in Cell, c[1] = buf.arr, buf.off + buf.len <= c[2],
                 c[2] < (buf.off + buf.len) + k
          PROVE  Owns(buf, c)
      BY <1>2, <2>1, <3>1, SMTT(20) DEF Owns, Cell
    <3>2. \A s \in strs : \A c \in Cell : Owns(s, c) => ~(c[1] = buf.arr
             /\ buf.off + buf.len <= c[2] /\ c[2] < (buf.off + buf.len) + k)
      BY <3>1 DEF IInv, NoSharedCell
    <3>3. TypeOK /\ StringsImmutable /\ k \in Nat
      BY DEF IInv
    <3>4. \A s \in strs : \A i \in 0 .. s.len - 1 :
            Store(buf.arr, buf.off + buf.len, k, bytes)[<<s.arr, s.off + i>>] = s.bytes[i]
      BY <2>2, <3>2, <3>3, StoreKeepsStrings, ZenonT(30)
    <3> QED
      BY <1>1, <2>1, <3>4 DEF StringsImmutable
  <2>6. NoSharedCell'
    BY <1>1, <2>3, NilSliceLemma DEF IInv, NoSharedCell
  <2>7. ASSUME NEW i \in 0 .. buf.len + k - 1
        PROVE  mem'[<<buf.arr, buf.off + i>>] = want'[i]
    <3>0. k \in Nat
      OBVIOUS
    <3>1. CASE i < buf.len
      <4>1. <<buf.arr, buf.off + i>> \in Cell /\ mem[<<buf.arr, buf.off + i>>] = want[i]
        BY <1>2, <1>4, <3>1, SMTT(20)
      <4>2. ~(buf.off + buf.len <= buf.off + i)
        BY <1>2, <3>1
      <4>3. mem'[<<buf.arr, buf.off + i>>] = mem[<<buf.arr, buf.off + i>>]
        BY <1>1, <2>1, <2>2, <3>0, <4>1, <4>2, StoreLemma
      <4> QED
        BY <1>1, <1>2, <3>1, <4>1, <4>3 DEF Extended
    <3>2. CASE i >= buf.len
      <4>1. i - buf.len \in 0 .. k - 1 /\ (buf.off + buf.len) + (i - buf.len) = buf.off + i
        BY <1>2, <3>2, SMTT(20)
      <4>2. Store(buf.arr, buf.off + buf.len, k, bytes)
              [<<buf.arr, (buf.off + buf.len) + (i - buf.len)>>] = bytes[i - buf.len]
        BY <1>1, <2>2, <3>0, <4>1, StoreLemma, ZenonT(30)
      <4>3. want'[i] = bytes[i - buf.len]
        BY <1>1, <1>2, <3>2 DEF Extended
      <4> QED
        BY <2>1, <4>1, <4>2, <4>3
    <3> QED
      BY <1>2, <3>1, <3>2
  <2>8. BufferIntact'
    BY <1>1, <1>2, <2>1, <2>7, SMTT(20) DEF BufferIntact
  <2> QED
    BY <2>4, <2>5, <2>6, <2>8 DEF IInv
<1>6. CASE AppendGrow(k, bytes)
  <2> DEFINE held == [i \in 0 .. buf.len + k - 1 |->
               IF i < buf.len THEN mem[<<buf.arr, buf.off + i>>] ELSE bytes[i - buf.len]]
  <2>1. PICK cap \in buf.len + k .. MaxLen :
          buf' = [arr |-> nextArr, off |-> 0, len |-> buf.len + k, cap |-> cap]
    BY <1>6 DEF AppendGrow
  <2>2. /\ nextArr' = nextArr + 1 /\ nextArr < MaxArr
        /\ mem' = Store(nextArr, 0, buf.len + k, held)
    BY <1>6 DEF AppendGrow
  <2>3. held = want'
    BY <1>1, <1>2, <1>4, SMTT(20) DEF Extended
  <2> HIDE DEF held
  <2>4. held \in [0 .. (buf.len + k) - 1 -> Byte]
    BY <1>3, <2>3
  <2>5. /\ nextArr \in Arr /\ buf.len + k \in Nat /\ 0 + (buf.len + k) <= MaxLen
        /\ nextArr' \in Nat /\ nextArr <= nextArr' /\ nextArr' <= MaxArr
    BY <1>1, <1>2, <2>2 DEF Arr
  <2>6. /\ mem' \in [Cell -> Byte]
        /\ \A i \in 0 .. (buf.len + k) - 1 : mem'[<<nextArr, 0 + i>>] = held[i]
    <3>1. 0 \in Nat
      OBVIOUS
    <3>2. ASSUME NEW m \in Nat, 0 + m <= MaxLen, NEW h \in [0 .. m - 1 -> Byte]
          PROVE  /\ Store(nextArr, 0, m, h) \in [Cell -> Byte]
                 /\ \A i \in 0 .. m - 1 : Store(nextArr, 0, m, h)[<<nextArr, 0 + i>>] = h[i]
      <4>1. mem \in [Cell -> Byte] /\ nextArr \in Arr
        BY <1>1, <2>5
      <4> QED
        BY <4>1, <3>1, <3>2, StoreLemma
    <3> QED
      BY <2>2, <2>4, <2>5, <3>2
  <2>7. ASSUME NEW s \in strs, NEW c \in Cell, Owns(s, c)
        PROVE  c[1] # nextArr
    BY <1>1, <2>7 DEF Owns, StringOK, Cell
  <2>8. TypeOK'
    <3>1. SliceOK(buf', nextArr')
      BY <1>1, <1>2, <2>1, <2>2, SMTT(20) DEF SliceOK, Slice
    <3>2. buf'.len = buf.len + k
      BY <2>1
    <3> QED
      <4>1. scanning' \in BOOLEAN
        BY <1>1 DEF IInv, TypeOK
      <4>2. SliceOK(prealloc', nextArr') /\ \A s \in strs' : StringOK(s, nextArr')
        BY <1>1, <2>5, MoreArrays
      <4> QED
        BY <1>3, <2>5, <2>6, <3>1, <3>2, <4>1, <4>2 DEF TypeOK
  <2>9. StringsImmutable'
    <3>1. TypeOK /\ StringsImmutable
      BY DEF IInv
    <3>2. \A s \in strs : \A i \in 0 .. s.len - 1 :
            Store(nextArr, 0, buf.len + k, held)[<<s.arr, s.off + i>>] = s.bytes[i]
      <4>1. 0 \in Nat
        OBVIOUS
      <4> HIDE DEF Owns
      <4>2. \A s \in strs : \A c \in Cell :
              Owns(s, c) => ~(c[1] = nextArr /\ 0 <= c[2] /\ c[2] < 0 + (buf.len + k))
        BY <2>7
      <4> QED
        BY <2>4, <2>5, <3>1, <4>1, <4>2, StoreKeepsStrings, ZenonT(30)
    <3> QED
      BY <1>1, <2>2, <3>2 DEF StringsImmutable
  <2>10. NoSharedCell'
    <3>1. \A c \in Cell : Owns(buf', c) => c[1] = nextArr
      BY <2>1 DEF Owns
    <3> QED
      BY <1>1, <2>7, <3>1, NilSliceLemma DEF IInv, NoSharedCell
  <2>11. BufferIntact'
    <3>1. buf'.arr = nextArr /\ buf'.off = 0 /\ buf'.len = buf.len + k
      BY <2>1
    <3>2. \A i \in 0 .. (buf.len + k) - 1 : mem'[<<nextArr, 0 + i>>] = want'[i]
      BY <2>3, <2>6
    <3> QED
      BY <1>1, <3>1, <3>2 DEF BufferIntact
  <2> QED
    BY <2>8, <2>9, <2>10, <2>11 DEF IInv
<1> QED
  BY <1>5, <1>6 DEF AppendBytes

\* Every step of the scanner keeps the inductive invariant.
LEMMA NextIInv == IInv /\ [Next]_vars => IInv'
<1> SUFFICES ASSUME IInv, [Next]_vars PROVE IInv'
  OBVIOUS
<1>1. CASE (\E n \in 0 .. MaxLen : ScannerInit(n)) \/ Cleanup
  BY <1>1, InitCleanupIInv
<1>2. CASE \E n \in 1 .. MaxLen : \E bytes \in [0 .. n - 1 -> Byte] : AllocBytes(n, bytes)
  BY <1>2, AllocBytesIInv
<1>3. CASE Buffer \/ Abandon
  BY <1>3, BufferAbandonIInv
<1>4. CASE \E k \in 1 .. MaxLen : \E bytes \in [0 .. k - 1 -> Byte] : AppendBytes(k, bytes)
  BY <1>4, AppendIInv
<1>5. CASE FinishString
  BY <1>5, FinishStringIInv
<1>6. CASE UNCHANGED vars
  <2>1. UNCHANGED <<mem, nextArr, prealloc, scanning, buf, want, strs>>
    BY <1>6 DEF vars
  <2> QED
    BY <2>1 DEF IInv, TypeOK, StringsImmutable, NoSharedCell, BufferIntact
<1> QED
  BY <1>1, <1>2, <1>3, <1>4, <1>5, <1>6 DEF Next

\* The inductive invariant of the arena holds in every reachable state.
THEOREM ArenaInvariant == Spec => []IInv
  BY InitIInv, NextIInv, PTL DEF Spec

\* The strings that finishString (scan.go 88-92) and scanIdent (531-541) cast
\* from the arena without copying never change, however many literals,
\* identifiers and inputs follow, for every array length and number of inputs.
THEOREM StringsNeverOverwritten == Spec => []StringsImmutable
<1>1. IInv => StringsImmutable
  BY DEF IInv
<1> QED
  BY ArenaInvariant, <1>1, PTL

\* Appending to a literal's buffer never loses a byte, and while a literal is
\* scanned nobody else holds its buffer.
THEOREM BufferNeverLosesBytes == Spec => []BufferIntact
<1>1. IInv => BufferIntact
  BY DEF IInv
<1> QED
  BY ArenaInvariant, <1>1, PTL
=============================================================================
