---------------------------- MODULE ScanBuffer ----------------------------
(***************************************************************************)
(* The byte arena of the SQL scanner (pkg/sql/parser/scan.go).             *)
(*                                                                         *)
(* scanner.init preallocates one byte array as long as the input.  Literal *)
(* scanners borrow what is left of it with buffer(), append to it, turn    *)
(* the result into a Go string WITHOUT COPYING (unsafe.Pointer) and hand   *)
(* the unused tail back with returnBuffer; scanIdent carves lower-cased    *)
(* identifiers out of it with allocBytes.  Go strings are immutable by     *)
(* contract, so the whole scheme is only correct if no byte that belongs   *)
(* to a finished string is ever written again.                             *)
(*                                                                         *)
(* A slice is (arr, off, len, cap) as in the Go runtime: len is what may   *)
(* be read, cap is what append may overwrite.                              *)
(***************************************************************************)
EXTENDS Integers

CONSTANTS
  Byte,     \* the byte values
  Zero,     \* the value make() fills a new array with
  MaxLen,   \* bound: the length of the longest array
  MaxArr    \* bound: the number of arrays ever made

ASSUME ByteAssumption == Zero \in Byte
ASSUME BoundAssumption == MaxLen \in Nat /\ MaxArr \in Nat

VARIABLES
  mem,       \* the bytes of every array
  nextArr,   \* arrays made so far; array nextArr is the next fresh one
  prealloc,  \* scanner.bytesPrealloc
  scanning,  \* a literal scanner holds the slice returned by buffer()
  buf,       \* that slice
  want,      \* the bytes the literal scanner has appended so far
  strs       \* every string handed out: its slice and the bytes it must hold

vars == <<mem, nextArr, prealloc, scanning, buf, want, strs>>

Arr  == 0 .. MaxArr - 1
Cell == Arr \X (0 .. MaxLen - 1)

\* A nil slice has no capacity, so it owns no cell.
NilSlice == [arr |-> 0, off |-> 0, len |-> 0, cap |-> 0]

\* The cells that a holder of s may write, by append or by reslicing.
Owns(s, c) == c[1] = s.arr /\ s.off <= c[2] /\ c[2] < s.off + s.cap

\* make([]byte, n), in the fresh array a.
Make(a, n) == [arr |-> a, off |-> 0, len |-> n, cap |-> n]

\* The string cast from s, and the bytes its holder relies on.
StringOf(s, bytes) ==
  [arr |-> s.arr, off |-> s.off, len |-> s.len, cap |-> s.len, bytes |-> bytes]

\* Memory after n bytes are stored in array a from offset off on.
Store(a, off, n, bytes) ==
  [c \in Cell |-> IF c[1] = a /\ off <= c[2] /\ c[2] < off + n
                  THEN bytes[c[2] - off]
                  ELSE mem[c]]

Empty == [i \in 0 .. -1 |-> Zero]

Init ==
  /\ mem = [c \in Cell |-> Zero]
  /\ nextArr = 0
  /\ prealloc = NilSlice
  /\ scanning = FALSE
  /\ buf = NilSlice
  /\ want = Empty
  /\ strs = {}

\* init: a new input of n bytes.
ScannerInit(n) ==
  /\ ~scanning
  /\ nextArr < MaxArr
  /\ nextArr' = nextArr + 1
  /\ prealloc' = Make(nextArr, n)
  /\ UNCHANGED <<mem, scanning, buf, want, strs>>

Cleanup ==
  /\ ~scanning
  /\ prealloc' = NilSlice
  /\ UNCHANGED <<mem, nextArr, scanning, buf, want, strs>>

\* Mutant: allocBytes forgets to advance the preallocated slice.
AllocPreallocKeep(n, bytes) ==
  /\ prealloc.len >= n
  /\ mem' = Store(prealloc.arr, prealloc.off, n, bytes)
  /\ strs' = strs \cup {StringOf([prealloc EXCEPT !.len = n], bytes)}
  /\ UNCHANGED <<nextArr, prealloc>>

\* allocBytes, when the preallocated slice is long enough, and scanIdent's
\* writes to the result and cast of it.
AllocPrealloc(n, bytes) ==
  /\ prealloc.len >= n
  /\ mem' = Store(prealloc.arr, prealloc.off, n, bytes)
  /\ strs' = strs \cup {StringOf([prealloc EXCEPT !.len = n], bytes)}
  /\ prealloc' = [arr |-> prealloc.arr, off |-> prealloc.off + n,
                  len |-> prealloc.len - n, cap |-> prealloc.cap - n]
  /\ nextArr' = nextArr

\* allocBytes, when it is not: a fresh array.
AllocMake(n, bytes) ==
  /\ prealloc.len < n
  /\ nextArr < MaxArr
  /\ nextArr' = nextArr + 1
  /\ mem' = Store(nextArr, 0, n, bytes)
  /\ strs' = strs \cup {StringOf(Make(nextArr, n), bytes)}
  /\ prealloc' = prealloc

AllocBytes(n, bytes) ==
  /\ ~scanning
  /\ AllocPrealloc(n, bytes) \/ AllocMake(n, bytes)
  /\ UNCHANGED <<scanning, buf, want>>

\* Mutant: the preallocated slice is borrowed and kept.
BufferKeepsPrealloc ==
  /\ ~scanning
  /\ scanning' = TRUE
  /\ buf' = [prealloc EXCEPT !.len = 0]
  /\ UNCHANGED <<mem, nextArr, prealloc, want, strs>>

\* buffer: the literal scanner takes all of the preallocated capacity.
Buffer ==
  /\ ~scanning
  /\ scanning' = TRUE
  /\ buf' = [prealloc EXCEPT !.len = 0]
  /\ prealloc' = NilSlice
  /\ UNCHANGED <<mem, nextArr, want, strs>>

\* What buf holds once k bytes are appended.
Extended(k, bytes) ==
  [i \in 0 .. buf.len + k - 1 |-> IF i < buf.len THEN want[i] ELSE bytes[i - buf.len]]

\* append, within the capacity.
AppendInPlace(k, bytes) ==
  /\ buf.len + k <= buf.cap
  /\ mem' = Store(buf.arr, buf.off + buf.len, k, bytes)
  /\ buf' = [buf EXCEPT !.len = buf.len + k]
  /\ nextArr' = nextArr

\* append, beyond the capacity: the runtime copies the bytes to a fresh array
\* of whatever capacity it chooses.
AppendGrow(k, bytes) ==
  /\ buf.len + k > buf.cap
  /\ nextArr < MaxArr
  /\ nextArr' = nextArr + 1
  /\ LET held == [i \in 0 .. buf.len + k - 1 |->
                    IF i < buf.len THEN mem[<<buf.arr, buf.off + i>>] ELSE bytes[i - buf.len]]
     IN  mem' = Store(nextArr, 0, buf.len + k, held)
  /\ \E cap \in buf.len + k .. MaxLen :
       buf' = [arr |-> nextArr, off |-> 0, len |-> buf.len + k, cap |-> cap]

AppendBytes(k, bytes) ==
  /\ scanning
  /\ buf.len + k <= MaxLen
  /\ AppendInPlace(k, bytes) \/ AppendGrow(k, bytes)
  /\ want' = Extended(k, bytes)
  /\ UNCHANGED <<prealloc, scanning, strs>>

\* Mutant: the tail handed back still starts at the string.
ReturnBufferOverlap(b) ==
  IF b.len < b.cap
  THEN [arr |-> b.arr, off |-> b.off, len |-> 0, cap |-> b.cap]
  ELSE NilSlice

\* Mutant: the tail handed back is as long as the whole buffer.
ReturnBufferLong(b) ==
  IF b.len < b.cap
  THEN [arr |-> b.arr, off |-> b.off + b.len, len |-> 0, cap |-> b.cap]
  ELSE NilSlice

\* returnBuffer: what bytesPrealloc becomes.  It was nil since buffer().
ReturnBuffer(b) ==
  IF b.len < b.cap
  THEN [arr |-> b.arr, off |-> b.off + b.len, len |-> 0, cap |-> b.cap - b.len]
  ELSE NilSlice

\* finishString: the cast, then the return of the unused tail.
FinishString ==
  /\ scanning
  /\ strs' = strs \cup {StringOf(buf, want)}
  /\ prealloc' = ReturnBuffer(buf)
  /\ scanning' = FALSE
  /\ buf' = NilSlice
  /\ want' = Empty
  /\ UNCHANGED <<mem, nextArr>>

\* A literal scanner that reports an error returns without its buffer.
Abandon ==
  /\ scanning
  /\ scanning' = FALSE
  /\ buf' = NilSlice
  /\ want' = Empty
  /\ UNCHANGED <<mem, nextArr, prealloc, strs>>

Next ==
  \/ \E n \in 0 .. MaxLen : ScannerInit(n)
  \/ Cleanup
  \/ \E n \in 1 .. MaxLen : \E bytes \in [0 .. n - 1 -> Byte] : AllocBytes(n, bytes)
  \/ Buffer
  \/ \E k \in 1 .. MaxLen : \E bytes \in [0 .. k - 1 -> Byte] : AppendBytes(k, bytes)
  \/ FinishString
  \/ Abandon

Spec == Init /\ [][Next]_vars
-----------------------------------------------------------------------------
Slice == [arr : Nat, off : 0 .. MaxLen, len : 0 .. MaxLen, cap : 0 .. MaxLen]

\* A slice stays inside one of the n arrays made so far.
SliceOK(s, n) ==
  /\ s \in Slice
  /\ s.len <= s.cap
  /\ s.off + s.cap <= MaxLen
  /\ s.cap > 0 => s.arr < n

\* So does a string, whose capacity is its length.
StringOK(s, n) ==
  /\ s.arr \in Nat /\ s.off \in 0 .. MaxLen /\ s.len \in 0 .. MaxLen
  /\ s.cap = s.len
  /\ s.off + s.len <= MaxLen
  /\ s.len > 0 => s.arr < n
  /\ s.bytes \in [0 .. s.len - 1 -> Byte]

\* What the arena's variables range over.
TypeOK ==
  /\ mem \in [Cell -> Byte]
  /\ nextArr \in 0 .. MaxArr
  /\ scanning \in BOOLEAN
  /\ SliceOK(prealloc, nextArr)
  /\ SliceOK(buf, nextArr)
  /\ want \in [0 .. buf.len - 1 -> Byte]
  /\ \A s \in strs : StringOK(s, nextArr)

\* Every string the scanner ever handed out still holds exactly the bytes
\* that were appended to it: the unsafe cast in finishString and scanIdent
\* never lets a later literal, identifier or input overwrite it.
StringsImmutable ==
  \A s \in strs : \A i \in 0 .. s.len - 1 :
    mem[<<s.arr, s.off + i>>] = s.bytes[i]

\* No finished string owns a byte that append may still write, either
\* through the buffer in use or through the preallocated tail.
NoSharedCell ==
  \A s \in strs : \A c \in Cell :
    Owns(s, c) => ~Owns(buf, c) /\ ~Owns(prealloc, c)

\* The buffer in use holds what was appended to it, across reallocation,
\* and the scanner keeps no second reference to it.
BufferIntact ==
  /\ ~scanning => buf = NilSlice
  /\ scanning => prealloc = NilSlice
  /\ \A i \in 0 .. buf.len - 1 : mem[<<buf.arr, buf.off + i>>] = want[i]

IInv == TypeOK /\ StringsImmutable /\ NoSharedCell /\ BufferIntact
=============================================================================
