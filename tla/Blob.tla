-------------------------------- MODULE Blob --------------------------------
(***************************************************************************)
(* Blocks of memory with a size: src/src/core/blob.c over memAlloc() and   *)
(* memRealloc() of mem.c, used by somebody who keeps two descriptors and   *)
(* follows blob.h.  heap[a] is the block at address a, with room for       *)
(* octets behind the size; room comes in pages.  Allocation may fail; a    *)
(* block that is resized may move.                                         *)
(***************************************************************************)
EXTENDS Integers, Sequences

CONSTANTS
  Addr,          \* addresses of blocks
  HeaderSize,    \* octets before the contents, they hold the size
  PageSize,      \* memory of blobs is taken by pages
  MaxSize,       \* the largest size that is asked for
  Octet          \* octets that are written, zero not among them

VARIABLES
  heap,          \* [Addr -> block]
  held,          \* descriptors of the user, [Owners -> address or NULL]
  said           \* what the user has put into them

blobVars == <<heap, held, said>>
Owners == {"x", "y"}
NULL == 0
Junk == -1                     \* an octet nobody has written, or a wiped one
ASSUME BlobAssumption ==
  /\ NULL \notin Addr /\ MaxSize \in Nat
  /\ HeaderSize \in Nat /\ PageSize \in Nat \ {0}
Free == [size |-> 0, val |-> <<>>]
blobPageCount(size) == (size + HeaderSize + PageSize - 1) \div PageSize
Room(size) == blobPageCount(size) * PageSize - HeaderSize
Fill(n, o) == [i \in 1 .. n |-> o]
Vacant(h) == {a \in Addr : h[a] = Free}
Within(blob, i) == i <= blob.size

(* Every operator gives the set of its outcomes: the heap, the descriptor. *)
memAlloc(h) == {NULL} \cup Vacant(h)
Fresh(size) ==
  [size |-> size, val |-> [i \in 1 .. Room(size) |-> IF i <= size THEN 0 ELSE Junk]]
blobCreate(h, size) ==
  IF size = 0 THEN {[heap |-> h, blob |-> NULL]}
  ELSE {[heap |-> IF a = NULL THEN h ELSE [h EXCEPT ![a] = Fresh(size)], blob |-> a] :
        a \in memAlloc(h)}
blobClose(h, blob) == IF blob = NULL THEN h ELSE [h EXCEPT ![blob] = Free]
blobWipe(h, blob) ==
  IF blob = NULL THEN h
  ELSE [h EXCEPT ![blob].val =
          [i \in DOMAIN @ |-> IF Within(h[blob], i) THEN Junk ELSE @[i]]]
(* A block that grows or shrinks by pages stays or moves, and keeps what   *)
(* fits; on a failure it stays as it was.                                  *)
memRealloc(h, a, room) ==
  LET kept == [i \in 1 .. room |-> IF i <= Len(h[a].val) THEN h[a].val[i] ELSE Junk]
  IN {[heap |-> h, at |-> NULL]}
     \cup {[heap |-> [[h EXCEPT ![a] = Free] EXCEPT ![b] = [size |-> h[a].size, val |-> kept]],
            at |-> b] : b \in Vacant(h) \cup {a}}
(* Faulty variant: what was left behind by a larger size comes back.       *)
blobResize_variant(h, blob, size) ==
  LET old == h[blob]
      moves == IF Room(old.size) = Room(size) THEN {[heap |-> h, at |-> blob]}
               ELSE memRealloc(h, blob, Room(size))
      Sized(b) ==
        [size |-> size,
         val |-> [i \in DOMAIN b.val |-> IF i > Room(old.size) /\ i <= size THEN 0 ELSE b.val[i]]]
  IN IF blob = NULL THEN blobCreate(h, size)
     ELSE IF size = 0 THEN {[heap |-> blobClose(h, blob), blob |-> NULL]}
     ELSE {[heap |-> IF m.at = NULL THEN m.heap ELSE [m.heap EXCEPT ![m.at] = Sized(@)],
            blob |-> m.at] : m \in moves}
blobResize(h, blob, size) ==
  LET old == h[blob]
      moves == IF Room(old.size) = Room(size) THEN {[heap |-> h, at |-> blob]}
               ELSE memRealloc(h, blob, Room(size))
      Sized(b) ==
        [size |-> size,
         val |-> [i \in DOMAIN b.val |-> IF i > old.size /\ i <= size THEN 0 ELSE b.val[i]]]
  IN IF blob = NULL THEN blobCreate(h, size)
     ELSE IF size = 0 THEN {[heap |-> blobClose(h, blob), blob |-> NULL]}
     ELSE {[heap |-> IF m.at = NULL THEN m.heap ELSE [m.heap EXCEPT ![m.at] = Sized(@)],
            blob |-> m.at] : m \in moves}
blobSize(h, blob) == IF blob = NULL THEN 0 ELSE h[blob].size
blobCopy(h, dest, src) ==
  LET n == blobSize(h, src)
      Filled(r) ==
        IF r.blob = NULL THEN r
        ELSE [r EXCEPT !.heap[r.blob].val =
                [i \in DOMAIN @ |-> IF i <= n THEN h[src].val[i] ELSE @[i]]]
  IN IF dest = src THEN {[heap |-> h, blob |-> dest]}
     ELSE {Filled(r) : r \in blobResize(h, dest, n)}
Contents(h, blob) == IF blob = NULL THEN <<>> ELSE SubSeq(h[blob].val, 1, h[blob].size)
blobEq(h, blob1, blob2) ==
  blobSize(h, blob1) = blobSize(h, blob2) /\ Contents(h, blob1) = Contents(h, blob2)
blobCmp(h, blob1, blob2) ==
  LET v1 == Contents(h, blob1)
      v2 == Contents(h, blob2)
      d == {i \in 1 .. Len(v1) : v1[i] # v2[i]}
      first == CHOOSE i \in d : \A j \in d : i <= j
  IN IF Len(v1) # Len(v2) THEN IF Len(v1) < Len(v2) THEN -1 ELSE 1
     ELSE IF d = {} THEN 0 ELSE IF v1[first] < v2[first] THEN -1 ELSE 1

-----------------------------------------------------------------------------
(* The user.  A null descriptor for a size that is not null is a failure,  *)
(* after which the old descriptor is still good: the user keeps it.        *)
BlobInit ==
  /\ heap = [a \in Addr |-> Free] /\ held = [u \in Owners |-> NULL]
  /\ said = [u \in Owners |-> <<>>]
Kept(u, r, size) == IF r.blob = NULL /\ size # 0 THEN held[u] ELSE r.blob
Resized(v, n) == [i \in 1 .. n |-> IF i <= Len(v) THEN v[i] ELSE 0]

Resize(u, size) == \E r \in blobResize(heap, held[u], size) :
  /\ heap' = r.heap /\ held' = [held EXCEPT ![u] = Kept(u, r, size)]
  /\ said' = IF r.blob = NULL /\ size # 0 THEN said ELSE [said EXCEPT ![u] = Resized(@, size)]
Copy(u, w) == \E r \in blobCopy(heap, held[u], held[w]) :
  LET size == blobSize(heap, held[w])
  IN /\ heap' = r.heap /\ held' = [held EXCEPT ![u] = Kept(u, r, size)]
     /\ said' = IF r.blob = NULL /\ size # 0 THEN said ELSE [said EXCEPT ![u] = said[w]]
Close(u) ==
  /\ heap' = blobClose(heap, held[u])
  /\ held' = [held EXCEPT ![u] = NULL] /\ said' = [said EXCEPT ![u] = <<>>]
Wipe(u) ==
  /\ held[u] # NULL /\ heap' = blobWipe(heap, held[u])
  /\ said' = [said EXCEPT ![u] = Fill(Len(@), Junk)] /\ UNCHANGED held
Write(u, i, o) ==
  /\ i <= Len(said[u]) /\ heap' = [heap EXCEPT ![held[u]].val[i] = o]
  /\ said' = [said EXCEPT ![u][i] = o] /\ UNCHANGED held

BlobNext == \E u \in Owners :
  \/ \E size \in 0 .. MaxSize : Resize(u, size)
  \/ \E w \in Owners : Copy(u, w)
  \/ Close(u)
  \/ Wipe(u)
  \/ \E i \in 1 .. MaxSize, o \in Octet : Write(u, i, o)
BlobSpec == BlobInit /\ [][BlobNext]_blobVars

(* Whatever is resized, copied or cannot be allocated: a descriptor leads  *)
(* to what its user has put there, grown with zeros; descriptors share no  *)
(* block, no block is lost, and each has the room its size asks for.       *)
BlobsKept ==
  /\ \A u \in Owners : Contents(heap, held[u]) = said[u]
  /\ \A u \in Owners : (held[u] = NULL) <=> (said[u] = <<>>)
  /\ held["x"] # NULL => held["x"] # held["y"]
  /\ {a \in Addr : heap[a] # Free} = {held[u] : u \in Owners} \ {NULL}
  /\ \A a \in Addr : heap[a] # Free => Len(heap[a].val) = Room(heap[a].size)
  /\ blobEq(heap, held["x"], held["y"]) = (said["x"] = said["y"])
  /\ (blobCmp(heap, held["x"], held["y"]) = 0) = (said["x"] = said["y"])
=============================================================================
